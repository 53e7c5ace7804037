CONSTANTS
  ReplicaNum = 2
  NumOps = 3
  Commands <- MCReads
  AnyPrimary = TRUE
  Created = TRUE
  MaxToken = 9
  MaxWriteFails = 0
  MaxMergeFails = 1
SPECIFICATION FairSpec
INVARIANT AckedAtPrimary
PROPERTY CallsReturn
CHECK_DEADLOCK FALSE
