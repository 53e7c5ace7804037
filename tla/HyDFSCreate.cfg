CONSTANTS
  ReplicaNum = 3
  NumOps = 3
  Commands <- MCCreates
  AnyPrimary = FALSE
  Created = FALSE
  MaxToken = 9
  MaxWriteFails = 1
  MaxMergeFails = 0
SPECIFICATION Spec
INVARIANTS TypeOK CreateOnce LockOwned
CHECK_DEADLOCK FALSE
