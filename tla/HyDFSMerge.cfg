CONSTANTS
  ReplicaNum = 3
  NumOps = 3
  Commands <- MCReads
  AnyPrimary = FALSE
  Created = TRUE
  MaxToken = 9
  MaxWriteFails = 1
  MaxMergeFails = 0
SPECIFICATION Spec
INVARIANTS AckedEverywhere GetReturnsAcked NoDuplicateChunk MergeConverges LockOwned
\* a lock that an append leaked blocks whatever needs it next
CHECK_DEADLOCK FALSE
