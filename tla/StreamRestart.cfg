SPECIFICATION Spec
CONSTANTS
  NumStages = 2
  NumTasks = 1
  NumLines = 1
  KeyHash <- MCHash
  Passes <- MCIdentity
  PipeCap = 2
  Killable <- MCAllStages
  MaxKills = 1
  MaxLosses = 1
  MaxFails = 1
  MaxLog = 3
INVARIANTS
  TypeOK
  NoDuplicateOutput
  AckedIsLogged
  AckedIsRemembered
  ClosedAfterData
  CompletionSound
\* a restarted task whose registration KillTask removed is never reached
CHECK_DEADLOCK FALSE
