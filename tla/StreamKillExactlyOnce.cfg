SPECIFICATION Spec
CONSTANTS
  NumStages = 2
  NumTasks = 1
  NumLines = 2
  KeyHash <- MCHash
  Passes <- MCIdentity
  PipeCap = 2
  Killable = {1}
  MaxKills = 1
  MaxLosses = 0
  MaxFails = 0
  MaxLog = 4
INVARIANT ExactlyOnce
CHECK_DEADLOCK FALSE
