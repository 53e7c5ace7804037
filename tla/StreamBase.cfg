SPECIFICATION FairSpec
CONSTANTS
  NumStages = 2
  NumTasks = 2
  NumLines = 3
  KeyHash <- MCHash
  Passes <- MCFilter
  PipeCap = 3
  Killable = {}
  MaxKills = 0
  MaxLosses = 0
  MaxFails = 0
  MaxLog = 3
INVARIANTS
  ExactlyOnce
  ClosedAfterData
PROPERTY
  JobCompletes
  ImplementsPipeline
