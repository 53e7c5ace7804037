SPECIFICATION Spec
CONSTANTS
  NumStages = 2
  NumTasks = 1
  NumLines = 1
  NumVMs = 2
  KeyHash <- MCHash
  HW = 0
  LW = 1
  MaxUps = 1
  MaxDowns = 1
  MaxRestarts = 1
  MaxLosses = 0
  Rates <- MCRates
  MaxReports = 2
  MaxLog = 2
INVARIANT AtLeastOnce
CHECK_DEADLOCK FALSE
