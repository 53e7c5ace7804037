SPECIFICATION FairSpec
CONSTANTS
  NumStages = 2
  NumTasks = 1
  NumLines = 1
  NumVMs = 2
  KeyHash <- MCHash
  HW = 0
  LW = 1
  MaxUps = 1
  MaxDowns = 1
  MaxRestarts = 1
  MaxLosses = 1
  Rates <- MCRates2
  MaxReports = 2
  MaxLog = 2
PROPERTY Drains
\* a job whose EOS went to a removed task ends without completing
CHECK_DEADLOCK FALSE
