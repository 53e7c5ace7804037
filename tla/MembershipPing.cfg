CONSTANTS
  Node = {n1, n2}
  Introducer = n1
  Modes <- MCPingSuspect
  MaxInc = 1
  MaxHB = 0
  MaxMsgs = 1
  Leavers = {}
  MaxCrashes = 1
SPECIFICATION FairSpec
INVARIANT SelfAlive
PROPERTY Detected
