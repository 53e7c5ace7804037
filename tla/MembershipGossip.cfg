CONSTANTS
  Node = {n1, n2}
  Introducer = n1
  Modes <- MCGossipSuspect
  MaxInc = 1
  MaxHB = 1
  MaxMsgs = 1
  Leavers = {n2}
  MaxCrashes = 0
SPECIFICATION Spec
INVARIANTS TypeOK OwnerAhead
PROPERTY VerdictsStand
