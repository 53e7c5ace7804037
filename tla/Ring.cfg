CONSTANTS
  IDs <- MCIDs
  HashFunc <- MCHash
  Address <- MCAddress
  Leader = "vm1"
  RingSize = 16
  ReplicaNum = 3
SPECIFICATION Spec
INVARIANT NearestClockwise
PROPERTY OneReplicaMoves
