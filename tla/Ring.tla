-------------------------------- MODULE Ring --------------------------------
(***************************************************************************)
(* The placement of HyDFS files on the consistent-hashing ring             *)
(* (utils/utils.go).  Every call of GetReplica computes it afresh from the *)
(* member list of the local node, here the variable members: entries come  *)
(* and go one at a time (UpdateMemberlist, TimeOutCheck).  An id is        *)
(* "ip:port:time": a node that rejoins has a new id and its old address.   *)
(* Two ids are assumed to have different hashes.                           *)
(***************************************************************************)
EXTENDS Integers, Sequences, FiniteSets, SequencesExt

CONSTANTS
  IDs,          \* ids that may be in the member list
  HashFunc,     \* IDs -> 0 .. RingSize - 1
  Address,      \* IDs -> addresses
  Leader,       \* address of VM1
  RingSize,     \* 2^32 in the code
  ReplicaNum

FileIDs == 0 .. RingSize - 1

ASSUME RingAssumption ==
  /\ RingSize \in Nat \ {0} /\ ReplicaNum \in Nat \ {0}
  /\ HashFunc \in [IDs -> FileIDs]
  /\ \A a, b \in IDs : HashFunc[a] = HashFunc[b] => a = b

VARIABLE members

-----------------------------------------------------------------------------
(* The member list without the leader, whatever the states of the members. *)
GetRingInfo(ms) == {id \in ms : Address[id] # Leader}

(* Mutant: the ring is sorted by id instead of by hash.                    *)
SortedById(ms) ==
  LET ring == GetRingInfo(ms)
      before(id) == {o \in ring : o < id}
  IN [i \in 1 .. Cardinality(ring) |->
        CHOOSE id \in ring : Cardinality(before(id)) = i - 1]

(* sort.Slice by NodeID.                                                   *)
SortedRing(ms) ==
  LET ring == GetRingInfo(ms)
      before(id) == {o \in ring : HashFunc[o] < HashFunc[id]}
  IN [i \in 1 .. Cardinality(ring) |->
        CHOOSE id \in ring : Cardinality(before(id)) = i - 1]

(* Mutant: a node at the position of the file itself is passed over.       *)
GetSuccessorAfter(fileID, ring, num) ==
  LET after == {i \in 1 .. Len(ring) : HashFunc[ring[i]] > fileID}
      start == IF after = {} THEN 1 ELSE CHOOSE i \in after : \A j \in after : i <= j
  IN [i \in 1 .. num |-> ring[((start + i - 2) % Len(ring)) + 1]]

(* The first node at or after the file, index 1 when there is none, and    *)
(* the nodes that follow it around the ring.                               *)
GetSuccessor(fileID, ring, num) ==
  LET after == {i \in 1 .. Len(ring) : HashFunc[ring[i]] >= fileID}
      start == IF after = {} THEN 1 ELSE CHOOSE i \in after : \A j \in after : i <= j
  IN [i \in 1 .. num |-> ring[((start + i - 2) % Len(ring)) + 1]]

(* The empty sequence stands for the errors ("Not enough node ...").       *)
GetReplica(fileID, ms) ==
  IF Cardinality(ms) < ReplicaNum \/ Cardinality(GetRingInfo(ms)) < ReplicaNum
    THEN <<>>
    ELSE GetSuccessor(fileID, SortedRing(ms), ReplicaNum)

-----------------------------------------------------------------------------
Init == members = {}

(* UpdateMemberlist adds an entry that it did not know.                    *)
AddMember(id) == id \notin members /\ members' = members \cup {id}

(* TimeOutCheck deletes an entry that has failed.                          *)
DeleteMember(id) == id \in members /\ members' = members \ {id}

Next == \E id \in IDs : AddMember(id) \/ DeleteMember(id)

Spec == Init /\ [][Next]_members

-----------------------------------------------------------------------------
(* Properties.                                                             *)

Distance(fileID, id) == (HashFunc[id] - fileID) % RingSize

(* Reference definition: the replicas are the ReplicaNum ring nodes at the *)
(* smallest clockwise distance from the file, nearest first; every lookup  *)
(* wraps around the end of the ring correctly.                             *)
NearestClockwise ==
  \A f \in FileIDs :
    LET rep == GetReplica(f, members) IN rep # <<>> =>
      /\ Len(rep) = ReplicaNum
      /\ \A i, j \in 1 .. ReplicaNum :
           i < j => Distance(f, rep[i]) < Distance(f, rep[j])
      /\ \A id \in GetRingInfo(members) \ ToSet(rep) :
           Distance(f, rep[ReplicaNum]) < Distance(f, id)

(* A membership change moves at most one replica of a file, and the        *)
(* replicas that stay keep their order: only one node has to fetch it.     *)
OneReplicaMoves ==
  [][ \A f \in FileIDs :
        LET old == GetReplica(f, members)
            new == GetReplica(f, members')
        IN old # <<>> /\ new # <<>> =>
             /\ Cardinality(ToSet(new) \ ToSet(old)) <= 1
             /\ SelectSeq(new, LAMBDA id : id \in ToSet(old))
                  = SelectSeq(old, LAMBDA id : id \in ToSet(new)) ]_members
=============================================================================
