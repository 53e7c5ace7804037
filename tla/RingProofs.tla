----------------------------- MODULE RingProofs -----------------------------
(***************************************************************************)
(* Proofs about Ring, for every member list, every assignment of hashes    *)
(* and every size of the ring.  SortedRing and GetSuccessor are operators  *)
(* that choose: the lemmas say what they choose.                           *)
(***************************************************************************)
EXTENDS Ring, FiniteSetTheorems, WellFoundedInduction, TLAPS

-----------------------------------------------------------------------------
(* The sorted ring.                                                        *)

Before(S, id) == {o \in S : HashFunc[o] < HashFunc[id]}
Rank(S, id) == Cardinality(Before(S, id))

(* The hashes are positions on the ring, and different.                    *)
LEMMA HashTypes ==
  /\ RingSize \in Nat \ {0} /\ ReplicaNum \in Nat \ {0}
  /\ \A a \in IDs : HashFunc[a] \in FileIDs /\ HashFunc[a] \in Nat /\ HashFunc[a] < RingSize
  /\ \A a, b \in IDs : HashFunc[a] = HashFunc[b] => a = b
BY RingAssumption DEF FileIDs

(* The rank of a node is the number of nodes with smaller hashes.          *)
LEMMA RankGrows ==
  ASSUME NEW S \in SUBSET IDs, IsFiniteSet(S), NEW a \in S
  PROVE  /\ Rank(S, a) \in 0 .. Cardinality(S) - 1
         /\ \A b \in S : HashFunc[a] < HashFunc[b] => Rank(S, a) < Rank(S, b)
<1>h. \A x \in S : HashFunc[x] \in Nat
  BY HashTypes
<1>1. \A x \in S : IsFiniteSet(Before(S, x)) /\ Rank(S, x) \in Nat
  <2> TAKE x \in S
  <2>1. Before(S, x) \in SUBSET S
    BY DEF Before
  <2> QED
    BY <2>1, FS_Subset, FS_CardinalityType DEF Rank
<1>2. a \notin Before(S, a)
  BY <1>h DEF Before
<1>3. /\ IsFiniteSet(Before(S, a) \cup {a})
      /\ Cardinality(Before(S, a) \cup {a}) = Rank(S, a) + 1
  BY <1>1, <1>2, FS_AddElement DEF Rank
<1>4. Rank(S, a) + 1 <= Cardinality(S) /\ Cardinality(S) \in Nat
  <2>1. (Before(S, a) \cup {a}) \in SUBSET S
    BY DEF Before
  <2> QED
    BY <1>3, <2>1, FS_Subset, FS_CardinalityType
<1>5. ASSUME NEW b \in S, HashFunc[a] < HashFunc[b] PROVE Rank(S, a) < Rank(S, b)
  <2>1. (Before(S, a) \cup {a}) \in SUBSET Before(S, b)
    BY <1>h, <1>5 DEF Before
  <2>2. Rank(S, a) + 1 <= Rank(S, b)
    BY <1>1, <1>3, <2>1, FS_Subset DEF Rank
  <2> QED
    BY <1>1, <2>2
<1> QED
  BY <1>1, <1>4, <1>5

(* Every rank below the number of nodes is that of one node.               *)
LEMMA RanksTaken ==
  ASSUME NEW S \in SUBSET IDs, IsFiniteSet(S)
  PROVE  /\ \A r \in 0 .. Cardinality(S) - 1 : \E id \in S : Rank(S, id) = r
         /\ \A a, b \in S : Rank(S, a) = Rank(S, b) => a = b
<1>n. PICK n \in Nat : n = Cardinality(S)
  BY FS_CardinalityType
<1> DEFINE f == [id \in S |-> Rank(S, id)]
<1>1. \A a, b \in S : Rank(S, a) = Rank(S, b) => a = b
  <2> SUFFICES ASSUME NEW a \in S, NEW b \in S, Rank(S, a) = Rank(S, b) PROVE a = b
    OBVIOUS
  <2>1. HashFunc[a] \in Nat /\ HashFunc[b] \in Nat /\ Rank(S, a) \in Nat
    BY <1>n, RankGrows, HashTypes
  <2>2. ~(HashFunc[a] < HashFunc[b]) /\ ~(HashFunc[b] < HashFunc[a])
    BY <2>1, RankGrows
  <2>3. HashFunc[a] = HashFunc[b]
    BY <2>1, <2>2
  <2> QED
    BY <2>3, HashTypes
<1>2. f \in [S -> 0 .. n - 1]
  BY <1>n, RankGrows
<1>3. f \in Injection(S, 0 .. n - 1)
  BY <1>1, <1>2 DEF Injection, IsInjective
<1>4. IsFiniteSet(0 .. n - 1) /\ Cardinality(0 .. n - 1) = n
  <2>1. 0 \in Int /\ n - 1 \in Int
    OBVIOUS
  <2>2. /\ IsFiniteSet(0 .. n - 1)
        /\ Cardinality(0 .. n - 1) = IF 0 > n - 1 THEN 0 ELSE n - 1 - 0 + 1
    BY <2>1, FS_Interval
  <2> QED
    BY <2>2
<1>5. f \in Surjection(S, 0 .. n - 1)
  BY <1>3, <1>4, <1>n, FS_Injection
<1>6. \A r \in 0 .. n - 1 : \E id \in S : f[id] = r
  BY <1>5 DEF Surjection
<1> QED
  BY <1>1, <1>6, <1>n

(* s lists the nodes S by their hashes.                                    *)
Sorts(s, S) ==
  /\ s \in Seq(S) /\ Len(s) = Cardinality(S)
  /\ \A i, j \in 1 .. Len(s) : i < j => HashFunc[s[i]] < HashFunc[s[j]]
  /\ \A id \in S : \E i \in 1 .. Len(s) : s[i] = id

(* sort.Slice lists the nodes of the ring by their hashes.                 *)
LEMMA RingSorted ==
  ASSUME NEW ms \in SUBSET IDs, IsFiniteSet(ms)
  PROVE  Sorts(SortedRing(ms), GetRingInfo(ms)) /\ IsFiniteSet(GetRingInfo(ms))
<1>1. PICK S \in SUBSET IDs : S = GetRingInfo(ms)
  BY DEF GetRingInfo
<1>2. IsFiniteSet(S)
  BY <1>1, FS_Subset DEF GetRingInfo
<1>3. PICK n \in Nat : n = Cardinality(S)
  BY <1>2, FS_CardinalityType
<1> DEFINE nth(i) == CHOOSE id \in S : Rank(S, id) = i - 1
           s == [i \in 1 .. n |-> nth(i)]
<1>4. SortedRing(ms) = s
  BY <1>1, <1>3 DEF SortedRing, Rank, Before
<1>5. ASSUME NEW i \in 1 .. n PROVE nth(i) \in S /\ Rank(S, nth(i)) = i - 1
  <2>1. i - 1 \in 0 .. n - 1
    OBVIOUS
  <2>2. \E id \in S : Rank(S, id) = i - 1
    BY <1>2, <1>3, <2>1, RanksTaken
  <2> QED
    BY <2>2
<1> HIDE DEF nth
<1>6. s \in Seq(S) /\ Len(s) = n /\ \A i \in 1 .. n : s[i] = nth(i)
  BY <1>5
<1>7. ASSUME NEW i \in 1 .. n, NEW j \in 1 .. n, i < j
      PROVE  HashFunc[s[i]] < HashFunc[s[j]]
  <2>1. PICK a \in S : a = s[i] /\ Rank(S, a) = i - 1
    BY <1>5, <1>6
  <2>2. PICK b \in S : b = s[j] /\ Rank(S, b) = j - 1
    BY <1>5, <1>6
  <2>3. HashFunc[a] \in Nat /\ HashFunc[b] \in Nat
    BY HashTypes
  <2>4. HashFunc[a] # HashFunc[b]
    BY <1>7, <2>1, <2>2, HashTypes
  <2>5. ~(HashFunc[b] < HashFunc[a])
    <3> SUFFICES ASSUME HashFunc[b] < HashFunc[a] PROVE FALSE
      OBVIOUS
    <3>1. j - 1 < i - 1
      BY <1>2, <2>1, <2>2, RankGrows
    <3> QED
      BY <1>7, <3>1
  <2> QED
    BY <2>1, <2>2, <2>3, <2>4, <2>5
<1>8. ASSUME NEW id \in S PROVE \E i \in 1 .. n : s[i] = id
  <2>1. PICK r \in 0 .. n - 1 : Rank(S, id) = r
    BY <1>2, <1>3, RankGrows
  <2>2. r + 1 \in 1 .. n /\ r + 1 - 1 = r
    OBVIOUS
  <2>3. nth(r + 1) = id
    BY <1>2, <1>5, <2>1, <2>2, RanksTaken
  <2> QED
    BY <1>6, <2>2, <2>3
<1> QED
  BY <1>1, <1>2, <1>3, <1>4, <1>6, <1>7, <1>8 DEF Sorts

-----------------------------------------------------------------------------
(* The successors of a file.                                               *)

(* A nonempty set of natural numbers has a least element.                  *)
LEMMA LeastElement ==
  ASSUME NEW T \in SUBSET Nat, T # {}
  PROVE  \E m \in T : \A k \in T : m <= k
<1>1. PICK x \in T : \A y \in T : <<y, x>> \notin OpToRel(<, Nat)
  BY WFMin, NatLessThanWellFounded
<1>2. \A y \in T : x \in Nat /\ y \in Nat /\ ~(y < x)
  BY <1>1 DEF OpToRel
<1>3. \A y \in T : x <= y
  BY <1>2
<1> QED
  BY <1>3

(* The clockwise distance without the modulus.                             *)
LEMMA DistanceIs ==
  ASSUME NEW f \in FileIDs, NEW id \in IDs
  PROVE  Distance(f, id) = IF HashFunc[id] >= f THEN HashFunc[id] - f
                                               ELSE HashFunc[id] - f + RingSize
<1>1. /\ RingSize \in Nat \ {0} /\ HashFunc[id] \in Nat /\ HashFunc[id] < RingSize
      /\ f \in 0 .. RingSize - 1
  BY HashTypes DEF FileIDs
<1> QED
  BY <1>1 DEF Distance

(* The distances grow along the ring, and past its end.                    *)
LEMMA FartherOn ==
  ASSUME NEW f \in Nat, NEW x \in Nat, NEW y \in Nat, NEW R \in Nat, x < R,
         (x < y /\ (x >= f <=> y >= f)) \/ (x >= f /\ ~(y >= f))
  PROVE  (IF x >= f THEN x - f ELSE x - f + R) < (IF y >= f THEN y - f ELSE y - f + R)
OBVIOUS

(* p is the order in which the nodes of s lie clockwise from file f.       *)
Clockwise(p, s, f) ==
  /\ p \in [1 .. Len(s) -> 1 .. Len(s)]
  /\ \A q \in 1 .. Len(s) : \E k \in 1 .. Len(s) : p[k] = q
  /\ \A k, l \in 1 .. Len(s) : k < l => Distance(f, s[p[k]]) < Distance(f, s[p[l]])

(* GetSuccessor gives the first nodes in clockwise order.                  *)
LEMMA SuccessorsClockwise ==
  ASSUME NEW S \in SUBSET IDs, NEW s, Sorts(s, S), NEW f \in FileIDs,
         NEW num \in Nat \ {0}, num <= Len(s)
  PROVE  \E p : /\ Clockwise(p, s, f)
                /\ GetSuccessor(f, s, num) = [k \in 1 .. num |-> s[p[k]]]
<1>n. PICK n \in Nat \ {0} : n = Len(s)
  BY DEF Sorts
<1>f. f \in Nat /\ f < RingSize /\ RingSize \in Nat
  BY HashTypes DEF FileIDs
<1>s. /\ \A i \in 1 .. n : /\ s[i] \in IDs /\ HashFunc[s[i]] \in Nat
                           /\ HashFunc[s[i]] < RingSize
      /\ \A i, j \in 1 .. n : i < j => HashFunc[s[i]] < HashFunc[s[j]]
  BY <1>n, HashTypes DEF Sorts
<1> DEFINE after == {i \in 1 .. n : HashFunc[s[i]] >= f}
           least == CHOOSE i \in after : \A j \in after : i <= j
<1>0. after \in SUBSET Nat /\ after \in SUBSET (1 .. n)
  OBVIOUS
<1> HIDE DEF after
<1>1. PICK start : start = IF after = {} THEN 1 ELSE least
  OBVIOUS
<1>2. start \in 1 .. n /\ (after # {} => start \in after /\ \A j \in after : start <= j)
  <2>1. CASE after = {}
    BY <1>1, <2>1
  <2>2. CASE after # {}
    <3>1. \E i \in after : \A j \in after : i <= j
      BY <1>0, <2>2, LeastElement
    <3>2. least \in after /\ \A j \in after : least <= j
      BY <3>1
    <3> HIDE DEF least
    <3> QED
      BY <1>0, <1>1, <2>2, <3>2
  <2> QED
    BY <2>1, <2>2
<1> HIDE DEF least
<1> DEFINE p == [k \in 1 .. n |-> ((start + k - 2) % n) + 1]
<1>3. \A k \in 1 .. n : p[k] = IF start + k - 1 <= n THEN start + k - 1 ELSE start + k - 1 - n
  <2> TAKE k \in 1 .. n
  <2>1. ((start + k - 2) % n) + 1
          = IF start + k - 1 <= n THEN start + k - 1 ELSE start + k - 1 - n
    BY <1>2
  <2> QED
    BY <2>1
<1>4. p \in [1 .. n -> 1 .. n]
  <2>1. \A k \in 1 .. n : p[k] \in 1 .. n
    BY <1>2, <1>3
  <2> QED
    BY <2>1
<1>5. GetSuccessor(f, s, num) = [k \in 1 .. num |-> s[p[k]]]
  <2>1. \A k \in 1 .. num : k \in 1 .. n
    BY <1>n
  <2>2. GetSuccessor(f, s, num) = [k \in 1 .. num |-> s[((start + k - 2) % n) + 1]]
    BY <1>1, <1>n DEF GetSuccessor, least, after
  <2> QED
    BY <2>1, <2>2
<1> HIDE DEF p
<1>6. ASSUME NEW q \in 1 .. n PROVE \E k \in 1 .. n : p[k] = q
  <2>1. CASE q >= start
    <3>1. q - start + 1 \in 1 .. n /\ start + (q - start + 1) - 1 = q
      BY <1>2, <2>1
    <3> QED
      BY <1>3, <3>1
  <2>2. CASE q < start
    <3>1. /\ q - start + 1 + n \in 1 .. n /\ start + (q - start + 1 + n) - 1 - n = q
          /\ ~(start + (q - start + 1 + n) - 1 <= n)
      BY <1>2, <2>2
    <3> QED
      BY <1>3, <3>1
  <2> QED
    BY <1>2, <2>1, <2>2
<1>7. \A i \in 1 .. n : Distance(f, s[i]) = IF HashFunc[s[i]] >= f THEN HashFunc[s[i]] - f
                                              ELSE HashFunc[s[i]] - f + RingSize
  BY <1>s, DistanceIs
<1>8. \/ \A i \in 1 .. n : HashFunc[s[i]] >= f <=> i >= start
      \/ start = 1 /\ \A i \in 1 .. n : ~(HashFunc[s[i]] >= f)
  <2>1. CASE after = {}
    BY <1>1, <2>1 DEF after
  <2>2. CASE after # {}
    <3>1. start \in 1 .. n /\ HashFunc[s[start]] >= f
      BY <1>2, <2>2 DEF after
    <3> SUFFICES ASSUME NEW i \in 1 .. n PROVE HashFunc[s[i]] >= f <=> i >= start
      OBVIOUS
    <3>2. HashFunc[s[i]] >= f => i >= start
      BY <1>2, <2>2 DEF after
    <3>3. HashFunc[s[i]] \in Nat /\ HashFunc[s[start]] \in Nat
      BY <1>s, <3>1
    <3>4. i > start => HashFunc[s[start]] < HashFunc[s[i]]
      BY <1>s, <3>1
    <3>5. i > start => HashFunc[s[i]] >= f
      BY <1>f, <3>1, <3>3, <3>4
    <3> QED
      BY <3>1, <3>2, <3>5
  <2> QED
    BY <2>1, <2>2
<1>9. ASSUME NEW k \in 1 .. n, NEW l \in 1 .. n, k < l
      PROVE  Distance(f, s[p[k]]) < Distance(f, s[p[l]])
  <2>1. PICK a \in 1 .. n : a = p[k]
    BY <1>4
  <2>2. PICK b \in 1 .. n : b = p[l]
    BY <1>4
  <2>3. /\ a = IF start + k - 1 <= n THEN start + k - 1 ELSE start + k - 1 - n
        /\ b = IF start + l - 1 <= n THEN start + l - 1 ELSE start + l - 1 - n
    BY <1>3, <2>1, <2>2
  <2>4. PICK x \in Nat, y \in Nat : /\ x = HashFunc[s[a]] /\ y = HashFunc[s[b]]
                                    /\ x < RingSize /\ y < RingSize /\ (a < b => x < y)
    BY <1>s
  <2>5. /\ Distance(f, s[a]) = IF x >= f THEN x - f ELSE x - f + RingSize
        /\ Distance(f, s[b]) = IF y >= f THEN y - f ELSE y - f + RingSize
    BY <1>7, <2>4
  <2>6. (a < b /\ (a >= start \/ b < start)) \/ (a >= start /\ b < start)
    <3>1. start \in 1 .. n /\ k \in 1 .. n /\ l \in 1 .. n /\ k < l
      BY <1>2, <1>9
    <3>2. CASE start + l - 1 <= n
      BY <2>3, <3>1, <3>2
    <3>3. CASE start + l - 1 > n /\ start + k - 1 <= n
      BY <2>3, <3>1, <3>3
    <3>4. CASE start + k - 1 > n
      BY <2>3, <3>1, <3>4
    <3> QED
      BY <3>1, <3>2, <3>3, <3>4
  <2>7. \/ (x >= f <=> a >= start) /\ (y >= f <=> b >= start)
        \/ (start = 1 /\ ~(x >= f) /\ ~(y >= f))
    BY <1>8, <2>4
  <2>8. (IF x >= f THEN x - f ELSE x - f + RingSize)
          < (IF y >= f THEN y - f ELSE y - f + RingSize)
    <3> HIDE DEF after
    <3>1. start \in Nat /\ start >= 1 /\ b >= 1 /\ a \in Nat /\ b \in Nat
      BY <1>2
    <3>2. x < RingSize /\ (a < b => x < y)
      BY <2>4
    <3>3. CASE a < b
      <4>1. (a >= start <=> b >= start)
        BY <2>6, <3>1, <3>3
      <4>2. x < y /\ (x >= f <=> y >= f)
        BY <2>7, <3>2, <3>3, <4>1
      <4> QED
        BY <1>f, <3>2, <4>2, FartherOn
    <3>4. CASE a >= start /\ b < start
      <4>1. x >= f /\ ~(y >= f)
        BY <2>7, <3>1, <3>4
      <4> QED
        BY <1>f, <3>2, <4>1, FartherOn
    <3> QED
      BY <2>6, <3>3, <3>4
  <2> QED
    BY <2>1, <2>2, <2>5, <2>8
<1>10. Clockwise(p, s, f)
  BY <1>n, <1>4, <1>6, <1>9 DEF Clockwise
<1> QED
  BY <1>5, <1>10

-----------------------------------------------------------------------------
(* The replicas.                                                           *)

(* The member list is finite.                                              *)
MembersFinite == members \in SUBSET IDs /\ IsFiniteSet(members)

(* Entries come and go one at a time.                                      *)
LEMMA MembersStayFinite == Spec => []MembersFinite
<1>1. Init => MembersFinite
  BY FS_EmptySet DEF Init, MembersFinite
<1>2. MembersFinite /\ [Next]_members => MembersFinite'
  BY FS_AddElement, FS_RemoveElement DEF MembersFinite, Next, AddMember, DeleteMember
<1> QED
  BY <1>1, <1>2, PTL DEF Spec

(* What GetReplica answers when there are enough nodes.                    *)
LEMMA ReplicasNearest == MembersFinite => NearestClockwise
<1> SUFFICES ASSUME MembersFinite, NEW f \in FileIDs, GetReplica(f, members) # <<>>
             PROVE  LET rep == GetReplica(f, members) IN
                    /\ Len(rep) = ReplicaNum
                    /\ \A i, j \in 1 .. ReplicaNum :
                         i < j => Distance(f, rep[i]) < Distance(f, rep[j])
                    /\ \A id \in GetRingInfo(members) \ ToSet(rep) :
                         Distance(f, rep[ReplicaNum]) < Distance(f, id)
  BY DEF NearestClockwise
<1>1. PICK S \in SUBSET IDs : S = GetRingInfo(members)
  BY DEF GetRingInfo, MembersFinite
<1>2. PICK s : s = SortedRing(members)
  OBVIOUS
<1>3. Sorts(s, S) /\ IsFiniteSet(S)
  BY <1>1, <1>2, RingSorted DEF MembersFinite
<1>4. PICK rep : rep = GetReplica(f, members)
  OBVIOUS
<1>5. rep = GetSuccessor(f, s, ReplicaNum) /\ ~(Cardinality(S) < ReplicaNum)
  BY <1>1, <1>2, <1>4 DEF GetReplica
<1>6. PICK n \in Nat : n = Len(s) /\ n = Cardinality(S)
  BY <1>3, FS_CardinalityType DEF Sorts
<1>7. ReplicaNum \in Nat \ {0} /\ ReplicaNum <= n
  BY <1>5, <1>6, HashTypes
<1>8. PICK p : Clockwise(p, s, f) /\ rep = [k \in 1 .. ReplicaNum |-> s[p[k]]]
  <2>1. ReplicaNum <= Len(s)
    BY <1>6, <1>7
  <2> QED
    BY <1>3, <1>5, <1>7, <2>1, SuccessorsClockwise
<1>9. Len(rep) = ReplicaNum /\ DOMAIN rep = 1 .. ReplicaNum
  BY <1>7, <1>8
<1>10. \A i \in 1 .. ReplicaNum : i \in 1 .. n /\ rep[i] = s[p[i]]
  BY <1>7, <1>8
<1>11. \A i, j \in 1 .. ReplicaNum : i < j => Distance(f, rep[i]) < Distance(f, rep[j])
  BY <1>6, <1>8, <1>10 DEF Clockwise
<1>12. ASSUME NEW id \in S \ ToSet(rep)
       PROVE  Distance(f, rep[ReplicaNum]) < Distance(f, id)
  <2>1. PICK i \in 1 .. n : s[i] = id
    BY <1>3, <1>6 DEF Sorts
  <2>2. PICK k \in 1 .. n : p[k] = i
    BY <1>6, <1>8 DEF Clockwise
  <2>3. k \notin 1 .. ReplicaNum
    BY <1>9, <1>10, <1>12, <2>1, <2>2 DEF ToSet
  <2>4. ReplicaNum \in 1 .. ReplicaNum /\ ReplicaNum < k
    BY <1>7, <2>3
  <2>5. rep[ReplicaNum] = s[p[ReplicaNum]] /\ ReplicaNum \in 1 .. n
    BY <1>10, <2>4
  <2> QED
    BY <1>6, <1>8, <2>1, <2>2, <2>4, <2>5 DEF Clockwise
<1> QED
  BY <1>1, <1>4, <1>9, <1>11, <1>12

(* Every lookup finds the replicas at the smallest clockwise distances     *)
(* from the file, nearest first, whatever the members and wherever the     *)
(* search wraps around the end of the sorted list.                         *)
THEOREM LookupsAreNearest == Spec => []NearestClockwise
BY MembersStayFinite, ReplicasNearest, PTL
=============================================================================
