---------------------------- MODULE HyDFSProofs -----------------------------
(***************************************************************************)
(* Proofs about HyDFS: the types of files and calls, the lock, what merges *)
(* do to the writes that were acknowledged, and that no chunk is in a file *)
(* twice as long as no merge met a fan-out on its way.                     *)
(***************************************************************************)
EXTENDS HyDFS, TLAPS, WellFoundedInduction, SequenceTheorems, FiniteSetTheorems

-----------------------------------------------------------------------------
(* Induction over an initial segment of the integers, for a set instead of *)
(* a predicate.                                                            *)

LEMMA LeastElement ==
  ASSUME NEW T \in SUBSET Nat, T # {}
  PROVE  \E m \in T : \A k \in T : m <= k
<1>1. PICK x \in T : \A y \in T : <<y, x>> \notin OpToRel(<, Nat)
  BY WFMin, NatLessThanWellFounded
<1>2. \A y \in T : ~(y < x)
  BY <1>1 DEF OpToRel
<1> QED
  BY <1>2

(* Induction along -1 .. N: what holds of -1 and passes from n - 1 to n    *)
(* holds of every n. The least counterexample stands for the induction.    *)
LEMMA SegmentInduction ==
  ASSUME NEW N \in Nat, NEW G, -1 \in G,
         \A n \in 0 .. N : n - 1 \in G => n \in G
  PROVE  \A n \in -1 .. N : n \in G
<1> DEFINE Bad == {n \in Nat : n <= N /\ n \notin G}
<1> SUFFICES ASSUME Bad # {} PROVE FALSE
  OBVIOUS
<1>1. PICK m \in Bad : \A k \in Bad : m <= k
  BY LeastElement
<1>2. m \in Nat /\ m <= N /\ m \notin G
  BY <1>1
<1>3. m - 1 \notin Bad
  BY <1>1, <1>2
<1>4. m - 1 \in G
  BY <1>2, <1>3
<1> QED
  BY <1>2, <1>4

-----------------------------------------------------------------------------
(* What SortedData computes.  Its recursive function is the fold of AddTo  *)
(* over the OpIDs 0 .. NumOps.                                             *)

EntryOf(E, n) == CHOOSE e \in E : e.OpID = n

AddTo(E, n, s) == IF \E e \in E : e.OpID = n THEN s \o EntryOf(E, n).Data ELSE s

IsFold(f, E, N) ==
  /\ f \in [-1 .. N -> Seq(Chunks)]
  /\ f[-1] = <<>>
  /\ \A n \in 0 .. N : f[n] = AddTo(E, n, f[n - 1])

(* EntryOf finds an entry with the operation id it is asked for.           *)
LEMMA EntryOfType ==
  ASSUME NEW E \in SUBSET Entry, NEW n, \E e \in E : e.OpID = n
  PROVE  /\ EntryOf(E, n) \in E /\ EntryOf(E, n).OpID = n
         /\ EntryOf(E, n).Data \in Seq(Chunks)
<1>1. EntryOf(E, n) \in E /\ EntryOf(E, n).OpID = n
  BY Zenon DEF EntryOf
<1> QED
  BY <1>1 DEF Entry

(* One round of the sorted concatenation yields chunks.                    *)
LEMMA AddToType ==
  ASSUME NEW E \in SUBSET Entry, NEW n, NEW s \in Seq(Chunks)
  PROVE  AddTo(E, n, s) \in Seq(Chunks)
<1>1. CASE \E e \in E : e.OpID = n
  BY <1>1, EntryOfType, ConcatProperties DEF AddTo
<1> QED
  BY <1>1 DEF AddTo

(* The recursion of SortedData has a solution for every set of entries.    *)
LEMMA FoldExists ==
  ASSUME NEW E \in SUBSET Entry, NEW N \in Nat
  PROVE  \E f : IsFold(f, E, N)
<1> DEFINE Empty == [n \in -1 .. -1 |-> <<>>]
           G == {n \in Int : \E f : IsFold(f, E, n)}
<1>1. -1 \in G
  <2>1. IsFold(Empty, E, -1)
    BY EmptySeq DEF IsFold
  <2> QED
    BY <2>1
<1>2. ASSUME NEW n \in 0 .. N, n - 1 \in G PROVE n \in G
  <2>1. PICK g : IsFold(g, E, n - 1)
    BY <1>2
  <2> DEFINE f == [i \in -1 .. n |-> IF i = n THEN AddTo(E, n, g[n - 1]) ELSE g[i]]
  <2>2. g \in [-1 .. n - 1 -> Seq(Chunks)] /\ g[n - 1] \in Seq(Chunks)
    BY <2>1 DEF IsFold
  <2>3. f \in [-1 .. n -> Seq(Chunks)] /\ f[-1] = <<>>
    BY <2>1, <2>2, AddToType DEF IsFold
  <2>4. ASSUME NEW k \in 0 .. n PROVE f[k] = AddTo(E, k, f[k - 1])
    <3>1. CASE k = n
      BY <3>1
    <3>2. CASE k # n
      <4>1. k \in 0 .. n - 1 /\ k - 1 \in -1 .. n /\ k - 1 # n
        BY <3>2
      <4>2. f[k] = g[k] /\ f[k - 1] = g[k - 1]
        BY <4>1, <3>2
      <4> QED
        BY <4>1, <4>2, <2>1 DEF IsFold
    <3> QED
      BY <3>1, <3>2
  <2> HIDE DEF f
  <2>5. IsFold(f, E, n)
    BY <2>3, <2>4 DEF IsFold
  <2> QED
    BY <2>5
<1> HIDE DEF G
<1>3. N \in G
  BY <1>1, <1>2, SegmentInduction
<1> QED
  BY <1>3 DEF G

(* SortedData is the last value of such a solution.                        *)
LEMMA SortedIsFold ==
  ASSUME NEW E \in SUBSET Entry
  PROVE  \E f : IsFold(f, E, NumOps) /\ SortedData(E) = f[NumOps]
<1> DEFINE upTo[n \in -1 .. NumOps] ==
        IF n = -1 THEN <<>>
        ELSE IF \E e \in E : e.OpID = n
          THEN upTo[n - 1] \o (CHOOSE e \in E : e.OpID = n).Data
          ELSE upTo[n - 1]
<1>1. SortedData(E) = upTo[NumOps]
  BY DEF SortedData
<1>2. NumOps \in Nat
  BY HyDFSAssumption
<1>3. PICK f : IsFold(f, E, NumOps)
  BY <1>2, FoldExists
<1>4. ASSUME NEW n \in -1 .. NumOps
      PROVE  f[n] = IF n = -1 THEN <<>>
                    ELSE IF \E e \in E : e.OpID = n
                      THEN f[n - 1] \o (CHOOSE e \in E : e.OpID = n).Data
                      ELSE f[n - 1]
  <2>1. CASE n = -1
    BY <2>1, <1>3 DEF IsFold
  <2>2. CASE n # -1
    <3>1. f[n] = AddTo(E, n, f[n - 1])
      BY <1>2, <1>3, <2>2 DEF IsFold
    <3> QED
      BY <3>1, <2>2 DEF AddTo, EntryOf
  <2> QED
    BY <2>1, <2>2
<1>5. f = [n \in -1 .. NumOps |-> f[n]]
  BY <1>3 DEF IsFold
<1>6. f = [n \in -1 .. NumOps |->
             IF n = -1 THEN <<>>
             ELSE IF \E e \in E : e.OpID = n
               THEN f[n - 1] \o (CHOOSE e \in E : e.OpID = n).Data
               ELSE f[n - 1]]
  BY <1>4, <1>5, Zenon
<1>7. upTo = [n \in -1 .. NumOps |->
                IF n = -1 THEN <<>>
                ELSE IF \E e \in E : e.OpID = n
                  THEN upTo[n - 1] \o (CHOOSE e \in E : e.OpID = n).Data
                  ELSE upTo[n - 1]]
  BY <1>6, Zenon
<1> HIDE DEF upTo
<1>8. ASSUME NEW n \in 0 .. NumOps PROVE upTo[n] = AddTo(E, n, upTo[n - 1])
  <2>1. n \in -1 .. NumOps /\ n # -1
    BY <1>2
  <2>2. upTo[n] = IF n = -1 THEN <<>>
                  ELSE IF \E e \in E : e.OpID = n
                    THEN upTo[n - 1] \o (CHOOSE e \in E : e.OpID = n).Data
                    ELSE upTo[n - 1]
    BY <1>7, <2>1, Zenon
  <2> QED
    BY <2>1, <2>2 DEF AddTo, EntryOf
<1>9. upTo[-1] = <<>>
  BY <1>2, <1>7
<1>10. \A n \in -1 .. NumOps : upTo[n] \in Seq(Chunks)
  <2> DEFINE G == {n \in -1 .. NumOps : upTo[n] \in Seq(Chunks)}
  <2>1. -1 \in G
    <3>1. <<>> \in Seq(Chunks)
      BY EmptySeq
    <3>2. -1 \in -1 .. NumOps
      BY <1>2
    <3> QED
      BY <1>9, <3>1, <3>2, Zenon
  <2>2. ASSUME NEW n \in 0 .. NumOps, n - 1 \in G PROVE n \in G
    BY <2>2, <1>2, <1>8, AddToType
  <2> HIDE DEF G
  <2>3. \A n \in -1 .. NumOps : n \in G
    BY <1>2, <2>1, <2>2, SegmentInduction
  <2> QED
    BY <2>3 DEF G
<1>11. upTo = [n \in -1 .. NumOps |-> upTo[n]]
  BY <1>7
<1>12. upTo \in [-1 .. NumOps -> Seq(Chunks)]
  BY <1>10, <1>11
<1>13. IsFold(upTo, E, NumOps)
  BY <1>8, <1>9, <1>12 DEF IsFold
<1> QED
  BY <1>1, <1>13

(* What MergeFiles builds from a set of log entries is a file.             *)
LEMMA SortedDataType ==
  ASSUME NEW E \in SUBSET Entry
  PROVE  SortedData(E) \in Seq(Chunks)
<1>1. PICK f : IsFold(f, E, NumOps) /\ SortedData(E) = f[NumOps]
  BY SortedIsFold
<1>2. NumOps \in -1 .. NumOps
  BY HyDFSAssumption
<1> QED
  BY <1>1, <1>2 DEF IsFold

(* The chunks of a concatenation are those of its two parts.               *)
LEMMA ChunksInConcat ==
  ASSUME NEW s \in Seq(Chunks), NEW t \in Seq(Chunks)
  PROVE  ChunksIn(s \o t) = ChunksIn(s) \cup ChunksIn(t)
<1>1. /\ Len(s) \in Nat /\ Len(t) \in Nat
      /\ Len(s \o t) = Len(s) + Len(t)
      /\ \A i \in 1 .. Len(s) + Len(t) :
           (s \o t)[i] = IF i <= Len(s) THEN s[i] ELSE t[i - Len(s)]
  BY ConcatProperties, LenProperties
<1>2. ASSUME NEW c \in ChunksIn(s \o t) PROVE c \in ChunksIn(s) \cup ChunksIn(t)
  <2>1. PICK n \in 1 .. Len(s) + Len(t) : c = (s \o t)[n]
    BY <1>1 DEF ChunksIn
  <2>2. CASE n <= Len(s)
    BY <1>1, <2>1, <2>2 DEF ChunksIn
  <2>3. CASE ~(n <= Len(s))
    <3>1. n - Len(s) \in 1 .. Len(t) /\ c = t[n - Len(s)]
      BY <1>1, <2>1, <2>3
    <3> QED
      BY <3>1 DEF ChunksIn
  <2> QED
    BY <2>2, <2>3
<1>3. ASSUME NEW c \in ChunksIn(s) PROVE c \in ChunksIn(s \o t)
  <2>1. PICK n \in 1 .. Len(s) : c = s[n]
    BY DEF ChunksIn
  <2>2. n \in 1 .. Len(s) + Len(t) /\ (s \o t)[n] = c
    BY <1>1, <2>1
  <2> QED
    BY <1>1, <2>2 DEF ChunksIn
<1>4. ASSUME NEW c \in ChunksIn(t) PROVE c \in ChunksIn(s \o t)
  <2>1. PICK n \in 1 .. Len(t) : c = t[n]
    BY DEF ChunksIn
  <2>2. n + Len(s) \in 1 .. Len(s) + Len(t) /\ (s \o t)[n + Len(s)] = c
    BY <1>1, <2>1
  <2> QED
    BY <1>1, <2>2 DEF ChunksIn
<1> QED
  BY <1>2, <1>3, <1>4

(* The chunks in the part of the merged file up to OpID n are the chunks   *)
(* of the entries with these OpIDs.                                        *)
LEMMA FoldChunks ==
  ASSUME NEW E \in SUBSET Entry, NEW f, IsFold(f, E, NumOps)
  PROVE  \A n \in -1 .. NumOps : \A c :
           c \in ChunksIn(f[n]) <=>
             \E m \in 0 .. n : /\ \E e \in E : e.OpID = m
                               /\ c \in ChunksIn(EntryOf(E, m).Data)
<1> DEFINE In(c, m) == (\E e \in E : e.OpID = m) /\ c \in ChunksIn(EntryOf(E, m).Data)
           G == {n \in -1 .. NumOps :
                   \A c : c \in ChunksIn(f[n]) <=> \E m \in 0 .. n : In(c, m)}
<1>1. NumOps \in Nat
  BY HyDFSAssumption
<1>2. -1 \in G
  <2>1. ChunksIn(f[-1]) = {}
    BY EmptySeq DEF IsFold, ChunksIn
  <2> QED
    BY <1>1, <2>1
<1>3. ASSUME NEW n \in 0 .. NumOps, n - 1 \in G PROVE n \in G
  <2> HIDE DEF In
  <2>1. f[n] = AddTo(E, n, f[n - 1]) /\ f[n - 1] \in Seq(Chunks)
    BY <1>1 DEF IsFold
  <2>2. \A c : c \in ChunksIn(f[n - 1]) <=> \E m \in 0 .. n - 1 : In(c, m)
    BY <1>3
  <2>3. \A c : c \in ChunksIn(f[n]) <=> c \in ChunksIn(f[n - 1]) \/ In(c, n)
    <3>1. CASE \E e \in E : e.OpID = n
      <4>1. f[n] = f[n - 1] \o EntryOf(E, n).Data
        BY <2>1, <3>1 DEF AddTo
      <4>2. ChunksIn(f[n]) = ChunksIn(f[n - 1]) \cup ChunksIn(EntryOf(E, n).Data)
        BY <2>1, <3>1, <4>1, EntryOfType, ChunksInConcat
      <4> QED
        BY <4>2, <3>1 DEF In
    <3>2. CASE ~\E e \in E : e.OpID = n
      BY <2>1, <3>2 DEF AddTo, In
    <3> QED
      BY <3>1, <3>2
  <2>4. \A m : m \in 0 .. n <=> m \in 0 .. n - 1 \/ m = n
    OBVIOUS
  <2>5. \A c : c \in ChunksIn(f[n]) <=> \E m \in 0 .. n : In(c, m)
    BY <2>2, <2>3, <2>4, Zenon
  <2> QED
    BY <2>5, <1>1
<1> HIDE DEF G
<1>4. \A n \in -1 .. NumOps : n \in G
  BY <1>1, <1>2, <1>3, SegmentInduction
<1> QED
  BY <1>4 DEF G

(* No two entries that a merge unites have the same OpID.                  *)
Functional(E) == \A e, g \in E : e.OpID = g.OpID => e = g

(* The merged file consists of the chunks of the entries.                  *)
LEMMA SortedDataChunks ==
  ASSUME NEW E \in SUBSET Entry, Functional(E)
  PROVE  \A c : c \in ChunksIn(SortedData(E)) <=> \E e \in E : c \in ChunksIn(e.Data)
<1>1. PICK f : IsFold(f, E, NumOps) /\ SortedData(E) = f[NumOps]
  BY SortedIsFold
<1>2. NumOps \in Nat /\ NumOps \in -1 .. NumOps
  BY HyDFSAssumption
<1>3. \A c : c \in ChunksIn(SortedData(E)) <=>
             \E m \in 0 .. NumOps : /\ \E e \in E : e.OpID = m
                                    /\ c \in ChunksIn(EntryOf(E, m).Data)
  BY <1>1, <1>2, FoldChunks
<1>4. ASSUME NEW e \in E
      PROVE  e.OpID \in 0 .. NumOps /\ EntryOf(E, e.OpID) = e
  <2>1. EntryOf(E, e.OpID) \in E /\ EntryOf(E, e.OpID).OpID = e.OpID
    BY EntryOfType
  <2>2. e.OpID \in 0 .. NumOps
    BY <1>2 DEF Entry, Chunks, Ops
  <2> QED
    BY <2>1, <2>2 DEF Functional
<1>5. ASSUME NEW m, \E e \in E : e.OpID = m PROVE EntryOf(E, m) \in E
  BY <1>5, EntryOfType
<1> QED
  BY <1>3, <1>4, <1>5

-----------------------------------------------------------------------------
(* Type correctness.                                                       *)

LEMMA ConstantTypes ==
  /\ ReplicaNum \in Nat /\ NumOps \in Nat /\ 1 \in Replicas
  /\ Replicas \subseteq Nat /\ Ops \subseteq Chunks /\ 0 \in Chunks /\ 0 \notin Ops
  /\ Commands \subseteq Kinds
  /\ MaxWriteFails \in Nat /\ MaxMergeFails \in Nat
BY HyDFSAssumption DEF Replicas, Ops, Chunks

(* The log entry of an operation is an entry.                              *)
LEMMA OpEntryType == ASSUME NEW c \in Chunks PROVE OpEntry(c) \in Entry /\ <<c>> \in Seq(Chunks)
BY DEF OpEntry, Entry

(* The initial state has the types of TypeOK.                              *)
LEMMA InitType == ASSUME Init PROVE TypeOK
<1>1. Idle \in OpRec
  BY ConstantTypes DEF Idle, OpRec, Kinds, NoCalls
<1>2. <<0>> \in Seq(Chunks) /\ <<OpEntry(0)>> \in Seq(Entry)
  BY ConstantTypes, OpEntryType
<1>3. data \in [Replicas -> Seq(Chunks)] /\ log \in [Replicas -> Seq(Entry)]
  BY <1>2, ConstantTypes DEF Init
<1> QED
  BY <1>1, <1>3, ConstantTypes DEF Init, TypeOK

(* The state of call i after a step that is a step of it alone.            *)
OpBecomes(i, kind, pc, at, call, logs, final, seen, quiet) ==
  /\ op' \in [Ops -> OpRec]
  /\ \A j \in Ops : j # i => op'[j] = op[j]
  /\ op'[i].kind = kind /\ op'[i].pc = pc /\ op'[i].at = at /\ op'[i].call = call
  /\ op'[i].logs = logs /\ op'[i].final = final /\ op'[i].seen = seen
  /\ op'[i].quiet = quiet

Pcs == {"idle", "local", "fanout", "poll", "reconcile", "ok", "failed"}
CallStates == {"none", "sent", "ok", "failed", "late", "error"}

(* A step that replaces the record of one operation changes its fields and *)
(* no other operation.                                                     *)
LEMMA OpSet ==
  ASSUME TypeOK, NEW i \in Ops, NEW q \in OpRec, op' = [op EXCEPT ![i] = q]
  PROVE  OpBecomes(i, q.kind, q.pc, q.at, q.call, q.logs, q.final, q.seen, q.quiet)
BY DEF TypeOK, OpBecomes

(* A command starts: it is at its first replica and has seen the           *)
(* acknowledged chunks.                                                    *)
LEMMA StartOp ==
  ASSUME TypeOK, NEW i \in Ops, NEW k \in Kinds, NEW r \in Replicas, Start(i, k, r)
  PROVE  OpBecomes(i, k, "local", r, op[i].call, op[i].logs, op[i].final,
                   AckedChunks, op[i].quiet)
<1> DEFINE q == [op[i] EXCEPT !.kind = k, !.pc = "local", !.at = r, !.seen = AckedChunks]
<1>1. AckedChunks \subseteq Chunks
  BY ConstantTypes DEF AckedChunks
<1>2. op[i] \in OpRec
  BY DEF TypeOK
<1>3. /\ q \in OpRec /\ q.kind = k /\ q.pc = "local" /\ q.at = r
      /\ q.call = op[i].call /\ q.logs = op[i].logs /\ q.final = op[i].final
      /\ q.seen = AckedChunks /\ q.quiet = op[i].quiet
  BY <1>1, <1>2 DEF OpRec
<1>4. op' = [op EXCEPT ![i] = q]
  BY DEF Start, TypeOK
<1> HIDE DEF q
<1>5. OpBecomes(i, q.kind, q.pc, q.at, q.call, q.logs, q.final, q.seen, q.quiet)
  BY <1>3, <1>4, OpSet
<1> QED
  BY <1>3, <1>5

(* A step that moves only the program counter of an operation.             *)
LEMMA PcOp ==
  ASSUME TypeOK, NEW i \in Ops, NEW p \in Pcs, op' = [op EXCEPT ![i].pc = p]
  PROVE  OpBecomes(i, op[i].kind, p, op[i].at, op[i].call, op[i].logs, op[i].final,
                   op[i].seen, op[i].quiet)
<1> DEFINE q == [op[i] EXCEPT !.pc = p]
<1>1. op[i] \in OpRec
  BY DEF TypeOK
<1>2. /\ q \in OpRec /\ q.kind = op[i].kind /\ q.pc = p /\ q.at = op[i].at
      /\ q.call = op[i].call /\ q.logs = op[i].logs /\ q.final = op[i].final
      /\ q.seen = op[i].seen /\ q.quiet = op[i].quiet
  BY <1>1 DEF OpRec, Pcs
<1>3. op' = [op EXCEPT ![i] = q]
  OBVIOUS
<1> HIDE DEF q
<1>4. OpBecomes(i, q.kind, q.pc, q.at, q.call, q.logs, q.final, q.seen, q.quiet)
  BY <1>2, <1>3, OpSet
<1> QED
  BY <1>2, <1>4

(* A step that moves only the replica at which an operation is.            *)
LEMMA AtOp ==
  ASSUME TypeOK, NEW i \in Ops, NEW a \in Replicas, op' = [op EXCEPT ![i].at = a]
  PROVE  OpBecomes(i, op[i].kind, op[i].pc, a, op[i].call, op[i].logs, op[i].final,
                   op[i].seen, op[i].quiet)
<1> DEFINE q == [op[i] EXCEPT !.at = a]
<1>1. op[i] \in OpRec
  BY DEF TypeOK
<1>2. /\ q \in OpRec /\ q.kind = op[i].kind /\ q.pc = op[i].pc /\ q.at = a
      /\ q.call = op[i].call /\ q.logs = op[i].logs /\ q.final = op[i].final
      /\ q.seen = op[i].seen /\ q.quiet = op[i].quiet
  BY <1>1 DEF OpRec
<1>3. op' = [op EXCEPT ![i] = q]
  OBVIOUS
<1> HIDE DEF q
<1>4. OpBecomes(i, q.kind, q.pc, q.at, q.call, q.logs, q.final, q.seen, q.quiet)
  BY <1>2, <1>3, OpSet
<1> QED
  BY <1>2, <1>4

(* A step that moves the program counter and the calls of an operation.    *)
LEMMA PcCallOp ==
  ASSUME TypeOK, NEW i \in Ops, NEW p \in Pcs, NEW c \in [Replicas -> CallStates],
         op' = [op EXCEPT ![i].pc = p, ![i].call = c]
  PROVE  OpBecomes(i, op[i].kind, p, op[i].at, c, op[i].logs, op[i].final,
                   op[i].seen, op[i].quiet)
<1> DEFINE q == [op[i] EXCEPT !.pc = p, !.call = c]
<1>1. op[i] \in OpRec
  BY DEF TypeOK
<1>2. /\ q \in OpRec /\ q.kind = op[i].kind /\ q.pc = p /\ q.at = op[i].at
      /\ q.call = c /\ q.logs = op[i].logs /\ q.final = op[i].final
      /\ q.seen = op[i].seen /\ q.quiet = op[i].quiet
  BY <1>1 DEF OpRec, Pcs, CallStates
<1>3. op' = [op EXCEPT ![i] = q]
  BY DEF TypeOK
<1> HIDE DEF q
<1>4. OpBecomes(i, q.kind, q.pc, q.at, q.call, q.logs, q.final, q.seen, q.quiet)
  BY <1>2, <1>3, OpSet
<1> QED
  BY <1>2, <1>4

(* A step that moves the program counter and the result of an operation.   *)
LEMMA PcFinalOp ==
  ASSUME TypeOK, NEW i \in Ops, NEW p \in Pcs, NEW d \in Seq(Chunks),
         op' = [op EXCEPT ![i].pc = p, ![i].final = d]
  PROVE  OpBecomes(i, op[i].kind, p, op[i].at, op[i].call, op[i].logs, d,
                   op[i].seen, op[i].quiet)
<1> DEFINE q == [op[i] EXCEPT !.pc = p, !.final = d]
<1>1. op[i] \in OpRec
  BY DEF TypeOK
<1>2. /\ q \in OpRec /\ q.kind = op[i].kind /\ q.pc = p /\ q.at = op[i].at
      /\ q.call = op[i].call /\ q.logs = op[i].logs /\ q.final = d
      /\ q.seen = op[i].seen /\ q.quiet = op[i].quiet
  BY <1>1 DEF OpRec, Pcs
<1>3. op' = [op EXCEPT ![i] = q]
  BY DEF TypeOK
<1> HIDE DEF q
<1>4. OpBecomes(i, q.kind, q.pc, q.at, q.call, q.logs, q.final, q.seen, q.quiet)
  BY <1>2, <1>3, OpSet
<1> QED
  BY <1>2, <1>4

(* A step that moves the program counter, the calls and the result.        *)
LEMMA PcCallFinalOp ==
  ASSUME TypeOK, NEW i \in Ops, NEW p \in Pcs, NEW c \in [Replicas -> CallStates],
         NEW d \in Seq(Chunks),
         op' = [op EXCEPT ![i].pc = p, ![i].call = c, ![i].final = d]
  PROVE  OpBecomes(i, op[i].kind, p, op[i].at, c, op[i].logs, d,
                   op[i].seen, op[i].quiet)
<1> DEFINE q == [op[i] EXCEPT !.pc = p, !.call = c, !.final = d]
<1>1. op[i] \in OpRec
  BY DEF TypeOK
<1>2. /\ q \in OpRec /\ q.kind = op[i].kind /\ q.pc = p /\ q.at = op[i].at
      /\ q.call = c /\ q.logs = op[i].logs /\ q.final = d
      /\ q.seen = op[i].seen /\ q.quiet = op[i].quiet
  BY <1>1 DEF OpRec, Pcs, CallStates
<1>3. op' = [op EXCEPT ![i] = q]
  BY DEF TypeOK
<1> HIDE DEF q
<1>4. OpBecomes(i, q.kind, q.pc, q.at, q.call, q.logs, q.final, q.seen, q.quiet)
  BY <1>2, <1>3, OpSet
<1> QED
  BY <1>2, <1>4

(* A step that moves the program counter, the calls and the mark that no   *)
(* write was under way.                                                    *)
LEMMA PcCallQuietOp ==
  ASSUME TypeOK, NEW i \in Ops, NEW p \in Pcs, NEW c \in [Replicas -> CallStates],
         NEW b \in BOOLEAN,
         op' = [op EXCEPT ![i].pc = p, ![i].call = c, ![i].quiet = b]
  PROVE  OpBecomes(i, op[i].kind, p, op[i].at, c, op[i].logs, op[i].final,
                   op[i].seen, b)
<1> DEFINE q == [op[i] EXCEPT !.pc = p, !.call = c, !.quiet = b]
<1>1. op[i] \in OpRec
  BY DEF TypeOK
<1>2. /\ q \in OpRec /\ q.kind = op[i].kind /\ q.pc = p /\ q.at = op[i].at
      /\ q.call = c /\ q.logs = op[i].logs /\ q.final = op[i].final
      /\ q.seen = op[i].seen /\ q.quiet = b
  BY <1>1 DEF OpRec, Pcs, CallStates
<1>3. op' = [op EXCEPT ![i] = q]
  BY DEF TypeOK
<1> HIDE DEF q
<1>4. OpBecomes(i, q.kind, q.pc, q.at, q.call, q.logs, q.final, q.seen, q.quiet)
  BY <1>2, <1>3, OpSet
<1> QED
  BY <1>2, <1>4

(* A step that answers one call of an operation.                           *)
LEMMA CallOp ==
  ASSUME TypeOK, NEW i \in Ops, NEW r \in Replicas, NEW v \in CallStates,
         op' = [op EXCEPT ![i].call[r] = v]
  PROVE  OpBecomes(i, op[i].kind, op[i].pc, op[i].at, [op[i].call EXCEPT ![r] = v],
                   op[i].logs, op[i].final, op[i].seen, op[i].quiet)
<1> DEFINE c == [op[i].call EXCEPT ![r] = v]
           q == [op[i] EXCEPT !.call = c]
<1>1. op[i] \in OpRec
  BY DEF TypeOK
<1>2. c \in [Replicas -> CallStates]
  BY <1>1 DEF OpRec, CallStates
<1>3. op' = [op EXCEPT ![i] = q]
  OBVIOUS
<1> HIDE DEF c
<1>4. /\ q \in OpRec /\ q.kind = op[i].kind /\ q.pc = op[i].pc /\ q.at = op[i].at
      /\ q.call = c /\ q.logs = op[i].logs /\ q.final = op[i].final
      /\ q.seen = op[i].seen /\ q.quiet = op[i].quiet
  BY <1>1, <1>2 DEF OpRec, CallStates
<1> HIDE DEF q
<1>5. OpBecomes(i, q.kind, q.pc, q.at, q.call, q.logs, q.final, q.seen, q.quiet)
  BY <1>3, <1>4, OpSet
<1> QED
  BY <1>4, <1>5 DEF c

(* A step that answers one call of an operation with a log.                *)
LEMMA CallLogOp ==
  ASSUME TypeOK, NEW i \in Ops, NEW r \in Replicas, NEW v \in CallStates,
         NEW l \in Seq(Entry),
         op' = [op EXCEPT ![i].call[r] = v, ![i].logs[r] = l]
  PROVE  OpBecomes(i, op[i].kind, op[i].pc, op[i].at, [op[i].call EXCEPT ![r] = v],
                   [op[i].logs EXCEPT ![r] = l], op[i].final, op[i].seen, op[i].quiet)
<1> DEFINE c == [op[i].call EXCEPT ![r] = v]
           g == [op[i].logs EXCEPT ![r] = l]
           q == [op[i] EXCEPT !.call = c, !.logs = g]
<1>1. op[i] \in OpRec
  BY DEF TypeOK
<1>2. c \in [Replicas -> CallStates] /\ g \in [Replicas -> Seq(Entry)]
  BY <1>1 DEF OpRec, CallStates
<1>3. op' = [op EXCEPT ![i] = q]
  BY <1>1 DEF TypeOK, OpRec
<1> HIDE DEF c, g
<1>4. /\ q \in OpRec /\ q.kind = op[i].kind /\ q.pc = op[i].pc /\ q.at = op[i].at
      /\ q.call = c /\ q.logs = g /\ q.final = op[i].final
      /\ q.seen = op[i].seen /\ q.quiet = op[i].quiet
  BY <1>1, <1>2 DEF OpRec, CallStates
<1> HIDE DEF q
<1>5. OpBecomes(i, q.kind, q.pc, q.at, q.call, q.logs, q.final, q.seen, q.quiet)
  BY <1>3, <1>4, OpSet
<1> QED
  BY <1>4, <1>5 DEF c, g

(* Writing both files of a replica keeps their types.                      *)
LEMMA SetFilesType ==
  ASSUME TypeOK, NEW r \in Replicas, NEW d \in Seq(Chunks), NEW l \in Seq(Entry),
         SetFiles(r, d, l)
  PROVE  /\ present' \in [Replicas -> SUBSET {"data", "log"}]
         /\ data' \in [Replicas -> Seq(Chunks)]
         /\ log' \in [Replicas -> Seq(Entry)]
BY DEF TypeOK, SetFiles

(* A write keeps the types of the files and of the locks, whether it       *)
(* succeeds, is refused or breaks off.                                     *)
LEMMA WriteType ==
  ASSUME TypeOK, NEW i \in Ops, NEW r \in Replicas,
         WriteOK(i, r) \/ WriteRefused(i, r) \/ WriteError(i, r)
  PROVE  /\ present' \in [Replicas -> SUBSET {"data", "log"}]
         /\ data' \in [Replicas -> Seq(Chunks)]
         /\ log' \in [Replicas -> Seq(Entry)]
         /\ lock' \in [Replicas -> Chunks]
<1>1. i \in Chunks /\ OpEntry(i) \in Entry /\ <<i>> \in Seq(Chunks)
  BY ConstantTypes, OpEntryType
<1>2. data[r] \in Seq(Chunks) /\ log[r] \in Seq(Entry)
  BY DEF TypeOK
<1>3. Append(data[r], i) \in Seq(Chunks) /\ Append(log[r], OpEntry(i)) \in Seq(Entry)
  BY <1>1, <1>2, AppendProperties
<1>4. <<OpEntry(i)>> \in Seq(Entry) /\ <<>> \in Seq(Chunks)
  BY <1>1
<1>5. CASE WriteOK(i, r)
  BY <1>1, <1>3, <1>4, <1>5, SetFilesType DEF WriteOK, TypeOK
<1>6. CASE WriteRefused(i, r)
  BY <1>1, <1>6 DEF WriteRefused, TypeOK, disk
<1>7. CASE WriteError(i, r)
  <2>1. present' \in [Replicas -> SUBSET {"data", "log"}]
    BY <1>7 DEF WriteError, TypeOK
  <2>2. data' \in [Replicas -> Seq(Chunks)]
    <3>1. PICK d \in Seq(Chunks) : data' = data \/ data' = [data EXCEPT ![r] = d]
      BY <1>1, <1>3, <1>4, <1>7 DEF WriteError
    <3> QED
      BY <3>1 DEF TypeOK
  <2>3. lock' = lock \/ lock' = [lock EXCEPT ![r] = i]
    BY <1>7 DEF WriteError
  <2>4. lock' \in [Replicas -> Chunks]
    BY <1>1, <2>3 DEF TypeOK
  <2> QED
    BY <2>1, <2>2, <2>4, <1>7 DEF WriteError, TypeOK
<1> QED
  BY <1>5, <1>6, <1>7

(* The scanner of a log returns some of its entries, and all of them when  *)
(* no line exceeds its buffer.                                             *)
LEMMA ScanLogType ==
  ASSUME NEW l \in Seq(Entry)
  PROVE  /\ ScanLog(l) \in Seq(Entry)
         /\ \A n \in 1 .. Len(ScanLog(l)) : \E m \in 1 .. Len(l) : ScanLog(l)[n] = l[m]
         /\ (\A n \in 1 .. Len(l) : Len(l[n].Data) <= MaxToken) => ScanLog(l) = l
<1> DEFINE short(n) == \A m \in 1 .. n : Len(l[m].Data) <= MaxToken
           last == CHOOSE n \in 0 .. Len(l) :
                     short(n) /\ \A m \in 0 .. Len(l) : short(m) => m <= n
<1>1. ScanLog(l) = SubSeq(l, 1, last)
  BY DEF ScanLog
<1>2. Len(l) \in Nat
  BY LenProperties
<1>3. \E n \in 0 .. Len(l) : short(n) /\ \A m \in 0 .. Len(l) : short(m) => m <= n
  <2> DEFINE Rest == {k \in Nat : k <= Len(l) /\ short(Len(l) - k)}
  <2>1. Len(l) \in Rest
    BY <1>2
  <2>2. PICK k \in Rest : \A j \in Rest : k <= j
    BY <2>1, LeastElement
  <2>3. k \in Nat /\ k <= Len(l) /\ short(Len(l) - k)
    BY <2>2
  <2>4. ASSUME NEW m \in 0 .. Len(l), short(m) PROVE m <= Len(l) - k
    <3>1. Len(l) - (Len(l) - m) = m /\ Len(l) - m \in Nat /\ Len(l) - m <= Len(l)
      BY <1>2
    <3>2. Len(l) - m \in Rest
      BY <3>1, <2>4
    <3>3. k <= Len(l) - m
      BY <3>2, <2>2
    <3> QED
      BY <3>3, <2>3, <1>2
  <2>5. Len(l) - k \in 0 .. Len(l)
    BY <1>2, <2>3
  <2> QED
    BY <2>3, <2>4, <2>5
<1>4. last \in 0 .. Len(l) /\ short(last) /\ \A m \in 0 .. Len(l) : short(m) => m <= last
  <2> HIDE DEF short
  <2> QED
    BY <1>3, Zenon
<1> HIDE DEF last
<1>5. /\ SubSeq(l, 1, last) \in Seq(Entry)
      /\ \A n \in 1 .. Len(SubSeq(l, 1, last)) :
           \E m \in 1 .. Len(l) : SubSeq(l, 1, last)[n] = l[m]
  <2>1. \A n \in 1 .. last : l[n] \in Entry
    BY <1>2, <1>4, ElementOfSeq
  <2>2. /\ SubSeq(l, 1, last) \in Seq(Entry)
        /\ Len(SubSeq(l, 1, last)) = IF 1 <= last THEN last - 1 + 1 ELSE 0
        /\ \A n \in 1 .. last - 1 + 1 : SubSeq(l, 1, last)[n] = l[1 + n - 1]
    BY <1>2, <1>4, <2>1, SubSeqProperties
  <2> QED
    BY <1>2, <1>4, <2>2
<1>6. ASSUME short(Len(l)) PROVE SubSeq(l, 1, last) = l
  BY <1>2, <1>4, <1>6, SubSeqFull
<1> QED
  BY <1>1, <1>5, <1>6

(* What a merge collects from the polled logs are log entries.             *)
LEMMA EntriesType ==
  ASSUME TypeOK, NEW i \in Ops, NEW rs \in SUBSET Replicas
  PROVE  Entries(i, rs) \in SUBSET Entry
<1>1. \A r \in rs : op[i].logs[r] \in Seq(Entry)
  BY DEF TypeOK, OpRec
<1> QED
  BY <1>1, ElementOfSeq DEF Entries

-----------------------------------------------------------------------------
(* What the steps do to the call that takes them.                          *)

SentCalls == [s \in Replicas |-> "sent"]
FanOutCalls(p) == [s \in Replicas |-> IF s = p THEN "ok" ELSE "sent"]

(* Only the call's control point changes.                                  *)
PcBecomes(i, p) ==
  OpBecomes(i, op[i].kind, p, op[i].at, op[i].call, op[i].logs, op[i].final,
            op[i].seen, op[i].quiet)

(* Only the state of its call to replica r changes.                        *)
CallBecomes(i, r, v) ==
  OpBecomes(i, op[i].kind, op[i].pc, op[i].at, [op[i].call EXCEPT ![r] = v],
            op[i].logs, op[i].final, op[i].seen, op[i].quiet)

(* The calls that a fan-out and a merge send are calls.                    *)
LEMMA CallTypes ==
  /\ SentCalls \in [Replicas -> CallStates]
  /\ \A p \in Replicas : FanOutCalls(p) \in [Replicas -> CallStates]
BY DEF SentCalls, FanOutCalls, CallStates

(* Effect of Begin: a command starts at the primary; only an append may    *)
(* start elsewhere.                                                        *)
LEMMA BeginOp ==
  ASSUME TypeOK, NEW i \in Ops, Begin(i)
  PROVE  /\ op[i].pc = "idle"
         /\ UNCHANGED <<disk, lock, writeFails, mergeFails>>
         /\ \E k \in Kinds, r \in Replicas :
              /\ k \in Commands
              /\ r # 1 => AnyPrimary /\ k = "append"
              /\ OpBecomes(i, k, "local", r, op[i].call, op[i].logs, op[i].final,
                           AckedChunks, op[i].quiet)
<1>1. PICK k \in Kinds, r \in Replicas :
        Start(i, k, r) /\ (r # 1 => AnyPrimary /\ k = "append")
  BY ConstantTypes DEF Begin, ExecCreate, ExecAppend, ExecMerge, ExecGet,
                       TriggerAppend, Kinds
<1>2. OpBecomes(i, k, "local", r, op[i].call, op[i].logs, op[i].final,
                AckedChunks, op[i].quiet)
  BY <1>1, StartOp
<1> QED
  BY <1>1, <1>2 DEF Start

(* Effect of LocalWrite: the primary writes and fans out, or refuses.      *)
LEMMA LocalWriteOp ==
  ASSUME TypeOK, NEW i \in Ops, LocalWrite(i)
  PROVE  /\ IsWrite(i) /\ op[i].pc = "local" /\ UNCHANGED <<writeFails, mergeFails>>
         /\ \/ /\ WriteOK(i, op[i].at)
               /\ OpBecomes(i, op[i].kind, "fanout", op[i].at, FanOutCalls(op[i].at),
                            op[i].logs, op[i].final, op[i].seen, op[i].quiet)
            \/ WriteRefused(i, op[i].at) /\ PcBecomes(i, "failed")
<1>1. op[i].at \in Replicas /\ "fanout" \in Pcs /\ "failed" \in Pcs
  BY DEF TypeOK, OpRec, Pcs
<1>2. CASE /\ WriteOK(i, op[i].at)
           /\ op' = [op EXCEPT ![i].pc = "fanout", ![i].call = FanOutCalls(op[i].at)]
  BY <1>1, <1>2, PcCallOp, CallTypes DEF LocalWrite
<1>3. CASE WriteRefused(i, op[i].at) /\ op' = [op EXCEPT ![i].pc = "failed"]
  BY <1>1, <1>3, PcOp DEF LocalWrite, PcBecomes
<1> QED
  BY <1>2, <1>3 DEF LocalWrite, FanOutCalls

(* Effect of LocalWriteFails: an I/O error at the primary fails the        *)
(* operation.                                                              *)
LEMMA LocalWriteFailsOp ==
  ASSUME TypeOK, NEW i \in Ops, LocalWriteFails(i)
  PROVE  /\ IsWrite(i) /\ op[i].pc = "local" /\ WriteError(i, op[i].at)
         /\ CountWriteFail /\ UNCHANGED mergeFails
         /\ PcBecomes(i, "failed")
BY PcOp DEF LocalWriteFails, PcBecomes, Pcs

(* Effect of FanOut: a replica applies the write, or refuses it.           *)
LEMMA FanOutOp ==
  ASSUME TypeOK, NEW i \in Ops, NEW r \in Replicas, FanOut(i, r)
  PROVE  /\ op[i].pc = "fanout" /\ op[i].call[r] = "sent"
         /\ UNCHANGED <<writeFails, mergeFails>>
         /\ \/ WriteOK(i, r) /\ CallBecomes(i, r, "ok")
            \/ WriteRefused(i, r) /\ CallBecomes(i, r, "failed")
<1>1. "ok" \in CallStates /\ "failed" \in CallStates
  BY DEF CallStates
<1> QED
  BY <1>1, CallOp DEF FanOut, CallBecomes

(* Effect of FanOutFails: the call fails, whatever the replica wrote, or   *)
(* is given up before the replica serves it.                               *)
LEMMA FanOutFailsOp ==
  ASSUME TypeOK, NEW i \in Ops, NEW r \in Replicas, FanOutFails(i, r)
  PROVE  /\ op[i].pc = "fanout" /\ op[i].call[r] = "sent"
         /\ CountWriteFail /\ UNCHANGED mergeFails
         /\ \/ /\ UNCHANGED <<disk, lock>> \/ WriteError(i, r) \/ WriteOK(i, r)
               /\ CallBecomes(i, r, "failed")
            \/ UNCHANGED <<disk, lock>> /\ CallBecomes(i, r, "late")
<1>1. "late" \in CallStates /\ "failed" \in CallStates
  BY DEF CallStates
<1> QED
  BY <1>1, CallOp DEF FanOutFails, CallBecomes

(* Effect of FanOutLate: the replica writes, refuses or fails, and nobody  *)
(* is told.                                                                *)
LEMMA FanOutLateOp ==
  ASSUME TypeOK, NEW i \in Ops, NEW r \in Replicas, FanOutLate(i, r)
  PROVE  /\ op[i].call[r] = "late" /\ UNCHANGED mergeFails
         /\ CallBecomes(i, r, "failed")
         /\ \/ (WriteOK(i, r) \/ WriteRefused(i, r)) /\ UNCHANGED writeFails
            \/ WriteError(i, r) /\ CountWriteFail
BY CallOp DEF FanOutLate, CallBecomes, CallStates

(* Effect of WriteDone: success when every replica answered ok, else       *)
(* failure and, for a create, the primary's files removed.                 *)
LEMMA WriteDoneOp ==
  ASSUME TypeOK, NEW i \in Ops, WriteDone(i)
  PROVE  /\ op[i].pc = "fanout" /\ UNCHANGED <<lock, writeFails, mergeFails>>
         /\ UNCHANGED log
         /\ \/ /\ \A r \in Replicas : op[i].call[r] = "ok"
               /\ PcBecomes(i, "ok") /\ UNCHANGED disk
            \/ /\ PcBecomes(i, "failed")
               /\ \/ /\ op[i].kind = "create"
                     /\ present' = [present EXCEPT ![op[i].at] = @ \ {"data"}]
                     /\ data' = [data EXCEPT ![op[i].at] = <<>>]
                  \/ op[i].kind = "append" /\ UNCHANGED disk
<1>1. "ok" \in Pcs /\ "failed" \in Pcs
  BY DEF Pcs
<1>2. op' = [op EXCEPT ![i].pc = "ok"] => PcBecomes(i, "ok")
  BY <1>1, PcOp DEF PcBecomes
<1>3. op' = [op EXCEPT ![i].pc = "failed"] => PcBecomes(i, "failed")
  BY <1>1, PcOp DEF PcBecomes
<1>4. UNCHANGED log
  BY DEF WriteDone, disk
<1> QED
  BY <1>2, <1>3, <1>4 DEF WriteDone

(* Effect of MergeLock: the free lock is taken and every replica is        *)
(* polled.                                                                 *)
LEMMA MergeLockOp ==
  ASSUME TypeOK, NEW i \in Ops, MergeLock(i)
  PROVE  /\ op[i].kind = "merge" /\ op[i].pc = "local" /\ lock[op[i].at] = 0
         /\ lock' = [lock EXCEPT ![op[i].at] = i]
         /\ UNCHANGED <<disk, writeFails, mergeFails>>
         /\ OpBecomes(i, op[i].kind, "poll", op[i].at, SentCalls, op[i].logs,
                      op[i].final, op[i].seen, \A j \in Ops : ~OnItsWay(j))
<1> DEFINE b == \A j \in Ops : ~OnItsWay(j)
<1>1. b \in BOOLEAN /\ "poll" \in Pcs
  BY DEF Pcs
<1>2. op' = [op EXCEPT ![i].pc = "poll", ![i].call = SentCalls, ![i].quiet = b]
  BY DEF MergeLock, SentCalls
<1> HIDE DEF b
<1>3. OpBecomes(i, op[i].kind, "poll", op[i].at, SentCalls, op[i].logs,
                op[i].final, op[i].seen, b)
  BY <1>1, <1>2, CallTypes, PcCallQuietOp
<1> QED
  BY <1>3 DEF b, MergeLock

(* Effect of Poll: the answer is the scanned log, or a refusal.            *)
LEMMA PollOp ==
  ASSUME TypeOK, NEW i \in Ops, NEW r \in Replicas, Poll(i, r)
  PROVE  /\ op[i].pc = "poll" /\ op[i].call[r] = "sent"
         /\ UNCHANGED <<disk, lock, writeFails, mergeFails>>
         /\ \/ /\ "log" \in present[r]
               /\ OpBecomes(i, op[i].kind, op[i].pc, op[i].at,
                            [op[i].call EXCEPT ![r] = "ok"],
                            [op[i].logs EXCEPT ![r] = ScanLog(log[r])],
                            op[i].final, op[i].seen, op[i].quiet)
            \/ "log" \notin present[r] /\ CallBecomes(i, r, "failed")
<1>1. "ok" \in CallStates /\ "failed" \in CallStates
  BY DEF CallStates
<1>2. op[i].logs \in [Replicas -> Seq(Entry)] /\ op[i].call \in [Replicas -> CallStates]
  BY DEF TypeOK, OpRec, CallStates
<1>3. CASE "log" \in present[r]
  <2>1. op' = [op EXCEPT ![i].call[r] = "ok", ![i].logs[r] = ScanLog(log[r])]
    BY <1>3 DEF Poll
  <2>2. ScanLog(log[r]) \in Seq(Entry)
    BY ScanLogType DEF TypeOK
  <2> QED
    BY <1>1, <1>3, <2>1, <2>2, CallLogOp DEF Poll
<1>4. CASE "log" \notin present[r]
  <2>1. op' = [op EXCEPT ![i].call[r] = "failed", ![i].logs[r] = op[i].logs[r]]
    BY <1>4 DEF Poll, TypeOK, OpRec
  <2>2. op[i].logs[r] \in Seq(Entry) /\ [op[i].logs EXCEPT ![r] = op[i].logs[r]] = op[i].logs
    BY <1>2
  <2>3. OpBecomes(i, op[i].kind, op[i].pc, op[i].at, [op[i].call EXCEPT ![r] = "failed"],
                  [op[i].logs EXCEPT ![r] = op[i].logs[r]], op[i].final, op[i].seen,
                  op[i].quiet)
    BY <1>1, <2>1, <2>2, CallLogOp
  <2>4. CallBecomes(i, r, "failed")
    BY <2>2, <2>3 DEF CallBecomes
  <2> QED
    BY <1>4, <2>4 DEF Poll
<1> QED
  BY <1>3, <1>4

(* Effect of PollFails: a poll of another replica is counted as failed.    *)
LEMMA PollFailsOp ==
  ASSUME TypeOK, NEW i \in Ops, NEW r \in Replicas, PollFails(i, r)
  PROVE  /\ op[i].pc = "poll" /\ op[i].call[r] = "sent" /\ r # op[i].at
         /\ mergeFails' = mergeFails + 1 /\ mergeFails < MaxMergeFails
         /\ UNCHANGED <<disk, lock, writeFails>>
         /\ CallBecomes(i, r, "error")
BY CallOp DEF PollFails, CallBecomes, CallStates

(* Effect of MergeBuild: the entries of the logs that answered are sorted  *)
(* into the new content.                                                   *)
LEMMA MergeBuildOp ==
  ASSUME TypeOK, NEW i \in Ops, MergeBuild(i)
  PROVE  /\ op[i].pc = "poll" /\ UNCHANGED <<disk, lock, writeFails, mergeFails>>
         /\ \A r \in Replicas : op[i].call[r] # "sent"
         /\ \E used \in SUBSET {r \in Replicas : op[i].call[r] = "ok"} :
              /\ \/ used = {r \in Replicas : op[i].call[r] = "ok"}
                 \/ \E r \in Replicas : op[i].call[r] = "error"
              /\ OpBecomes(i, op[i].kind, "reconcile", op[i].at, SentCalls, op[i].logs,
                           SortedData(Entries(i, used)), op[i].seen, op[i].quiet)
<1> DEFINE received == {r \in Replicas : op[i].call[r] = "ok"}
<1>1. PICK used \in SUBSET received :
        /\ used = received \/ \E r \in Replicas : op[i].call[r] = "error"
        /\ op' = [op EXCEPT ![i].pc = "reconcile", ![i].call = SentCalls,
                            ![i].final = SortedData(Entries(i, used))]
  BY DEF MergeBuild, SentCalls
<1>2. SortedData(Entries(i, used)) \in Seq(Chunks) /\ "reconcile" \in Pcs
  BY EntriesType, SortedDataType DEF Pcs
<1>3. OpBecomes(i, op[i].kind, "reconcile", op[i].at, SentCalls, op[i].logs,
                SortedData(Entries(i, used)), op[i].seen, op[i].quiet)
  BY <1>1, <1>2, CallTypes, PcCallFinalOp
<1> QED
  BY <1>1, <1>3 DEF MergeBuild

(* Effect of Reconcile: both files of the replica become the merged ones.  *)
LEMMA ReconcileOp ==
  ASSUME TypeOK, NEW i \in Ops, NEW r \in Replicas, Reconcile(i, r)
  PROVE  /\ op[i].pc = "reconcile" /\ op[i].call[r] = "sent"
         /\ SetFiles(r, op[i].final, <<[OpID |-> i, Data |-> op[i].final]>>)
         /\ UNCHANGED <<lock, writeFails, mergeFails>>
         /\ CallBecomes(i, r, "ok")
BY CallOp DEF Reconcile, CallBecomes, CallStates

(* Effect of ReconcileFails: the replica wrote nothing, both files, or its *)
(* data file alone.                                                        *)
LEMMA ReconcileFailsOp ==
  ASSUME TypeOK, NEW i \in Ops, NEW r \in Replicas, ReconcileFails(i, r)
  PROVE  /\ op[i].pc = "reconcile" /\ op[i].call[r] = "sent"
         /\ mergeFails' = mergeFails + 1 /\ mergeFails < MaxMergeFails
         /\ UNCHANGED <<lock, writeFails>>
         /\ \/ UNCHANGED disk
            \/ SetFiles(r, op[i].final, <<[OpID |-> i, Data |-> op[i].final]>>)
            \/ /\ data' = [data EXCEPT ![r] = op[i].final]
               /\ present' = [present EXCEPT ![r] = @ \cup {"data"}]
               /\ UNCHANGED log
         /\ CallBecomes(i, r, "error")
<1>1. CallBecomes(i, r, "error")
  BY CallOp DEF ReconcileFails, CallBecomes, CallStates
<1> QED
  BY <1>1 DEF ReconcileFails

(* Effect of MergeDone: every call was answered and the lock is free       *)
(* again.                                                                  *)
LEMMA MergeDoneOp ==
  ASSUME TypeOK, NEW i \in Ops, MergeDone(i)
  PROVE  /\ op[i].pc = "reconcile" /\ lock' = [lock EXCEPT ![op[i].at] = 0]
         /\ \A r \in Replicas : op[i].call[r] # "sent"
         /\ UNCHANGED <<disk, writeFails, mergeFails>>
         /\ PcBecomes(i, "ok")
BY PcOp DEF MergeDone, PcBecomes, Pcs

(* Effect of NextReplica: the operation tries the next replica, or fails.  *)
LEMMA NextReplicaOp ==
  ASSUME TypeOK, NEW i \in Ops, NextReplica(i)
  PROVE  \/ PcBecomes(i, "failed")
         \/ OpBecomes(i, op[i].kind, op[i].pc, op[i].at + 1, op[i].call, op[i].logs,
                      op[i].final, op[i].seen, op[i].quiet)
<1>1. op[i].at \in Replicas /\ "failed" \in Pcs
  BY DEF TypeOK, OpRec, Pcs
<1>2. CASE op[i].at < ReplicaNum
  <2>1. op[i].at + 1 \in Replicas
    BY <1>1, <1>2, ConstantTypes DEF Replicas
  <2>2. op' = [op EXCEPT ![i].at = op[i].at + 1]
    BY <1>2 DEF NextReplica
  <2> QED
    BY <2>1, <2>2, AtOp
<1>3. CASE ~(op[i].at < ReplicaNum)
  BY <1>1, <1>3, PcOp DEF NextReplica, PcBecomes
<1> QED
  BY <1>2, <1>3

(* Effect of Get and GetFails: the operation returns the data of its       *)
(* replica, or fails.                                                      *)
LEMMA GetOp ==
  ASSUME TypeOK, NEW i \in Ops, Get(i) \/ GetFails(i)
  PROVE  /\ op[i].kind = "get" /\ op[i].pc = "local"
         /\ UNCHANGED <<disk, lock, mergeFails>>
         /\ UNCHANGED writeFails \/ CountWriteFail
         /\ \/ OpBecomes(i, op[i].kind, "ok", op[i].at, op[i].call, op[i].logs,
                         data[op[i].at], op[i].seen, op[i].quiet)
            \/ PcBecomes(i, "failed")
            \/ OpBecomes(i, op[i].kind, op[i].pc, op[i].at + 1, op[i].call, op[i].logs,
                         op[i].final, op[i].seen, op[i].quiet)
<1>1. data[op[i].at] \in Seq(Chunks) /\ "ok" \in Pcs
  BY DEF TypeOK, OpRec, Pcs
<1>2. CASE op' = [op EXCEPT ![i].pc = "ok", ![i].final = data[op[i].at]]
  BY <1>1, <1>2, PcFinalOp DEF Get, GetFails
<1>3. CASE NextReplica(i)
  BY <1>3, NextReplicaOp DEF Get, GetFails
<1> QED
  BY <1>2, <1>3 DEF Get, GetFails

-----------------------------------------------------------------------------
(* Every step of the system is one of these.                               *)
LEMMA Steps ==
  ASSUME Next
  PROVE  \/ UNCHANGED vars
         \/ \E i \in Ops :
              \/ Begin(i) \/ LocalWrite(i) \/ LocalWriteFails(i) \/ WriteDone(i)
              \/ MergeLock(i) \/ MergeBuild(i) \/ MergeDone(i)
              \/ Get(i) \/ GetFails(i)
              \/ \E r \in Replicas :
                   \/ FanOut(i, r) \/ FanOutFails(i, r) \/ FanOutLate(i, r)
                   \/ Poll(i, r) \/ PollFails(i, r)
                   \/ Reconcile(i, r) \/ ReconcileFails(i, r)
BY DEF Next, ServeOp, Fault, Quiescent

(* The failure counters keep their bounds.                                 *)
LEMMA CountTypes ==
  ASSUME TypeOK
  PROVE  /\ CountWriteFail => writeFails' \in 0 .. MaxWriteFails
         /\ mergeFails' = mergeFails + 1 /\ mergeFails < MaxMergeFails
              => mergeFails' \in 0 .. MaxMergeFails
BY ConstantTypes DEF TypeOK, CountWriteFail

(* Every step keeps TypeOK.                                                *)
LEMMA NextType == ASSUME TypeOK, [Next]_vars PROVE TypeOK'
<1> USE DEF PcBecomes, CallBecomes
<1>1. ASSUME NEW i \in Ops, Begin(i) PROVE TypeOK'
  BY <1>1, BeginOp DEF TypeOK, OpBecomes, disk
<1>2. ASSUME NEW i \in Ops, LocalWrite(i) PROVE TypeOK'
  <2>1. op[i].at \in Replicas
    BY DEF TypeOK, OpRec
  <2> QED
    BY <1>2, <2>1, LocalWriteOp, WriteType DEF TypeOK, OpBecomes
<1>3. ASSUME NEW i \in Ops, LocalWriteFails(i) PROVE TypeOK'
  <2>1. op[i].at \in Replicas
    BY DEF TypeOK, OpRec
  <2> QED
    BY <1>3, <2>1, LocalWriteFailsOp, WriteType, CountTypes DEF TypeOK, OpBecomes
<1>4. ASSUME NEW i \in Ops, WriteDone(i) PROVE TypeOK'
  <2>1. op[i].at \in Replicas /\ <<>> \in Seq(Chunks)
    BY DEF TypeOK, OpRec
  <2>2. data' \in [Replicas -> Seq(Chunks)]
    BY <1>4, <2>1, WriteDoneOp DEF TypeOK, disk
  <2>3. present' \in [Replicas -> SUBSET {"data", "log"}]
    <3> DEFINE S == present[op[i].at] \ {"data"}
    <3>1. S \in SUBSET {"data", "log"}
      BY <2>1 DEF TypeOK
    <3>2. present' = present \/ present' = [present EXCEPT ![op[i].at] = S]
      BY <1>4, WriteDoneOp DEF disk
    <3> HIDE DEF S
    <3> QED
      BY <2>1, <3>1, <3>2 DEF TypeOK
  <2> QED
    BY <1>4, <2>2, <2>3, WriteDoneOp DEF TypeOK, OpBecomes
<1>5. ASSUME NEW i \in Ops, MergeLock(i) PROVE TypeOK'
  <2>1. op[i].at \in Replicas /\ i \in Chunks
    BY ConstantTypes DEF TypeOK, OpRec
  <2>2. lock' \in [Replicas -> Chunks]
    <3>1. lock' = [lock EXCEPT ![op[i].at] = i]
      BY <1>5 DEF MergeLock
    <3>2. lock \in [Replicas -> Chunks]
      BY DEF TypeOK
    <3> QED
      BY <2>1, <3>1, <3>2
  <2>3. op' \in [Ops -> OpRec]
    BY <1>5, MergeLockOp DEF OpBecomes
  <2>4. UNCHANGED <<present, data, log, writeFails, mergeFails>>
    BY <1>5, MergeLockOp DEF disk
  <2> QED
    BY <2>2, <2>3, <2>4 DEF TypeOK
<1>6. ASSUME NEW i \in Ops, MergeBuild(i) PROVE TypeOK'
  BY <1>6, MergeBuildOp DEF TypeOK, OpBecomes, disk
<1>7. ASSUME NEW i \in Ops, MergeDone(i) PROVE TypeOK'
  <2>1. lock' \in [Replicas -> Chunks]
    BY <1>7, MergeDoneOp, ConstantTypes DEF TypeOK
  <2> QED
    BY <1>7, <2>1, MergeDoneOp DEF TypeOK, OpBecomes, disk
<1>8. ASSUME NEW i \in Ops, Get(i) \/ GetFails(i) PROVE TypeOK'
  <2>1. op' \in [Ops -> OpRec]
    BY <1>8, GetOp DEF OpBecomes
  <2>2. writeFails' \in 0 .. MaxWriteFails
    BY <1>8, GetOp, CountTypes DEF TypeOK
  <2>3. UNCHANGED <<disk, lock, mergeFails>>
    BY <1>8, GetOp
  <2> QED
    BY <2>1, <2>2, <2>3 DEF TypeOK, disk
<1>9. ASSUME NEW i \in Ops, NEW r \in Replicas, FanOut(i, r) PROVE TypeOK'
  BY <1>9, FanOutOp, WriteType DEF TypeOK, OpBecomes
<1>10. ASSUME NEW i \in Ops, NEW r \in Replicas, FanOutFails(i, r) PROVE TypeOK'
  <2>1. op' \in [Ops -> OpRec] /\ UNCHANGED mergeFails /\ CountWriteFail
    BY <1>10, FanOutFailsOp DEF OpBecomes
  <2>2. writeFails' \in 0 .. MaxWriteFails
    BY <2>1, CountTypes
  <2>3. UNCHANGED <<disk, lock>> \/ WriteError(i, r) \/ WriteOK(i, r)
    BY <1>10, FanOutFailsOp
  <2>4. /\ present' \in [Replicas -> SUBSET {"data", "log"}]
        /\ data' \in [Replicas -> Seq(Chunks)]
        /\ log' \in [Replicas -> Seq(Entry)]
        /\ lock' \in [Replicas -> Chunks]
    BY <1>10, <2>3, WriteType DEF TypeOK, disk
  <2> QED
    BY <2>1, <2>2, <2>4 DEF TypeOK
<1>17. ASSUME NEW i \in Ops, NEW r \in Replicas, FanOutLate(i, r) PROVE TypeOK'
  <2>1. op' \in [Ops -> OpRec] /\ UNCHANGED mergeFails /\ (CountWriteFail \/ UNCHANGED writeFails)
    BY <1>17, FanOutLateOp DEF OpBecomes
  <2>2. writeFails' \in 0 .. MaxWriteFails
    BY <2>1, CountTypes DEF TypeOK
  <2>3. /\ present' \in [Replicas -> SUBSET {"data", "log"}]
        /\ data' \in [Replicas -> Seq(Chunks)]
        /\ log' \in [Replicas -> Seq(Entry)]
        /\ lock' \in [Replicas -> Chunks]
    BY <1>17, FanOutLateOp, WriteType
  <2> QED
    BY <2>1, <2>2, <2>3 DEF TypeOK
<1>11. ASSUME NEW i \in Ops, NEW r \in Replicas, Poll(i, r) PROVE TypeOK'
  BY <1>11, PollOp DEF TypeOK, OpBecomes, disk
<1>12. ASSUME NEW i \in Ops, NEW r \in Replicas, PollFails(i, r) PROVE TypeOK'
  BY <1>12, PollFailsOp, CountTypes DEF TypeOK, OpBecomes, disk
<1> DEFINE e(i) == [OpID |-> i, Data |-> op[i].final]
<1>13. ASSUME NEW i \in Ops
       PROVE  op[i].final \in Seq(Chunks) /\ <<e(i)>> \in Seq(Entry)
  BY ConstantTypes DEF TypeOK, OpRec, Entry
<1> HIDE DEF e
<1>14. ASSUME NEW i \in Ops, NEW r \in Replicas, Reconcile(i, r) PROVE TypeOK'
  <2>1. SetFiles(r, op[i].final, <<e(i)>>)
    BY <1>14, ReconcileOp DEF e
  <2> QED
    BY <1>13, <1>14, <2>1, ReconcileOp, SetFilesType DEF TypeOK, OpBecomes
<1>15. ASSUME NEW i \in Ops, NEW r \in Replicas, ReconcileFails(i, r) PROVE TypeOK'
  <2>1. \/ UNCHANGED disk
        \/ SetFiles(r, op[i].final, <<e(i)>>)
        \/ /\ data' = [data EXCEPT ![r] = op[i].final]
           /\ present' = [present EXCEPT ![r] = @ \cup {"data"}]
           /\ UNCHANGED log
    BY <1>15, ReconcileFailsOp DEF e
  <2>2. /\ present' \in [Replicas -> SUBSET {"data", "log"}]
        /\ data' \in [Replicas -> Seq(Chunks)] /\ log' \in [Replicas -> Seq(Entry)]
    BY <1>13, <2>1, SetFilesType DEF TypeOK, disk
  <2> QED
    BY <1>15, <2>2, ReconcileFailsOp, CountTypes DEF TypeOK, OpBecomes
<1>16. CASE UNCHANGED vars
  BY <1>16 DEF TypeOK, vars, disk
<1> QED
  BY <1>1, <1>2, <1>3, <1>4, <1>5, <1>6, <1>7, <1>8, <1>9, <1>10, <1>11, <1>12,
     <1>14, <1>15, <1>16, <1>17, Steps

(* Files, locks and calls keep their shapes in every run: in particular    *)
(* the file that MergeFile builds from whatever logs it received is a file. *)
THEOREM FilesTyped == Spec => []TypeOK
<1>1. Init => TypeOK
  BY InitType
<1>2. TypeOK /\ [Next]_vars => TypeOK'
  BY NextType
<1> QED
  BY <1>1, <1>2, PTL DEF Spec

-----------------------------------------------------------------------------
(* The control of the calls: who serves them, and that a merge between its *)
(* poll and its reply holds the lock of replica 1, hence alone.            *)

CallInv ==
  \A i \in Ops :
    /\ op[i].kind # "append" \/ ~AnyPrimary => (op[i].kind # "get" => op[i].at = 1)
    /\ op[i].pc \in {"poll", "reconcile"} => op[i].kind = "merge" /\ lock[1] = i
    /\ op[i].pc = "fanout" => IsWrite(i) /\ op[i].call[op[i].at] = "ok"
    /\ \A r \in Replicas : op[i].call[r] = "late" =>
         IsWrite(i) /\ op[i].pc \in {"fanout", "failed"} /\ r # op[i].at

(* The part of a step that the control depends on.                         *)
Moves(i, kind, pc, at) ==
  /\ \A j \in Ops : j # i => op'[j] = op[j]
  /\ op'[i].kind = kind /\ op'[i].pc = pc /\ op'[i].at = at

(* The answer of a call moves nothing else of its operation.               *)
LEMMA CallMoves ==
  ASSUME NEW i, NEW r, NEW v, CallBecomes(i, r, v)
  PROVE  Moves(i, op[i].kind, op[i].pc, op[i].at)
BY DEF CallBecomes, OpBecomes, Moves

(* A call of a fan-out, however it ends, moves only the call.              *)
LEMMA FanOutCall ==
  ASSUME TypeOK, NEW i \in Ops, NEW r \in Replicas,
         FanOut(i, r) \/ FanOutFails(i, r) \/ FanOutLate(i, r)
  PROVE  /\ Moves(i, op[i].kind, op[i].pc, op[i].at)
         /\ op'[i].seen = op[i].seen /\ op'[i].final = op[i].final
         /\ op'[i].logs = op[i].logs /\ op'[i].quiet = op[i].quiet
<1>1. PICK v \in {"ok", "failed", "late"} : CallBecomes(i, r, v)
  BY FanOutOp, FanOutFailsOp, FanOutLateOp
<1> QED
  BY <1>1, CallMoves DEF CallBecomes, OpBecomes

(* It belongs to a write that has not been acknowledged.                   *)
LEMMA FanOutMoves ==
  ASSUME TypeOK, CallInv, NEW i \in Ops, NEW r \in Replicas,
         FanOut(i, r) \/ FanOutFails(i, r) \/ FanOutLate(i, r)
  PROVE  /\ IsWrite(i) /\ op[i].pc \in {"fanout", "failed"}
         /\ op'[i].kind = op[i].kind /\ op'[i].pc = op[i].pc
BY FanOutOp, FanOutFailsOp, FanOutLateOp, FanOutCall DEF CallInv, Moves

(* A poll changes neither files nor locks.                                 *)
LEMMA PollMoves ==
  ASSUME TypeOK, NEW i \in Ops, NEW r \in Replicas, Poll(i, r) \/ PollFails(i, r)
  PROVE  /\ Moves(i, op[i].kind, op[i].pc, op[i].at) /\ op[i].pc = "poll"
         /\ UNCHANGED <<disk, lock>>
<1>1. CASE Poll(i, r)
  <2>1. Moves(i, op[i].kind, op[i].pc, op[i].at)
    BY <1>1, PollOp DEF CallBecomes, OpBecomes, Moves
  <2> QED
    BY <1>1, <2>1, PollOp
<1>2. CASE PollFails(i, r)
  BY <1>2, PollFailsOp, CallMoves
<1> QED
  BY <1>1, <1>2

(* A reconcile changes no lock and removes no file.                        *)
LEMMA ReconcileMoves ==
  ASSUME TypeOK, NEW i \in Ops, NEW r \in Replicas, Reconcile(i, r) \/ ReconcileFails(i, r)
  PROVE  /\ Moves(i, op[i].kind, op[i].pc, op[i].at) /\ op[i].pc = "reconcile"
         /\ UNCHANGED lock /\ \A s \in Replicas : present[s] \subseteq present'[s]
<1>1. CASE Reconcile(i, r)
  <2>1. present' = [present EXCEPT ![r] = {"data", "log"}]
    BY <1>1, ReconcileOp DEF SetFiles
  <2>2. \A s \in Replicas : present[s] \subseteq present'[s]
    BY <2>1 DEF TypeOK
  <2> QED
    BY <1>1, <2>2, ReconcileOp, CallMoves
<1>2. CASE ReconcileFails(i, r)
  <2>1. \/ UNCHANGED present
        \/ present' = [present EXCEPT ![r] = {"data", "log"}]
        \/ present' = [present EXCEPT ![r] = @ \cup {"data"}]
    BY <1>2, ReconcileFailsOp DEF SetFiles, disk
  <2>2. \A s \in Replicas : present[s] \subseteq present'[s]
    BY <2>1 DEF TypeOK
  <2> QED
    BY <1>2, <2>2, ReconcileFailsOp, CallMoves
<1> QED
  BY <1>1, <1>2

(* A merge takes the lock of the primary.                                  *)
LEMMA MergeLockMoves ==
  ASSUME TypeOK, CallInv, NEW i \in Ops, MergeLock(i)
  PROVE  /\ op[i].kind = "merge" /\ op[i].pc = "local" /\ op[i].at = 1
         /\ Moves(i, "merge", "poll", 1)
         /\ lock[1] = 0 /\ lock' = [lock EXCEPT ![1] = i] /\ UNCHANGED disk
<1>1. op[i].kind = "merge" /\ op[i].pc = "local" /\ op[i].at = 1
  BY MergeLockOp DEF CallInv
<1>2. Moves(i, op[i].kind, "poll", op[i].at)
  BY MergeLockOp DEF OpBecomes, Moves
<1> QED
  BY <1>1, <1>2, MergeLockOp

(* A write takes a lock only when it is free.                              *)
LEMMA WriteLock ==
  ASSUME NEW i, NEW r, WriteOK(i, r) \/ WriteRefused(i, r) \/ WriteError(i, r),
         TypeOK, r \in Replicas
  PROVE  lock[r] = 0 /\ (lock[1] # 0 => lock'[1] = lock[1])
BY ConstantTypes DEF WriteOK, WriteRefused, WriteError, TypeOK

(* The calls of the initial state agree with the program counters.         *)
LEMMA CallInvInit == ASSUME Init PROVE CallInv
BY DEF Init, Idle, NoCalls, CallInv

(* The answer of one call, when no call is given up or only a call that    *)
(* another replica than the first was sent.                                *)
LEMMA LateStep ==
  ASSUME TypeOK, CallInv, NEW i \in Ops, NEW r \in Replicas, NEW v \in CallStates,
         CallBecomes(i, r, v), v = "late" => op[i].pc = "fanout" /\ op[i].call[r] = "sent"
  PROVE  \A s \in Replicas : op'[i].call[s] = "late" =>
           op'[i].kind \in {"create", "append"} /\ op'[i].pc \in {"fanout", "failed"}
             /\ s # op'[i].at
<1>1. op[i].call \in [Replicas -> CallStates] /\ op[i].at \in Replicas
  BY DEF TypeOK, OpRec, CallStates
<1>2. /\ op'[i].call = [op[i].call EXCEPT ![r] = v]
      /\ op'[i].kind = op[i].kind /\ op'[i].pc = op[i].pc /\ op'[i].at = op[i].at
  BY DEF CallBecomes, OpBecomes
<1>3. v = "late" => IsWrite(i) /\ r # op[i].at
  BY DEF CallInv
<1> QED
  BY <1>1, <1>2, <1>3 DEF CallInv, IsWrite

(* A step that moves only the calls of one operation keeps CallInv.        *)
LEMMA CallInvStep ==
  ASSUME CallInv, NEW i \in Ops, i # 0, lock[1] # 0 => lock'[1] = lock[1],
         Moves(i, op[i].kind, op[i].pc, op[i].at),
         op'[i].call[op'[i].at] = op[i].call[op[i].at],
         \A s \in Replicas : op'[i].call[s] = "late" =>
           IsWrite(i)' /\ op'[i].pc \in {"fanout", "failed"} /\ s # op'[i].at,
         0 \notin Ops
  PROVE  CallInv'
<1> SUFFICES ASSUME NEW j \in Ops
             PROVE  /\ op'[j].kind # "append" \/ ~AnyPrimary =>
                         (op'[j].kind # "get" => op'[j].at = 1)
                    /\ op'[j].pc \in {"poll", "reconcile"} =>
                         op'[j].kind = "merge" /\ lock'[1] = j
                    /\ op'[j].pc = "fanout" => IsWrite(j)' /\ op'[j].call[op'[j].at] = "ok"
                    /\ \A s \in Replicas : op'[j].call[s] = "late" =>
                         IsWrite(j)' /\ op'[j].pc \in {"fanout", "failed"} /\ s # op'[j].at
  BY DEF CallInv
<1>1. CASE j = i
  BY <1>1 DEF CallInv, Moves, IsWrite
<1>2. CASE j # i
  <2>1. op'[j] = op[j]
    BY <1>2 DEF Moves
  <2> QED
    BY <2>1 DEF CallInv, IsWrite
<1> QED
  BY <1>1, <1>2

(* Every step keeps CallInv.                                               *)
LEMMA CallInvNext == ASSUME TypeOK, CallInv, [Next]_vars PROVE CallInv'
<1> USE DEF IsWrite
<1>0. \A i \in Ops : i # 0 /\ op[i] \in OpRec /\ op[i].at \in Replicas
  BY ConstantTypes DEF TypeOK, OpRec
<1>1. ASSUME NEW i \in Ops, Begin(i) PROVE CallInv'
  BY <1>0, <1>1, BeginOp DEF CallInv, OpBecomes
<1>2. ASSUME NEW i \in Ops, LocalWrite(i) PROVE CallInv'
  <2>1. FanOutCalls(op[i].at)[op[i].at] = "ok"
    BY <1>0 DEF FanOutCalls
  <2>2. lock[1] # 0 => lock'[1] = lock[1]
    BY <1>0, <1>2, LocalWriteOp, WriteLock
  <2> QED
    BY <1>0, <1>2, <2>1, <2>2, LocalWriteOp DEF CallInv, OpBecomes, PcBecomes
<1>3. ASSUME NEW i \in Ops, LocalWriteFails(i) PROVE CallInv'
  <2>1. lock[1] # 0 => lock'[1] = lock[1]
    BY <1>0, <1>3, LocalWriteFailsOp, WriteLock
  <2> QED
    BY <1>0, <1>3, <2>1, LocalWriteFailsOp DEF CallInv, OpBecomes, PcBecomes
<1>4. ASSUME NEW i \in Ops, WriteDone(i) PROVE CallInv'
  BY <1>0, <1>4, WriteDoneOp DEF CallInv, OpBecomes, PcBecomes
<1>5. ASSUME NEW i \in Ops, MergeLock(i) PROVE CallInv'
  <2>1. lock[1] = 0 /\ lock'[1] = i
    BY <1>5, MergeLockMoves, ConstantTypes DEF TypeOK
  <2>2. \A r \in Replicas : op'[i].call[r] # "late"
    BY <1>5, MergeLockOp DEF OpBecomes, SentCalls
  <2> QED
    BY <1>0, <1>5, <2>1, <2>2, MergeLockMoves DEF CallInv, Moves
<1>6. ASSUME NEW i \in Ops, MergeBuild(i) PROVE CallInv'
  <2>1. \A r \in Replicas : op'[i].call[r] # "late"
    BY <1>6, MergeBuildOp DEF OpBecomes, SentCalls
  <2> QED
    BY <1>0, <1>6, <2>1, MergeBuildOp DEF CallInv, OpBecomes
<1>7. ASSUME NEW i \in Ops, MergeDone(i) PROVE CallInv'
  <2>1. lock[1] = i
    BY <1>7, MergeDoneOp DEF CallInv
  <2> QED
    BY <1>0, <1>7, <2>1, MergeDoneOp DEF CallInv, OpBecomes, PcBecomes
<1>8. ASSUME NEW i \in Ops, Get(i) \/ GetFails(i) PROVE CallInv'
  BY <1>0, <1>8, GetOp DEF CallInv, OpBecomes, PcBecomes
<1>9. ASSUME NEW i \in Ops, NEW r \in Replicas, FanOut(i, r) \/ FanOutFails(i, r)
      PROVE  CallInv'
  <2>1. lock[1] # 0 => lock'[1] = lock[1]
    BY <1>0, <1>9, FanOutOp, FanOutFailsOp, WriteLock
  <2>2. PICK v \in {"ok", "failed", "late"} : CallBecomes(i, r, v)
    BY <1>9, FanOutOp, FanOutFailsOp
  <2>3. op[i].pc = "fanout" /\ op[i].call[r] = "sent"
    BY <1>9, FanOutOp, FanOutFailsOp
  <2>4. [op[i].call EXCEPT ![r] = v][op[i].at] = "ok"
    BY <1>0, <2>3 DEF CallInv, OpRec
  <2>5. op'[i].call[op[i].at] = "ok"
    BY <2>2, <2>4 DEF CallBecomes, OpBecomes
  <2>6. \A s \in Replicas : op'[i].call[s] = "late" =>
          op'[i].kind \in {"create", "append"} /\ op'[i].pc \in {"fanout", "failed"}
            /\ s # op'[i].at
    BY <2>2, <2>3, LateStep DEF CallStates
  <2>7. Moves(i, op[i].kind, op[i].pc, op[i].at) /\ op'[i].at = op[i].at
    BY <2>2, CallMoves DEF Moves
  <2>8. op'[i].call[op'[i].at] = op[i].call[op[i].at]
    BY <2>3, <2>5, <2>7 DEF CallInv
  <2> QED
    BY <1>0, <2>1, <2>6, <2>7, <2>8, CallInvStep
<1>13. ASSUME NEW i \in Ops, NEW r \in Replicas, FanOutLate(i, r) PROVE CallInv'
  <2>1. lock[1] # 0 => lock'[1] = lock[1]
    BY <1>0, <1>13, FanOutLateOp, WriteLock
  <2>2. op[i].call[r] = "late" /\ CallBecomes(i, r, "failed")
    BY <1>13, FanOutLateOp
  <2>3. op[i].pc \in {"fanout", "failed"} /\ r # op[i].at
    BY <2>2 DEF CallInv
  <2>4. [op[i].call EXCEPT ![r] = "failed"][op[i].at] = op[i].call[op[i].at]
    BY <1>0, <2>3 DEF OpRec
  <2>5. op'[i].at = op[i].at /\ op'[i].call[op[i].at] = op[i].call[op[i].at]
    BY <2>2, <2>4 DEF CallBecomes, OpBecomes
  <2>6. \A s \in Replicas : op'[i].call[s] = "late" =>
          op'[i].kind \in {"create", "append"} /\ op'[i].pc \in {"fanout", "failed"}
            /\ s # op'[i].at
    BY <2>2, LateStep DEF CallStates
  <2>7. Moves(i, op[i].kind, op[i].pc, op[i].at)
    BY <2>2, CallMoves
  <2>8. op'[i].call[op'[i].at] = op[i].call[op[i].at]
    BY <2>5
  <2> QED
    BY <1>0, <2>1, <2>6, <2>7, <2>8, CallInvStep
<1>10. ASSUME NEW i \in Ops, NEW r \in Replicas, Poll(i, r) \/ PollFails(i, r)
       PROVE  CallInv'
  <2>1. PICK v \in {"ok", "failed", "error"} :
               op'[i].call = [op[i].call EXCEPT ![r] = v]
    <3>1. CASE Poll(i, r)
      BY <3>1, PollOp DEF CallBecomes, OpBecomes
    <3>2. CASE PollFails(i, r)
      BY <3>2, PollFailsOp DEF CallBecomes, OpBecomes
    <3> QED
      BY <1>10, <3>1, <3>2
  <2>2. \A s \in Replicas : op'[i].call[s] # "late"
    <3>1. op[i].pc = "poll" /\ op[i].call \in [Replicas -> CallStates]
      BY <1>0, <1>10, PollMoves DEF OpRec, CallStates
    <3>2. \A s \in Replicas : op[i].call[s] # "late"
      BY <3>1 DEF CallInv
    <3> QED
      BY <2>1, <3>1, <3>2
  <2> QED
    BY <1>0, <1>10, <2>2, PollMoves DEF CallInv, Moves
<1>11. ASSUME NEW i \in Ops, NEW r \in Replicas, Reconcile(i, r) \/ ReconcileFails(i, r)
       PROVE  CallInv'
  <2>1. PICK v \in {"ok", "error"} : CallBecomes(i, r, v)
    BY <1>11, ReconcileOp, ReconcileFailsOp
  <2>2. \A s \in Replicas : op'[i].call[s] = "late" =>
          op'[i].kind \in {"create", "append"} /\ op'[i].pc \in {"fanout", "failed"}
            /\ s # op'[i].at
    BY <2>1, LateStep DEF CallStates
  <2> QED
    BY <1>0, <1>11, <2>2, ReconcileMoves DEF CallInv, Moves
<1>12. CASE UNCHANGED vars
  BY <1>12 DEF CallInv, vars
<1> QED
  BY <1>1, <1>2, <1>3, <1>4, <1>5, <1>6, <1>7, <1>8, <1>9, <1>10, <1>11, <1>12, <1>13, Steps

-----------------------------------------------------------------------------
(* Creating the file.  The operation log of replica 1 is never removed, so *)
(* only one create gets past it.                                           *)

PastPrimary(i) == op[i].kind = "create" /\ op[i].pc \in {"fanout", "ok"}

CreateInv ==
  /\ Created => "log" \in present[1]
  /\ \A i \in Ops : PastPrimary(i) => "log" \in present[1] /\ ~Created
  /\ \A i, j \in Ops : PastPrimary(i) /\ PastPrimary(j) => i = j

(* CreateInv holds initially.                                              *)
LEMMA CreateInvInit == ASSUME Init PROVE CreateInv
BY ConstantTypes DEF Init, Idle, CreateInv, PastPrimary

(* A write removes no log of the primary, and a create succeeds only where *)
(* there was none.                                                         *)
LEMMA LogStays ==
  ASSUME TypeOK, NEW i, NEW r \in Replicas,
         WriteOK(i, r) \/ WriteRefused(i, r) \/ WriteError(i, r)
  PROVE  /\ "log" \in present[1] => "log" \in present'[1]
         /\ WriteOK(i, r) => "log" \in present'[r]
         /\ WriteOK(i, r) /\ op[i].kind = "create" => "log" \notin present[r]
BY ConstantTypes DEF TypeOK, WriteOK, WriteRefused, WriteError, CanWrite, SetFiles, disk

(* Every step keeps CreateInv.                                             *)
LEMMA CreateInvNext == ASSUME TypeOK, CallInv, CreateInv, [Next]_vars PROVE CreateInv'
<1> USE DEF PastPrimary
<1>0. \A i \in Ops : op[i] \in OpRec /\ op[i].at \in Replicas
  BY DEF TypeOK, OpRec
<1>1. ASSUME NEW i \in Ops, Begin(i) PROVE CreateInv'
  BY <1>0, <1>1, BeginOp DEF CreateInv, OpBecomes, disk
<1>2. ASSUME NEW i \in Ops, LocalWrite(i) PROVE CreateInv'
  <2>1. CASE /\ WriteOK(i, op[i].at)
             /\ OpBecomes(i, op[i].kind, "fanout", op[i].at, FanOutCalls(op[i].at),
                          op[i].logs, op[i].final, op[i].seen, op[i].quiet)
    <3>1. CASE op[i].kind = "create"
      <4>1. op[i].at = 1
        BY <3>1 DEF CallInv
      <4>2. "log" \notin present[1] /\ "log" \in present'[1]
        BY <1>0, <2>1, <3>1, <4>1, LogStays
      <4> QED
        BY <2>1, <3>1, <4>2 DEF CreateInv, OpBecomes
    <3>2. CASE op[i].kind # "create"
      <4>1. "log" \in present[1] => "log" \in present'[1]
        BY <1>0, <2>1, LogStays
      <4> QED
        BY <2>1, <3>2, <4>1 DEF CreateInv, OpBecomes
    <3> QED
      BY <3>1, <3>2
  <2>2. CASE WriteRefused(i, op[i].at) /\ PcBecomes(i, "failed")
    BY <2>2 DEF CreateInv, OpBecomes, PcBecomes, WriteRefused, disk
  <2> QED
    BY <1>2, <2>1, <2>2, LocalWriteOp
<1>3. ASSUME NEW i \in Ops, LocalWriteFails(i) PROVE CreateInv'
  <2>1. "log" \in present[1] => "log" \in present'[1]
    BY <1>0, <1>3, LocalWriteFailsOp, LogStays
  <2> QED
    BY <1>0, <1>3, <2>1, LocalWriteFailsOp DEF CreateInv, OpBecomes, PcBecomes
<1>4. ASSUME NEW i \in Ops, WriteDone(i) PROVE CreateInv'
  <2>1. \/ UNCHANGED present
        \/ present' = [present EXCEPT ![op[i].at] = @ \ {"data"}]
    BY <1>4, WriteDoneOp DEF disk
  <2>2. "log" \in present[1] => "log" \in present'[1]
    BY <1>0, <2>1, ConstantTypes DEF TypeOK
  <2> QED
    BY <1>0, <1>4, <2>2, WriteDoneOp DEF CreateInv, OpBecomes, PcBecomes
<1>5. ASSUME NEW i \in Ops, MergeLock(i) PROVE CreateInv'
  BY <1>5, MergeLockMoves DEF CreateInv, Moves, disk
<1>6. ASSUME NEW i \in Ops, MergeBuild(i) PROVE CreateInv'
  BY <1>6, MergeBuildOp DEF CreateInv, OpBecomes, disk
<1>7. ASSUME NEW i \in Ops, MergeDone(i) PROVE CreateInv'
  BY <1>7, MergeDoneOp DEF CreateInv, CallInv, OpBecomes, PcBecomes, disk
<1>8. ASSUME NEW i \in Ops, Get(i) \/ GetFails(i) PROVE CreateInv'
  BY <1>8, GetOp DEF CreateInv, OpBecomes, PcBecomes, disk
<1>9. ASSUME NEW i \in Ops, NEW r \in Replicas,
             FanOut(i, r) \/ FanOutFails(i, r) \/ FanOutLate(i, r)
      PROVE  CreateInv'
  <2>1. "log" \in present[1] => "log" \in present'[1]
    BY <1>9, FanOutOp, FanOutFailsOp, FanOutLateOp, LogStays DEF disk
  <2>2. PICK v \in {"ok", "failed", "late"} : CallBecomes(i, r, v)
    BY <1>9, FanOutOp, FanOutFailsOp, FanOutLateOp
  <2> QED
    BY <2>1, <2>2 DEF CreateInv, OpBecomes, CallBecomes
<1>10. ASSUME NEW i \in Ops, NEW r \in Replicas, Poll(i, r) \/ PollFails(i, r)
       PROVE  CreateInv'
  BY <1>10, PollMoves DEF CreateInv, Moves, disk
<1>11. ASSUME NEW i \in Ops, NEW r \in Replicas, Reconcile(i, r) \/ ReconcileFails(i, r)
       PROVE  CreateInv'
  BY <1>11, ReconcileMoves, ConstantTypes DEF CreateInv, Moves
<1>12. CASE UNCHANGED vars
  BY <1>12 DEF CreateInv, vars, disk
<1> QED
  BY <1>1, <1>2, <1>3, <1>4, <1>5, <1>6, <1>7, <1>8, <1>9, <1>10, <1>11, <1>12, Steps

(* CreateInv implies CreateOnce.                                           *)
LEMMA CreateInvImplies == ASSUME CreateInv PROVE CreateOnce
<1> DEFINE S == {i \in Ops : op[i].kind = "create" /\ op[i].pc = "ok"}
<1>1. CASE S = {}
  <2>1. Cardinality(S) = 0
    BY <1>1, FS_EmptySet
  <2> QED
    BY <2>1 DEF CreateOnce
<1>2. CASE S # {}
  <2>1. PICK i \in S : TRUE
    BY <1>2
  <2>2. S = {i} /\ ~Created
    BY <2>1 DEF CreateInv, PastPrimary
  <2>3. Cardinality(S) = 1
    BY <2>2, FS_Singleton
  <2> QED
    BY <2>2, <2>3 DEF CreateOnce
<1> QED
  BY <1>1, <1>2

(* At most one create of a file is acknowledged, however many clients ask  *)
(* for it at once and whatever writes fail: CreateFile refuses a file that *)
(* has an operation log and nothing removes the log of replica 1, not even *)
(* the clean-up of a create that failed.                                   *)
THEOREM CreatedOnce == Spec => []CreateOnce
<1>1. Init => TypeOK /\ CallInv /\ CreateInv
  BY InitType, CallInvInit, CreateInvInit
<1>2. TypeOK /\ CallInv /\ CreateInv /\ [Next]_vars => (TypeOK /\ CallInv /\ CreateInv)'
  BY NextType, CallInvNext, CreateInvNext
<1>3. CreateInv => CreateOnce
  BY CreateInvImplies
<1> QED
  BY <1>1, <1>2, <1>3, PTL DEF Spec

-----------------------------------------------------------------------------
(* Locks.  When the file was created before, both its files stay on every  *)
(* replica, so no append is refused; a lock leaks only where the data file *)
(* cannot be opened.                                                       *)

FilesThere == \A r \in Replicas : present[r] = {"data", "log"}

LockInv == (Created => FilesThere) /\ LockOwned

(* LockInv holds initially.                                                *)
LEMMA LockInvInit == ASSUME Init PROVE LockInv
BY DEF Init, LockInv, FilesThere, LockOwned

(* A write to files that exist leaves them in place.                       *)
LEMMA WriteKeepsFiles ==
  ASSUME TypeOK, FilesThere, NEW i \in Ops, IsWrite(i), NEW r \in Replicas,
         WriteOK(i, r) \/ WriteRefused(i, r) \/ WriteError(i, r)
  PROVE  FilesThere'
<1>1. CASE WriteOK(i, r)
  BY <1>1 DEF WriteOK, SetFiles, FilesThere, TypeOK
<1>2. CASE WriteRefused(i, r)
  BY <1>2 DEF WriteRefused, CanWrite, FilesThere, IsWrite, disk
<1>3. CASE WriteError(i, r)
  BY <1>3 DEF WriteError, CanWrite, FilesThere, IsWrite
<1> QED
  BY <1>1, <1>2, <1>3

Leaks(i, r) == op[i].kind = "append" /\ lock' = [lock EXCEPT ![r] = i]

(* A write releases the lock, unless it is an append that finds no file or *)
(* that a disk error stops.                                                *)
LEMMA WriteLeaks ==
  ASSUME NEW i \in Ops, IsWrite(i), NEW r \in Replicas
  PROVE  /\ WriteOK(i, r) => UNCHANGED lock
         /\ WriteRefused(i, r) => UNCHANGED lock \/ (Leaks(i, r) /\ ~FilesThere)
         /\ WriteError(i, r) => UNCHANGED lock \/ Leaks(i, r)
<1>1. WriteOK(i, r) => UNCHANGED lock
  BY DEF WriteOK
<1>2. WriteRefused(i, r) => UNCHANGED lock \/ (Leaks(i, r) /\ ~FilesThere)
  BY DEF WriteRefused, CanWrite, FilesThere, Leaks
<1>3. WriteError(i, r) => UNCHANGED lock \/ Leaks(i, r)
  BY DEF WriteError, Leaks
<1> QED
  BY <1>1, <1>2, <1>3

(* The failures that were counted are not taken back.                      *)
LEMMA FailsGrow ==
  ASSUME TypeOK
  PROVE  /\ CountWriteFail => writeFails' > 0
         /\ UNCHANGED writeFails \/ CountWriteFail => (writeFails > 0 => writeFails' > 0)
BY ConstantTypes DEF TypeOK, CountWriteFail

(* Operation i has failed, or will because of the call to r.               *)
FailsAt(i, r) ==
  /\ op[i].kind = "append"
  /\ op[i].pc = "failed" \/ (op[i].pc = "fanout" /\ op[i].call[r] = "failed")

(* A step of operation i that is no step of a merge.                       *)
Keeps(i) ==
  /\ op[i].pc \notin {"poll", "reconcile"}
  /\ \A j \in Ops : j # i => op'[j] = op[j]
  /\ \A r \in Replicas : FailsAt(i, r) => FailsAt(i, r)'
  /\ writeFails > 0 => writeFails' > 0

(* Such a step keeps LockOwned, if a lock that it leaks is the lock of an  *)
(* append that fails.                                                      *)
LEMMA KeepsLocks ==
  ASSUME TypeOK, LockOwned, NEW i \in Ops, NEW s \in Replicas, Keeps(i),
         \/ UNCHANGED lock
         \/ /\ lock' = [lock EXCEPT ![s] = i] /\ FailsAt(i, s)'
            /\ ~Created \/ writeFails' > 0
  PROVE  LockOwned'
<1> SUFFICES ASSUME NEW r \in Replicas, NEW h, h = lock'[r], h # 0
             PROVE  \/ /\ op'[h].kind = "merge" /\ op'[h].at = r
                       /\ op'[h].pc \in {"poll", "reconcile"}
                    \/ FailsAt(h, r)' /\ (~Created \/ writeFails' > 0)
  BY DEF LockOwned, FailsAt
<1>1. CASE h = lock[r]
  <2>1. h \in Ops
    BY <1>1, ConstantTypes DEF TypeOK, Chunks
  <2>2. \/ /\ op[h].kind = "merge" /\ op[h].at = r
           /\ op[h].pc \in {"poll", "reconcile"}
        \/ FailsAt(h, r) /\ (~Created \/ writeFails > 0)
    BY <1>1 DEF LockOwned, FailsAt
  <2>3. CASE h = i
    BY <2>2, <2>3 DEF Keeps
  <2>4. CASE h # i
    <3>1. op'[h] = op[h]
      BY <2>1, <2>4 DEF Keeps
    <3>2. FailsAt(h, r) => FailsAt(h, r)'
      BY <3>1 DEF FailsAt
    <3> QED
      BY <2>2, <3>1, <3>2 DEF Keeps
  <2> QED
    BY <2>3, <2>4
<1>2. CASE h # lock[r]
  <2>1. /\ lock' = [lock EXCEPT ![s] = i] /\ FailsAt(i, s)'
        /\ ~Created \/ writeFails' > 0
    BY <1>2
  <2>2. r = s /\ h = i
    BY <1>2, <2>1 DEF TypeOK
  <2> QED
    BY <2>1, <2>2
<1> QED
  BY <1>1, <1>2

(* The answer of a call that was open moves nothing that had failed.       *)
LEMMA CallKeeps ==
  ASSUME TypeOK, CallInv, NEW i \in Ops, NEW r \in Replicas, NEW v \in CallStates,
         CallBecomes(i, r, v), op[i].call[r] # "failed", UNCHANGED writeFails \/ CountWriteFail,
         op[i].pc \notin {"poll", "reconcile"}
  PROVE  /\ Keeps(i) /\ op'[i].kind = op[i].kind /\ op'[i].pc = op[i].pc
         /\ op'[i].call[r] = v
<1>1. op[i].call \in [Replicas -> CallStates]
  BY DEF TypeOK, OpRec, CallStates
<1>2. /\ op'[i].call = [op[i].call EXCEPT ![r] = v] /\ op'[i].kind = op[i].kind
      /\ op'[i].pc = op[i].pc /\ \A j \in Ops : j # i => op'[j] = op[j]
  BY DEF CallBecomes, OpBecomes
<1>3. \A s \in Replicas : FailsAt(i, s) => FailsAt(i, s)'
  BY <1>1, <1>2 DEF FailsAt
<1> QED
  BY <1>1, <1>2, <1>3, FailsGrow DEF Keeps

(* Every step keeps LockInv.                                               *)
LEMMA LockInvNext ==
  ASSUME TypeOK, CallInv, CreateInv, LockInv, [Next]_vars
  PROVE  LockInv'
<1>0. /\ \A i \in Ops : i # 0 /\ op[i] \in OpRec /\ op[i].at \in Replicas
      /\ \A r \in Replicas : lock[r] # 0 => lock[r] \in Ops
      /\ (Created => FilesThere) /\ LockOwned
  BY ConstantTypes DEF TypeOK, OpRec, LockInv, Chunks
<1>1. ASSUME NEW i \in Ops, Begin(i) PROVE LockInv'
  BY <1>0, <1>1, BeginOp DEF LockInv, LockOwned, FilesThere, OpBecomes, disk
<1>2. ASSUME NEW i \in Ops, LocalWrite(i) PROVE LockInv'
  <2> PICK p \in Replicas : p = op[i].at
    BY <1>0
  <2>1. /\ IsWrite(i) /\ op[i].pc = "local" /\ UNCHANGED writeFails
        /\ WriteOK(i, p) \/ (WriteRefused(i, p) /\ PcBecomes(i, "failed"))
        /\ \A j \in Ops : j # i => op'[j] = op[j]
    BY <1>2, LocalWriteOp DEF OpBecomes, PcBecomes
  <2>2. Created => FilesThere'
    BY <1>0, <2>1, WriteKeepsFiles
  <2>3. Keeps(i)
    BY <2>1 DEF Keeps, FailsAt
  <2>4. CASE UNCHANGED lock
    BY <1>0, <2>2, <2>3, <2>4, KeepsLocks DEF LockInv
  <2>5. CASE Leaks(i, p) /\ ~FilesThere /\ PcBecomes(i, "failed")
    <3>1. FailsAt(i, p)'
      BY <2>5 DEF FailsAt, Leaks, PcBecomes, OpBecomes
    <3>2. LockOwned'
      BY <1>0, <2>3, <2>5, <3>1, KeepsLocks DEF Leaks
    <3> QED
      BY <2>2, <3>2 DEF LockInv
  <2> QED
    BY <1>0, <2>1, <2>4, <2>5, WriteLeaks
<1>3. ASSUME NEW i \in Ops, LocalWriteFails(i) PROVE LockInv'
  <2> PICK p \in Replicas : p = op[i].at
    BY <1>0
  <2>1. /\ IsWrite(i) /\ op[i].pc = "local" /\ CountWriteFail /\ WriteError(i, p)
        /\ PcBecomes(i, "failed") /\ \A j \in Ops : j # i => op'[j] = op[j]
    BY <1>3, LocalWriteFailsOp DEF OpBecomes, PcBecomes
  <2>2. Created => FilesThere'
    BY <1>0, <2>1, WriteKeepsFiles
  <2>3. Keeps(i) /\ writeFails' > 0
    BY <2>1, FailsGrow DEF Keeps, FailsAt
  <2>4. CASE UNCHANGED lock
    BY <1>0, <2>2, <2>3, <2>4, KeepsLocks DEF LockInv
  <2>5. CASE Leaks(i, p)
    <3>1. FailsAt(i, p)'
      BY <2>1, <2>5 DEF FailsAt, Leaks, PcBecomes, OpBecomes
    <3>2. LockOwned'
      BY <1>0, <2>3, <2>5, <3>1, KeepsLocks DEF Leaks
    <3> QED
      BY <2>2, <3>2 DEF LockInv
  <2> QED
    BY <1>0, <2>1, <2>4, <2>5, WriteLeaks
<1>4. ASSUME NEW i \in Ops, WriteDone(i) PROVE LockInv'
  <2>1. op[i].pc = "fanout" /\ UNCHANGED <<lock, writeFails>> /\ 1 \in Replicas
    BY <1>4, WriteDoneOp, ConstantTypes
  <2>2. Created => UNCHANGED present
    BY <1>4, <2>1, WriteDoneOp DEF PastPrimary, CreateInv, disk
  <2>3. \A r \in Replicas : FailsAt(i, r) => FailsAt(i, r)'
    BY <1>4, <2>1, WriteDoneOp DEF FailsAt, OpBecomes, PcBecomes
  <2>4. Keeps(i)
    BY <1>4, <2>1, <2>3, WriteDoneOp DEF Keeps, OpBecomes, PcBecomes
  <2> QED
    BY <1>0, <2>1, <2>2, <2>4, KeepsLocks DEF LockInv, FilesThere
<1>5. ASSUME NEW i \in Ops, MergeLock(i) PROVE LockInv'
  <2>1. /\ \A r \in Replicas : lock'[r] = IF r = 1 THEN i ELSE lock[r]
        /\ op'[i].kind = "merge" /\ op'[i].at = 1 /\ op'[i].pc = "poll"
        /\ \A j \in Ops : j # i => op'[j] = op[j]
    BY <1>5, MergeLockMoves DEF Moves, TypeOK
  <2>2. op[i].kind = "merge" /\ op[i].pc = "local" /\ UNCHANGED <<disk, writeFails>>
    BY <1>5, MergeLockOp
  <2>3. \A r \in Replicas : lock[r] # i
    BY <1>0, <2>2 DEF LockOwned
  <2>4. LockOwned'
    BY <1>0, <2>1, <2>2, <2>3 DEF LockOwned
  <2> QED
    BY <1>0, <2>2, <2>4 DEF LockInv, FilesThere, disk
<1>6. ASSUME NEW i \in Ops, MergeBuild(i) PROVE LockInv'
  <2>1. /\ Moves(i, op[i].kind, "reconcile", op[i].at) /\ UNCHANGED <<disk, lock, writeFails>>
        /\ op[i].kind = "merge"
    BY <1>6, MergeBuildOp DEF OpBecomes, Moves, CallInv
  <2> QED
    BY <1>0, <2>1 DEF LockInv, LockOwned, FilesThere, Moves, disk
<1>7. ASSUME NEW i \in Ops, MergeDone(i) PROVE LockInv'
  <2>1. /\ op[i].at = 1 /\ lock[1] = i /\ lock' = [lock EXCEPT ![1] = 0]
        /\ UNCHANGED <<disk, writeFails>> /\ \A j \in Ops : j # i => op'[j] = op[j]
    BY <1>7, MergeDoneOp DEF CallInv, OpBecomes, PcBecomes
  <2>2. op[i].kind = "merge"
    BY <1>7, MergeDoneOp DEF CallInv
  <2>3. \A r \in Replicas : r # 1 => lock[r] # i
    BY <1>0, <2>1, <2>2 DEF LockOwned
  <2> QED
    BY <1>0, <2>1, <2>3 DEF LockInv, LockOwned, FilesThere, disk, TypeOK
<1>8. ASSUME NEW i \in Ops, Get(i) \/ GetFails(i) PROVE LockInv'
  <2>1. /\ op[i].pc = "local" /\ UNCHANGED <<disk, lock>>
        /\ \A j \in Ops : j # i => op'[j] = op[j]
        /\ UNCHANGED writeFails \/ CountWriteFail
    BY <1>8, GetOp DEF OpBecomes, PcBecomes
  <2>2. Keeps(i) /\ 1 \in Replicas
    BY <2>1, FailsGrow, ConstantTypes DEF Keeps, FailsAt
  <2> QED
    BY <1>0, <2>1, <2>2, KeepsLocks DEF LockInv, FilesThere, disk
<1>9. ASSUME NEW i \in Ops, NEW r \in Replicas,
             FanOut(i, r) \/ FanOutFails(i, r) \/ FanOutLate(i, r)
      PROVE  LockInv'
  <2>1. /\ op[i].pc \in {"fanout", "failed"} /\ IsWrite(i) /\ op[i].call[r] # "failed"
        /\ UNCHANGED writeFails \/ CountWriteFail
    BY <1>9, FanOutOp, FanOutFailsOp, FanOutLateOp DEF CallInv
  <2>2. Created => FilesThere'
    BY <1>0, <1>9, <2>1, FanOutOp, FanOutFailsOp, FanOutLateOp, WriteKeepsFiles
       DEF FilesThere, disk
  <2>3. PICK v \in {"ok", "failed", "late"} :
          /\ CallBecomes(i, r, v)
          /\ \/ UNCHANGED lock
             \/ Leaks(i, r) /\ v = "failed" /\ (~FilesThere \/ CountWriteFail)
    BY <1>9, <2>1, FanOutOp, FanOutFailsOp, FanOutLateOp, WriteLeaks
  <2>4. Keeps(i) /\ op'[i].kind = op[i].kind /\ op'[i].pc = op[i].pc /\ op'[i].call[r] = v
    BY <2>1, <2>3, CallKeeps DEF CallStates
  <2>5. CASE UNCHANGED lock
    BY <1>0, <2>2, <2>4, <2>5, KeepsLocks DEF LockInv
  <2>6. CASE Leaks(i, r) /\ v = "failed" /\ (~FilesThere \/ CountWriteFail)
    <3>1. FailsAt(i, r)'
      BY <2>1, <2>4, <2>6 DEF FailsAt, Leaks
    <3>2. ~Created \/ writeFails' > 0
      BY <1>0, <2>6, FailsGrow
    <3> QED
      BY <1>0, <2>2, <2>4, <2>6, <3>1, <3>2, KeepsLocks DEF LockInv, Leaks
  <2> QED
    BY <2>3, <2>5, <2>6
<1>10. ASSUME NEW i \in Ops, NEW r \in Replicas, Poll(i, r) \/ PollFails(i, r)
       PROVE  LockInv'
  <2>1. UNCHANGED writeFails /\ op[i].kind = "merge"
    BY <1>10, PollOp, PollFailsOp DEF CallInv
  <2> QED
    BY <1>0, <1>10, <2>1, PollMoves DEF LockInv, LockOwned, FilesThere, Moves, disk
<1>11. ASSUME NEW i \in Ops, NEW r \in Replicas, Reconcile(i, r) \/ ReconcileFails(i, r)
       PROVE  LockInv'
  <2>1. UNCHANGED writeFails /\ op[i].kind = "merge"
    BY <1>11, ReconcileOp, ReconcileFailsOp DEF CallInv
  <2>2. Created => FilesThere'
    BY <1>0, <1>11, ReconcileMoves, NextType DEF FilesThere, TypeOK
  <2> QED
    BY <1>0, <1>11, <2>1, <2>2, ReconcileMoves DEF LockInv, LockOwned, Moves
<1>12. CASE UNCHANGED vars
  BY <1>12 DEF LockInv, LockOwned, FilesThere, vars, disk
<1> QED
  BY <1>1, <1>2, <1>3, <1>4, <1>5, <1>6, <1>7, <1>8, <1>9, <1>10, <1>11, <1>12, Steps

(* Between two steps a lock belongs to a merge that its replica serves, or *)
(* was leaked by an append that failed: by one that found no file, or, of  *)
(* a file that exists, by one that could not open it.  Every other holder  *)
(* of FileMetadata.lock has released it, on every path through CreateFile, *)
(* AppendFile and GetFile, also when it serves a call that was given up.   *)
THEOREM LocksOwned == Spec => []LockOwned
<1> DEFINE Inv == TypeOK /\ CallInv /\ CreateInv /\ LockInv
<1>1. Init => Inv
  BY InitType, CallInvInit, CreateInvInit, LockInvInit
<1>2. Inv /\ [Next]_vars => Inv'
  BY NextType, CallInvNext, CreateInvNext, LockInvNext
<1>3. Inv => LockOwned
  BY DEF LockInv
<1> QED
  BY <1>1, <1>2, <1>3, PTL DEF Spec

-----------------------------------------------------------------------------
(* Convergence.  A quiet merge started when no fan-out was on its way, and *)
(* as every write starts at replica 1, whose lock the merge holds, none    *)
(* starts: nobody else touches the files that it has reconciled.           *)

MergeInv ==
  \A i \in Ops : op[i].pc \in {"poll", "reconcile"} /\ op[i].quiet =>
    /\ \A j \in Ops : ~OnItsWay(j)
    /\ op[i].pc = "reconcile" =>
         \A r \in Replicas : op[i].call[r] = "ok" =>
           data[r] = op[i].final /\ log[r] = <<[OpID |-> i, Data |-> op[i].final]>>

(* MergeInv holds initially.                                               *)
LEMMA MergeInvInit == ASSUME Init PROVE MergeInv
BY DEF Init, Idle, MergeInv

(* Every step keeps MergeInv.                                              *)
LEMMA MergeInvNext ==
  ASSUME AnyPrimary = FALSE, TypeOK, CallInv, MergeInv, [Next]_vars
  PROVE  MergeInv'
<1>0. \A i \in Ops : i # 0 /\ op[i] \in OpRec /\ op[i].at \in Replicas
  BY ConstantTypes DEF TypeOK, OpRec
<1>12. /\ \A j \in Ops : op'[j] = op[j] => (OnItsWay(j)' <=> OnItsWay(j))
       /\ \A j \in Ops : op'[j].kind \in {"merge", "get"} \/ op'[j].pc = "local"
            => ~OnItsWay(j)'
       /\ \A j \in Ops : op'[j].pc \in {"poll", "reconcile"} => op'[j].kind = "merge"
  BY CallInvNext DEF CallInv, OnItsWay, IsWrite
<1>1. ASSUME NEW i \in Ops, Begin(i) PROVE MergeInv'
  <2>1. /\ op'[i].pc = "local" /\ UNCHANGED <<data, log>>
        /\ \A j \in Ops : j # i => op'[j] = op[j]
    BY <1>1, BeginOp DEF OpBecomes, disk
  <2> QED
    BY <1>0, <1>12, <2>1 DEF MergeInv
<1>2. ASSUME NEW i \in Ops, LocalWrite(i) \/ LocalWriteFails(i) PROVE MergeInv'
  <2>1. /\ op[i].at = 1 /\ \A j \in Ops : j # i => op'[j] = op[j]
        /\ lock[1] = 0 /\ op'[i].pc \in {"fanout", "failed"}
    <3>1. op[i].at = 1
      BY <1>2, LocalWriteOp, LocalWriteFailsOp DEF CallInv, IsWrite
    <3>2. \A j \in Ops : j # i => op'[j] = op[j]
      BY <1>2, LocalWriteOp, LocalWriteFailsOp DEF OpBecomes, PcBecomes
    <3>3. op'[i].pc \in {"fanout", "failed"}
      BY <1>2, LocalWriteOp, LocalWriteFailsOp DEF OpBecomes, PcBecomes
    <3>4. lock[1] = 0
      BY <1>0, <1>2, <3>1, LocalWriteOp, LocalWriteFailsOp, WriteLock
    <3> QED
      BY <3>1, <3>2, <3>3, <3>4
  <2>2. \A j \in Ops : op[j].pc \notin {"poll", "reconcile"}
    BY <1>0, <2>1 DEF CallInv
  <2> QED
    BY <2>1, <2>2 DEF MergeInv
<1>3. ASSUME NEW i \in Ops, WriteDone(i) PROVE MergeInv'
  <2>1. /\ op[i].pc = "fanout" /\ \A j \in Ops : j # i => op'[j] = op[j]
        /\ op'[i].pc \in {"ok", "failed"}
    BY <1>3, WriteDoneOp DEF OpBecomes, PcBecomes
  <2> QED
    BY <2>1 DEF MergeInv, OnItsWay
<1>4. ASSUME NEW i \in Ops, MergeLock(i) PROVE MergeInv'
  <2>1. \A j \in Ops : op[j].pc \notin {"poll", "reconcile"}
    BY <1>0, <1>4, MergeLockMoves DEF CallInv
  <2>2. op'[i].quiet => \A j \in Ops : ~OnItsWay(j)
    BY <1>4, MergeLockOp DEF OpBecomes
  <2> QED
    BY <1>4, <1>12, <2>1, <2>2, MergeLockMoves DEF MergeInv, Moves
<1>5. ASSUME NEW i \in Ops, MergeBuild(i) PROVE MergeInv'
  <2>1. /\ op[i].pc = "poll" /\ Moves(i, op[i].kind, "reconcile", op[i].at)
        /\ op'[i].quiet = op[i].quiet /\ op'[i].call = SentCalls
    BY <1>5, MergeBuildOp DEF OpBecomes, Moves
  <2>2. \A j \in Ops : j # i => op[j].pc \notin {"poll", "reconcile"}
    BY <2>1 DEF CallInv
  <2>3. \A r \in Replicas : op'[i].call[r] # "ok"
    BY <2>1 DEF SentCalls
  <2> QED
    BY <1>12, <2>1, <2>2, <2>3 DEF MergeInv, Moves
<1>6. ASSUME NEW i \in Ops, MergeDone(i) PROVE MergeInv'
  <2>1. /\ op[i].pc = "reconcile" /\ Moves(i, op[i].kind, "ok", op[i].at)
    BY <1>6, MergeDoneOp DEF OpBecomes, PcBecomes, Moves
  <2>2. \A j \in Ops : j # i => op[j].pc \notin {"poll", "reconcile"}
    BY <2>1 DEF CallInv
  <2> QED
    BY <2>1, <2>2 DEF MergeInv, Moves
<1>7. ASSUME NEW i \in Ops, Get(i) \/ GetFails(i) PROVE MergeInv'
  <2>1. /\ op[i].pc = "local" /\ UNCHANGED disk
        /\ \A j \in Ops : j # i => op'[j] = op[j]
        /\ op'[i].pc \in {"ok", "failed", "local"} /\ op'[i].kind = "get"
    BY <1>7, GetOp DEF OpBecomes, PcBecomes
  <2> QED
    BY <1>12, <2>1 DEF MergeInv, disk
<1>8. ASSUME NEW i \in Ops, NEW r \in Replicas,
             FanOut(i, r) \/ FanOutFails(i, r) \/ FanOutLate(i, r)
      PROVE  MergeInv'
  <2>1. PICK v : CallBecomes(i, r, v)
    BY <1>8, FanOutOp, FanOutFailsOp, FanOutLateOp
  <2>2. OnItsWay(i) /\ op[i].pc \in {"fanout", "failed"}
    BY <1>8, <2>1, FanOutOp, FanOutFailsOp, FanOutLateOp DEF CallInv, OnItsWay
  <2>3. Moves(i, op[i].kind, op[i].pc, op[i].at)
    BY <2>1, CallMoves
  <2> QED
    BY <2>2, <2>3 DEF MergeInv, Moves
<1>9. ASSUME NEW i \in Ops, NEW r \in Replicas, Poll(i, r) \/ PollFails(i, r)
      PROVE  MergeInv'
  <2>1. op'[i].quiet = op[i].quiet
    BY <1>9, PollOp, PollFailsOp DEF CallBecomes, OpBecomes
  <2>2. /\ op[i].pc = "poll" /\ op'[i].pc = "poll" /\ UNCHANGED <<data, log>>
        /\ \A j \in Ops : j # i => op'[j] = op[j]
    BY <1>9, PollMoves DEF Moves, disk
  <2>3. \A j \in Ops : j # i => op[j].pc \notin {"poll", "reconcile"}
    BY <2>2 DEF CallInv
  <2> QED
    BY <1>12, <2>1, <2>2, <2>3 DEF MergeInv
<1>10. ASSUME NEW i \in Ops, NEW r \in Replicas, Reconcile(i, r) \/ ReconcileFails(i, r)
       PROVE  MergeInv'
  <2>1. /\ op[i].pc = "reconcile" /\ Moves(i, op[i].kind, op[i].pc, op[i].at)
        /\ op'[i].quiet = op[i].quiet /\ op'[i].final = op[i].final
    BY <1>10, ReconcileMoves, ReconcileOp, ReconcileFailsOp DEF CallBecomes, OpBecomes
  <2>2. \A j \in Ops : j # i => op[j].pc \notin {"poll", "reconcile"}
    BY <2>1 DEF CallInv
  <2>3. \A s \in Replicas \ {r} : data'[s] = data[s] /\ log'[s] = log[s]
    BY <1>10, ReconcileOp, ReconcileFailsOp DEF SetFiles, TypeOK, disk
  <2>4. /\ \A s \in Replicas \ {r} : op'[i].call[s] = op[i].call[s]
        /\ ReconcileFails(i, r) => op'[i].call[r] = "error"
    <3>1. PICK v : CallBecomes(i, r, v) /\ (ReconcileFails(i, r) => v = "error")
      BY <1>10, ReconcileOp, ReconcileFailsOp
    <3>2. op'[i].call = [op[i].call EXCEPT ![r] = v]
      BY <3>1 DEF CallBecomes, OpBecomes
    <3> QED
      BY <1>0, <3>1, <3>2 DEF OpRec
  <2>5. Reconcile(i, r) => /\ data'[r] = op[i].final
                           /\ log'[r] = <<[OpID |-> i, Data |-> op[i].final]>>
    BY ReconcileOp DEF SetFiles, TypeOK
  <2> QED
    BY <1>10, <1>12, <2>1, <2>2, <2>3, <2>4, <2>5 DEF MergeInv, Moves
<1>11. CASE UNCHANGED vars
  BY <1>11, <1>12 DEF MergeInv, vars, disk
<1> QED
  BY <1>1, <1>2, <1>3, <1>4, <1>5, <1>6, <1>7, <1>8, <1>9, <1>10, <1>11, Steps

(* When every write goes to replica 1 first, a merge that found no fan-out *)
(* on its way and whose calls all succeeded leaves the same data and the   *)
(* same operation log on every replica, whatever else is called meanwhile. *)
THEOREM MergesConverge == ASSUME AnyPrimary = FALSE PROVE Spec => []MergeConverges
<1> DEFINE Inv == TypeOK /\ CallInv /\ MergeInv
<1>1. Init => Inv
  BY InitType, CallInvInit, MergeInvInit
<1>2. Inv /\ [Next]_vars => Inv'
  BY NextType, CallInvNext, MergeInvNext
<1>3. Inv => MergeConverges
  <2> SUFFICES ASSUME MergeInv, NEW i \in Ops, op[i].pc = "reconcile", op[i].quiet,
                      \A r \in Replicas : op[i].call[r] = "ok"
               PROVE  \A r, s \in Replicas : data[r] = data[s] /\ log[r] = log[s]
    BY Zenon DEF MergeConverges
  <2>1. \A r \in Replicas :
          data[r] = op[i].final /\ log[r] = <<[OpID |-> i, Data |-> op[i].final]>>
    BY Zenon DEF MergeInv
  <2> QED
    BY <2>1
<1> QED
  BY <1>1, <1>2, <1>3, PTL DEF Spec

-----------------------------------------------------------------------------
(* A step changes the state of the call that takes it and of no other.     *)

LEMMA OwnStep ==
  ASSUME TypeOK, [Next]_vars, NEW j \in Ops
  PROVE  \/ op'[j] = op[j]
         \/ Begin(j) \/ LocalWrite(j) \/ LocalWriteFails(j) \/ WriteDone(j)
         \/ MergeLock(j) \/ MergeBuild(j) \/ MergeDone(j)
         \/ Get(j) \/ GetFails(j)
         \/ \E r \in Replicas :
              \/ FanOut(j, r) \/ FanOutFails(j, r) \/ FanOutLate(j, r)
              \/ Poll(j, r) \/ PollFails(j, r)
              \/ Reconcile(j, r) \/ ReconcileFails(j, r)
<1> SUFFICES ASSUME NEW i \in Ops, i # j,
                    \/ Begin(i) \/ LocalWrite(i) \/ LocalWriteFails(i) \/ WriteDone(i)
                    \/ MergeLock(i) \/ MergeBuild(i) \/ MergeDone(i)
                    \/ Get(i) \/ GetFails(i)
                    \/ \E r \in Replicas :
                         \/ FanOut(i, r) \/ FanOutFails(i, r) \/ FanOutLate(i, r)
                         \/ Poll(i, r) \/ PollFails(i, r)
                         \/ Reconcile(i, r) \/ ReconcileFails(i, r)
             PROVE  op'[j] = op[j]
  BY Steps DEF vars
<1> USE DEF OpBecomes, PcBecomes, CallBecomes
<1>1. CASE Begin(i)
  BY <1>1, BeginOp
<1>2. CASE LocalWrite(i)
  BY <1>2, LocalWriteOp
<1>3. CASE LocalWriteFails(i)
  BY <1>3, LocalWriteFailsOp
<1>4. CASE WriteDone(i)
  BY <1>4, WriteDoneOp
<1>5. CASE MergeLock(i)
  BY <1>5, MergeLockOp
<1>6. CASE MergeBuild(i)
  BY <1>6, MergeBuildOp
<1>7. CASE MergeDone(i)
  BY <1>7, MergeDoneOp
<1>8. CASE Get(i) \/ GetFails(i)
  BY <1>8, GetOp
<1>9. ASSUME NEW r \in Replicas, FanOut(i, r) \/ FanOutFails(i, r) \/ FanOutLate(i, r)
      PROVE  op'[j] = op[j]
  BY <1>9, FanOutCall DEF Moves
<1>10. ASSUME NEW r \in Replicas, Poll(i, r) \/ PollFails(i, r) PROVE op'[j] = op[j]
  BY <1>10, PollMoves DEF Moves
<1>11. ASSUME NEW r \in Replicas, Reconcile(i, r) \/ ReconcileFails(i, r)
       PROVE  op'[j] = op[j]
  BY <1>11, ReconcileMoves DEF Moves
<1> QED
  BY <1>1, <1>2, <1>3, <1>4, <1>5, <1>6, <1>7, <1>8, <1>9, <1>10, <1>11

(* What no step changes in a call that was issued.                         *)
Stable(j) ==
  op[j].pc # "idle" =>
    /\ op'[j].kind = op[j].kind /\ op'[j].pc # "idle" /\ op'[j].seen = op[j].seen
    /\ op[j].pc \in {"ok", "failed"} => op'[j].pc = op[j].pc /\ op'[j].final = op[j].final
    /\ op[j].pc = "reconcile" => op'[j].pc \in {"reconcile", "ok"} /\ op'[j].final = op[j].final

(* An operation never starts over: it keeps its kind, its end is final, and*)
(* a merge keeps the content that it built.                                *)
LEMMA CallsStable ==
  ASSUME TypeOK, CallInv, [Next]_vars, NEW j \in Ops
  PROVE  Stable(j)
<1> USE DEF OpBecomes, PcBecomes, Stable
<1>1. CASE Begin(j)
  BY <1>1, BeginOp
<1>2. CASE LocalWrite(j)
  BY <1>2, LocalWriteOp
<1>3. CASE LocalWriteFails(j)
  BY <1>3, LocalWriteFailsOp
<1>4. CASE WriteDone(j)
  BY <1>4, WriteDoneOp
<1>5. CASE MergeLock(j)
  BY <1>5, MergeLockOp
<1>6. CASE MergeBuild(j)
  BY <1>6, MergeBuildOp
<1>7. CASE MergeDone(j)
  BY <1>7, MergeDoneOp
<1>8. CASE Get(j) \/ GetFails(j)
  BY <1>8, GetOp
<1>9. ASSUME NEW r \in Replicas, FanOut(j, r) \/ FanOutFails(j, r) \/ FanOutLate(j, r)
      PROVE  Stable(j)
  <2>1. PICK v : CallBecomes(j, r, v) /\ op[j].pc \in {"fanout", "failed"}
    BY <1>9, FanOutOp, FanOutFailsOp, FanOutLateOp DEF CallInv
  <2> QED
    BY <2>1 DEF CallBecomes
<1>10. ASSUME NEW r \in Replicas, Poll(j, r) \/ PollFails(j, r) PROVE Stable(j)
  <2>1. op'[j].seen = op[j].seen
    BY <1>10, PollOp, PollFailsOp DEF CallBecomes
  <2> QED
    BY <1>10, <2>1, PollMoves DEF Moves
<1>11. ASSUME NEW r \in Replicas, Reconcile(j, r) \/ ReconcileFails(j, r)
       PROVE  Stable(j)
  <2>1. PICK v : CallBecomes(j, r, v) /\ op[j].pc = "reconcile"
    BY <1>11, ReconcileOp, ReconcileFailsOp
  <2> QED
    BY <2>1 DEF CallBecomes
<1>12. CASE op'[j] = op[j]
  BY <1>12
<1> QED
  BY <1>1, <1>2, <1>3, <1>4, <1>5, <1>6, <1>7, <1>8, <1>9, <1>10, <1>11, <1>12, OwnStep

-----------------------------------------------------------------------------
(* What a step does to the files of a replica.                             *)

MergedEntry(i) == [OpID |-> i, Data |-> op[i].final]

(* A log changes only by a write that succeeds or by the reconcile of a    *)
(* merge.                                                                  *)
LEMMA FilesStep ==
  ASSUME TypeOK, CallInv, [Next]_vars, NEW r \in Replicas
  PROVE  \/ log'[r] = log[r]
         \/ \E i \in Ops : /\ IsWrite(i) /\ op[i].pc \in {"local", "fanout", "failed"}
                           /\ WriteOK(i, r)
         \/ \E i \in Ops : /\ op[i].kind = "merge" /\ op[i].pc = "reconcile"
                           /\ data'[r] = op[i].final /\ log'[r] = <<MergedEntry(i)>>
<1> USE DEF disk
<1>0. \A i \in Ops : op[i].at \in Replicas
  BY DEF TypeOK, OpRec
<1>1. ASSUME NEW i \in Ops, NEW s \in Replicas, WriteOK(i, s) PROVE s # r => log'[r] = log[r]
  BY <1>1 DEF WriteOK, SetFiles, TypeOK
<1>2. ASSUME NEW i \in Ops, LocalWrite(i)
      PROVE  log'[r] = log[r] \/ (IsWrite(i) /\ op[i].pc = "local" /\ WriteOK(i, r))
  <2>1. IsWrite(i) /\ op[i].pc = "local" /\ (UNCHANGED log \/ WriteOK(i, op[i].at))
    BY <1>2, LocalWriteOp DEF WriteRefused
  <2>2. CASE op[i].at = r
    BY <2>1, <2>2, Zenon
  <2>3. CASE op[i].at # r
    BY <1>0, <1>1, <2>1, <2>3
  <2> QED
    BY <2>2, <2>3
<1>3. ASSUME NEW i \in Ops, LocalWriteFails(i) PROVE log'[r] = log[r]
  BY <1>3, LocalWriteFailsOp DEF WriteError
<1>4. ASSUME NEW i \in Ops, NEW s \in Replicas,
             FanOut(i, s) \/ FanOutFails(i, s) \/ FanOutLate(i, s)
      PROVE  \/ log'[r] = log[r]
             \/ IsWrite(i) /\ op[i].pc \in {"fanout", "failed"} /\ WriteOK(i, r)
  <2>1. op[i].pc \in {"fanout", "failed"} /\ IsWrite(i)
    BY <1>4, FanOutOp, FanOutFailsOp, FanOutLateOp DEF CallInv
  <2>2. UNCHANGED log \/ WriteOK(i, s)
    BY <1>4, FanOutOp, FanOutFailsOp, FanOutLateOp DEF WriteRefused, WriteError
  <2>3. CASE s = r
    BY <2>1, <2>2, <2>3, Zenon
  <2>4. CASE s # r
    BY <1>1, <2>2, <2>4
  <2> QED
    BY <2>3, <2>4
<1>5. ASSUME NEW i \in Ops, NEW s \in Replicas, Reconcile(i, s) \/ ReconcileFails(i, s)
      PROVE  \/ log'[r] = log[r]
             \/ /\ op[i].kind = "merge" /\ op[i].pc = "reconcile"
                /\ data'[r] = op[i].final /\ log'[r] = <<MergedEntry(i)>>
  <2>1. op[i].pc = "reconcile" /\ op[i].kind = "merge"
    BY <1>5, ReconcileMoves DEF CallInv
  <2>2. UNCHANGED log \/ SetFiles(s, op[i].final, <<MergedEntry(i)>>)
    BY <1>5, ReconcileOp, ReconcileFailsOp DEF MergedEntry
  <2>3. CASE SetFiles(s, op[i].final, <<MergedEntry(i)>>)
    BY <2>1, <2>3 DEF SetFiles, TypeOK
  <2> QED
    BY <2>2, <2>3
<1>6. ASSUME NEW i \in Ops,
             \/ Begin(i) \/ WriteDone(i) \/ MergeLock(i) \/ MergeBuild(i) \/ MergeDone(i)
             \/ Get(i) \/ GetFails(i)
      PROVE  log'[r] = log[r]
  BY <1>6, BeginOp, WriteDoneOp, MergeLockOp, MergeBuildOp, MergeDoneOp, GetOp
<1>7. ASSUME NEW i \in Ops, NEW s \in Replicas, Poll(i, s) \/ PollFails(i, s)
      PROVE  log'[r] = log[r]
  BY <1>7, PollMoves
<1>8. CASE UNCHANGED vars
  BY <1>8 DEF vars
<1> QED
  BY <1>2, <1>3, <1>4, <1>5, <1>6, <1>7, <1>8, Steps

-----------------------------------------------------------------------------
(* An OpID determines the entry: the entries of a write are all the same,  *)
(* and those of a merge have the file that it built.                       *)

Canonical(e) ==
  IF e.OpID \in Ops /\ op[e.OpID].kind = "merge"
    THEN op[e.OpID].pc \in {"reconcile", "ok"} /\ e.Data = op[e.OpID].final
    ELSE e = OpEntry(e.OpID) /\ (e.OpID \in Ops => op[e.OpID].pc # "idle")

CanonicalLog(l) == \A n \in 1 .. Len(l) : Canonical(l[n])

CanonicalInv ==
  /\ \A r \in Replicas : CanonicalLog(log[r])
  /\ \A i \in Ops, r \in Replicas : CanonicalLog(op[i].logs[r])

(* CanonicalInv holds initially.                                           *)
LEMMA CanonicalInit == ASSUME Init PROVE CanonicalInv
<1>1. \A r \in Replicas : log[r] = <<OpEntry(0)>> \/ log[r] = <<>>
  BY DEF Init
<1>2. Canonical(OpEntry(0))
  BY ConstantTypes DEF Canonical, OpEntry
<1>3. \A i \in Ops, r \in Replicas : op[i].logs[r] = <<>>
  BY DEF Init, Idle
<1> QED
  BY <1>1, <1>2, <1>3 DEF CanonicalInv, CanonicalLog

(* An entry that is canonical stays so.                                    *)
LEMMA CanonicalStable ==
  ASSUME TypeOK, CallInv, [Next]_vars
  PROVE  \A e : Canonical(e) => Canonical(e)'
<1> SUFFICES ASSUME NEW e, Canonical(e) PROVE Canonical(e)'
  OBVIOUS
<1>1. CASE e.OpID \notin Ops
  BY <1>1 DEF Canonical, OpEntry
<1>2. CASE e.OpID \in Ops
  <2>1. op[e.OpID].pc # "idle"
    BY <1>2 DEF Canonical
  <2>2. Stable(e.OpID)
    BY <1>2, CallsStable
  <2> QED
    BY <1>2, <2>1, <2>2 DEF Canonical, Stable, OpEntry
<1> QED
  BY <1>1, <1>2

(* What a merge holds of a replica is the log as it was when it was        *)
(* polled.                                                                 *)
LEMMA PolledStep ==
  ASSUME TypeOK, [Next]_vars, NEW i \in Ops, NEW r \in Replicas
  PROVE  op'[i].logs[r] = op[i].logs[r] \/ op'[i].logs[r] = ScanLog(log[r])
<1> DEFINE P == op'[i].logs[r] = op[i].logs[r] \/ op'[i].logs[r] = ScanLog(log[r])
<1> USE DEF OpBecomes, PcBecomes
<1>1. CASE Begin(i)
  BY <1>1, BeginOp
<1>2. CASE LocalWrite(i) \/ LocalWriteFails(i) \/ WriteDone(i)
  BY <1>2, LocalWriteOp, LocalWriteFailsOp, WriteDoneOp
<1>3. CASE MergeLock(i)
  BY <1>3, MergeLockOp
<1>4. CASE MergeBuild(i)
  BY <1>4, MergeBuildOp
<1>5. CASE MergeDone(i) \/ Get(i) \/ GetFails(i)
  BY <1>5, MergeDoneOp, GetOp
<1>6. ASSUME NEW s \in Replicas, FanOut(i, s) \/ FanOutFails(i, s) \/ FanOutLate(i, s) PROVE P
  BY <1>6, FanOutCall
<1>7. ASSUME NEW s \in Replicas, Poll(i, s) PROVE P
  <2>1. op[i].logs \in [Replicas -> Seq(Entry)]
    BY DEF TypeOK, OpRec
  <2>2. op'[i].logs = op[i].logs \/ op'[i].logs = [op[i].logs EXCEPT ![s] = ScanLog(log[s])]
    <3>1. ASSUME CallBecomes(i, s, "failed") PROVE op'[i].logs = op[i].logs
      BY <3>1 DEF CallBecomes
    <3> QED
      BY <1>7, <3>1, PollOp
  <2> QED
    BY <2>1, <2>2
<1>8. ASSUME NEW s \in Replicas, PollFails(i, s) \/ Reconcile(i, s) \/ ReconcileFails(i, s)
      PROVE  P
  BY <1>8, PollFailsOp, ReconcileOp, ReconcileFailsOp DEF CallBecomes
<1>9. CASE op'[i] = op[i]
  BY <1>9
<1> QED
  BY <1>1, <1>2, <1>3, <1>4, <1>5, <1>6, <1>7, <1>8, <1>9, OwnStep

(* Every step keeps CanonicalInv.                                          *)
LEMMA CanonicalNext ==
  ASSUME TypeOK, CallInv, CanonicalInv, [Next]_vars
  PROVE  CanonicalInv'
<1>1. \A e : Canonical(e) => Canonical(e)'
  BY CanonicalStable
<1>2. ASSUME NEW r \in Replicas PROVE CanonicalLog(log[r])'
  <2>1. \A n \in 1 .. Len(log[r]) : Canonical(log[r][n])
    BY DEF CanonicalInv, CanonicalLog
  <2>2. CASE log'[r] = log[r]
    BY <1>1, <2>1, <2>2 DEF CanonicalLog
  <2>3. ASSUME NEW i \in Ops, IsWrite(i), op[i].pc \in {"local", "fanout", "failed"},
               WriteOK(i, r)
        PROVE  CanonicalLog(log[r])'
    <3>1. Canonical(OpEntry(i))
      BY <2>3 DEF Canonical, OpEntry, IsWrite
    <3>2. log[r] \in Seq(Entry) /\ OpEntry(i) \in Entry
      BY OpEntryType, ConstantTypes DEF TypeOK
    <3>3. log'[r] = <<OpEntry(i)>> \/ log'[r] = Append(log[r], OpEntry(i))
      BY <2>3 DEF WriteOK, SetFiles, TypeOK
    <3>4. \A n \in 1 .. Len(log'[r]) :
            log'[r][n] = OpEntry(i) \/ \E m \in 1 .. Len(log[r]) : log'[r][n] = log[r][m]
      BY <3>2, <3>3, AppendProperties
    <3> QED
      BY <1>1, <2>1, <3>1, <3>4 DEF CanonicalLog
  <2>4. ASSUME NEW i \in Ops, op[i].kind = "merge", op[i].pc = "reconcile",
               log'[r] = <<MergedEntry(i)>>
        PROVE  CanonicalLog(log[r])'
    <3>1. Canonical(MergedEntry(i))
      BY <2>4 DEF Canonical, MergedEntry
    <3> QED
      BY <1>1, <2>4, <3>1 DEF CanonicalLog
  <2> QED
    BY <2>2, <2>3, <2>4, FilesStep
<1>3. ASSUME NEW i \in Ops, NEW r \in Replicas PROVE CanonicalLog(op[i].logs[r])'
  <2>1. CASE op'[i].logs[r] = op[i].logs[r]
    BY <1>1, <2>1 DEF CanonicalInv, CanonicalLog
  <2>2. CASE op'[i].logs[r] = ScanLog(log[r])
    <3>1. \A n \in 1 .. Len(ScanLog(log[r])) :
            \E m \in 1 .. Len(log[r]) : ScanLog(log[r])[n] = log[r][m]
      BY ScanLogType DEF TypeOK
    <3> QED
      BY <1>1, <2>2, <3>1 DEF CanonicalInv, CanonicalLog
  <2> QED
    BY <2>1, <2>2, PolledStep
<1> QED
  BY <1>2, <1>3 DEF CanonicalInv

(* No two entries that a merge collects carry the same operation id with   *)
(* different data.                                                         *)
LEMMA EntriesFunctional ==
  ASSUME TypeOK, CanonicalInv, NEW i \in Ops, NEW rs \in SUBSET Replicas
  PROVE  Functional(Entries(i, rs))
<1>1. \A e \in Entries(i, rs) : Canonical(e)
  BY DEF CanonicalInv, CanonicalLog, Entries
<1>2. \A e \in Entries(i, rs) : e \in Entry
  BY EntriesType
<1>3. ASSUME NEW e \in Entries(i, rs), NEW g \in Entries(i, rs), e.OpID = g.OpID
      PROVE  e = g
  BY <1>1, <1>2, <1>3 DEF Canonical, Entry
<1> QED
  BY <1>3 DEF Functional

-----------------------------------------------------------------------------
(* Acknowledged writes.                                                    *)

(* No line of an operation log is longer than the scanner's buffer.        *)
ShortLines ==
  \A r \in Replicas : \A n \in 1 .. Len(log[r]) : Len(log[r][n].Data) <= MaxToken

InLog(c, l) == \E n \in 1 .. Len(l) : c \in ChunksIn(l[n].Data)

(* Replica r has answered write i with success, and i may still succeed.   *)
Passed(i, r) == IsWrite(i) /\ op[i].pc \in {"fanout", "ok"} /\ op[i].call[r] = "ok"

Applied(r) == {0} \cup {i \in Ops : Passed(i, r)}

(* An append adds its chunk.                                               *)
LEMMA ChunksInAppend ==
  ASSUME NEW s \in Seq(Chunks), NEW i \in Chunks
  PROVE  ChunksIn(Append(s, i)) = ChunksIn(s) \cup {i}
<1>1. /\ Len(s) \in Nat /\ Len(Append(s, i)) = Len(s) + 1
      /\ \A n \in 1 .. Len(s) : Append(s, i)[n] = s[n]
      /\ Append(s, i)[Len(s) + 1] = i
  BY AppendProperties, LenProperties
<1> QED
  BY <1>1 DEF ChunksIn

(* An appended entry is in the log, and everything before it stays.        *)
LEMMA InLogAppend ==
  ASSUME NEW l \in Seq(Entry), NEW i \in Chunks
  PROVE  /\ \A c : InLog(c, l) => InLog(c, Append(l, OpEntry(i)))
         /\ InLog(i, Append(l, OpEntry(i)))
<1>1. OpEntry(i) \in Entry
  BY OpEntryType
<1>2. /\ Len(l) \in Nat /\ Len(Append(l, OpEntry(i))) = Len(l) + 1
      /\ \A n \in 1 .. Len(l) : Append(l, OpEntry(i))[n] = l[n]
      /\ Append(l, OpEntry(i))[Len(l) + 1] = OpEntry(i)
  BY <1>1, AppendProperties, LenProperties
<1>3. OpEntry(i).Data = <<i>>
  BY DEF OpEntry
<1>4. i \in ChunksIn(<<i>>)
  BY DEF ChunksIn
<1> QED
  BY <1>2, <1>3, <1>4 DEF InLog

(* A write of an existing file adds its chunk to the data and the log, and *)
(* one that fails removes nothing.                                         *)
LEMMA WriteAdds ==
  ASSUME TypeOK, FilesThere, NEW i \in Ops, IsWrite(i), NEW r \in Replicas,
         WriteOK(i, r) \/ WriteRefused(i, r) \/ WriteError(i, r), NEW s \in Replicas
  PROVE  /\ ChunksIn(data[s]) \subseteq ChunksIn(data'[s])
         /\ \A c : InLog(c, log[s]) => InLog(c, log'[s])
         /\ WriteOK(i, r) => i \in ChunksIn(data'[r]) /\ InLog(i, log'[r])
<1>1. i \in Chunks /\ data[r] \in Seq(Chunks) /\ log[r] \in Seq(Entry)
  BY ConstantTypes DEF TypeOK
<1>2. ChunksIn(Append(data[r], i)) = ChunksIn(data[r]) \cup {i}
  BY <1>1, ChunksInAppend
<1>3. CASE WriteOK(i, r)
  <2>1. /\ data' = [data EXCEPT ![r] = Append(data[r], i)]
        /\ log' = [log EXCEPT ![r] = Append(log[r], OpEntry(i))]
    BY <1>3 DEF WriteOK, CanWrite, SetFiles, FilesThere
  <2>2. /\ data'[r] = Append(data[r], i) /\ log'[r] = Append(log[r], OpEntry(i))
        /\ s # r => data'[s] = data[s] /\ log'[s] = log[s]
    BY <2>1 DEF TypeOK
  <2> QED
    BY <1>1, <1>2, <2>2, InLogAppend
<1>4. CASE WriteRefused(i, r) /\ ~WriteOK(i, r)
  BY <1>4 DEF WriteRefused, disk
<1>5. CASE WriteError(i, r) /\ ~WriteOK(i, r)
  <2>1. /\ data' = data \/ data' = [data EXCEPT ![r] = Append(data[r], i)]
        /\ log' = log
    BY <1>5 DEF WriteError, CanWrite, FilesThere
  <2>2. data'[s] = data[s] \/ (s = r /\ data'[s] = Append(data[s], i))
    BY <2>1 DEF TypeOK
  <2> QED
    BY <1>2, <1>5, <2>1, <2>2
<1> QED
  BY <1>3, <1>4, <1>5

(* Without a failed merge call a step only adds to the files of a replica, *)
(* or replaces them by the content of a merge.                             *)
LEMMA DataStep ==
  ASSUME TypeOK, CallInv, CreateInv, Created, FilesThere, [Next]_vars, mergeFails' = 0,
         NEW s \in Replicas
  PROVE  \/ /\ ChunksIn(data[s]) \subseteq ChunksIn(data'[s])
            /\ \A c : InLog(c, log[s]) => InLog(c, log'[s])
         \/ \E i \in Ops : /\ op[i].kind = "merge" /\ op[i].pc = "reconcile"
                           /\ data'[s] = op[i].final /\ log'[s] = <<MergedEntry(i)>>
<1> DEFINE Grows == /\ ChunksIn(data[s]) \subseteq ChunksIn(data'[s])
                    /\ \A c : InLog(c, log[s]) => InLog(c, log'[s])
           Merged(i) == /\ op[i].kind = "merge" /\ op[i].pc = "reconcile"
                        /\ data'[s] = op[i].final /\ log'[s] = <<MergedEntry(i)>>
<1>0. \A i \in Ops : op[i].at \in Replicas
  BY DEF TypeOK, OpRec
<1>1. UNCHANGED disk => Grows
  BY DEF disk
<1>2. ASSUME NEW i \in Ops, LocalWrite(i) \/ LocalWriteFails(i) PROVE Grows
  BY <1>0, <1>2, LocalWriteOp, LocalWriteFailsOp, WriteAdds
<1>3. ASSUME NEW i \in Ops, NEW r \in Replicas,
             FanOut(i, r) \/ FanOutFails(i, r) \/ FanOutLate(i, r)
      PROVE  Grows
  <2>1. IsWrite(i)
    BY <1>3, FanOutOp, FanOutFailsOp, FanOutLateOp DEF CallInv
  <2>2. UNCHANGED disk \/ WriteOK(i, r) \/ WriteRefused(i, r) \/ WriteError(i, r)
    BY <1>3, FanOutOp, FanOutFailsOp, FanOutLateOp
  <2>3. CASE WriteOK(i, r) \/ WriteRefused(i, r) \/ WriteError(i, r)
    BY <2>1, <2>3, WriteAdds
  <2> QED
    BY <1>1, <2>2, <2>3
<1>4. ASSUME NEW i \in Ops, WriteDone(i) PROVE Grows
  <2>1. ~PastPrimary(i)
    BY DEF CreateInv
  <2>2. UNCHANGED disk
    BY <1>4, <2>1, WriteDoneOp DEF PastPrimary
  <2> QED
    BY <1>1, <2>2
<1>5. ASSUME NEW i \in Ops, NEW r \in Replicas, Reconcile(i, r) PROVE Grows \/ Merged(i)
  <2>1. op[i].kind = "merge" /\ op[i].pc = "reconcile"
    BY <1>5, ReconcileMoves DEF CallInv
  <2>2. SetFiles(r, op[i].final, <<MergedEntry(i)>>)
    BY <1>5, ReconcileOp DEF MergedEntry
  <2>3. \/ data'[s] = op[i].final /\ log'[s] = <<MergedEntry(i)>>
        \/ data'[s] = data[s] /\ log'[s] = log[s]
    BY <2>2 DEF SetFiles, TypeOK
  <2> QED
    BY <2>1, <2>3
<1>6. ASSUME NEW i \in Ops, NEW r \in Replicas PROVE ~PollFails(i, r) /\ ~ReconcileFails(i, r)
  <2>1. mergeFails + 1 # 0
    BY ConstantTypes DEF TypeOK
  <2> QED
    BY <2>1, PollFailsOp, ReconcileFailsOp
<1>7. ASSUME NEW i \in Ops,
             \/ Begin(i) \/ MergeLock(i) \/ MergeBuild(i) \/ MergeDone(i) \/ Get(i) \/ GetFails(i)
      PROVE  UNCHANGED disk
  BY <1>7, BeginOp, MergeLockOp, MergeBuildOp, MergeDoneOp, GetOp
<1>8. ASSUME NEW i \in Ops, NEW r \in Replicas, Poll(i, r) PROVE UNCHANGED disk
  BY <1>8, PollMoves
<1>9. UNCHANGED vars => UNCHANGED disk
  BY DEF vars
<1> QED
  BY <1>1, <1>2, <1>3, <1>4, <1>5, <1>6, <1>7, <1>8, <1>9, Steps

(* A write passes a replica only by being written there, with its lock.    *)
LEMMA AppliedStep ==
  ASSUME TypeOK, CallInv, FilesThere, [Next]_vars, NEW s \in Replicas, NEW c \in Applied(s)'
  PROVE  \/ c \in Applied(s)
         \/ /\ c \in Ops /\ lock[s] = 0
            /\ c \in ChunksIn(data'[s]) /\ InLog(c, log'[s])
<1> DEFINE New == lock[s] = 0 /\ c \in ChunksIn(data'[s]) /\ InLog(c, log'[s])
<1> SUFFICES ASSUME c \in Ops, Passed(c, s)', ~Passed(c, s) PROVE New
  BY DEF Applied
<1>0. op[c].at \in Replicas /\ op[c].call \in [Replicas -> CallStates]
  BY DEF TypeOK, OpRec, CallStates
<1> USE DEF Passed, IsWrite
<1>1. CASE Begin(c)
  BY <1>1, BeginOp DEF OpBecomes
<1>2. CASE LocalWrite(c)
  <2>1. /\ IsWrite(c) /\ WriteOK(c, op[c].at)
        /\ OpBecomes(c, op[c].kind, "fanout", op[c].at, FanOutCalls(op[c].at),
                     op[c].logs, op[c].final, op[c].seen, op[c].quiet)
    BY <1>2, LocalWriteOp DEF OpBecomes, PcBecomes
  <2>2. op[c].at = s
    BY <2>1 DEF OpBecomes, FanOutCalls
  <2>3. lock[op[c].at] = 0
    BY <2>1 DEF WriteOK
  <2>4. c \in ChunksIn(data'[op[c].at]) /\ InLog(c, log'[op[c].at])
    BY <1>0, <2>1, WriteAdds
  <2> QED
    BY <2>2, <2>3, <2>4
<1>3. CASE LocalWriteFails(c)
  BY <1>3, LocalWriteFailsOp DEF OpBecomes, PcBecomes
<1>4. CASE WriteDone(c)
  BY <1>4, WriteDoneOp DEF OpBecomes, PcBecomes
<1>5. CASE MergeLock(c) \/ MergeBuild(c) \/ MergeDone(c) \/ Get(c) \/ GetFails(c)
  <2>1. op[c].kind \in {"merge", "get"}
    BY <1>5, MergeLockOp, MergeBuildOp, MergeDoneOp, GetOp DEF CallInv
  <2>2. op[c].pc # "idle"
    BY <1>5, MergeLockOp, MergeBuildOp, MergeDoneOp, GetOp
  <2> QED
    BY <2>1, <2>2, CallsStable DEF Stable
<1>6. ASSUME NEW r \in Replicas, FanOut(c, r) PROVE New
  <2>1. IsWrite(c) /\ op[c].pc = "fanout"
    BY <1>6, FanOutOp DEF CallInv
  <2>2. CASE WriteOK(c, r) /\ CallBecomes(c, r, "ok")
    <3>1. op'[c].call = [op[c].call EXCEPT ![r] = "ok"] /\ op'[c].kind = op[c].kind
      BY <2>2 DEF CallBecomes, OpBecomes
    <3>2. r = s
      BY <1>0, <2>1, <3>1
    <3>3. lock[r] = 0
      BY <2>2 DEF WriteOK
    <3>4. c \in ChunksIn(data'[r]) /\ InLog(c, log'[r])
      BY <2>1, <2>2, WriteAdds
    <3> QED
      BY <3>2, <3>3, <3>4
  <2>3. CASE CallBecomes(c, r, "failed")
    <3>1. op'[c].call = [op[c].call EXCEPT ![r] = "failed"]
      BY <2>3 DEF CallBecomes, OpBecomes
    <3> QED
      BY <1>0, <2>1, <3>1
  <2> QED
    BY <1>6, <2>2, <2>3, FanOutOp
<1>7. ASSUME NEW r \in Replicas, FanOutFails(c, r) \/ FanOutLate(c, r) PROVE New
  <2>1. PICK v \in {"failed", "late"} : CallBecomes(c, r, v)
    BY <1>7, FanOutFailsOp, FanOutLateOp
  <2>2. /\ op'[c].call = [op[c].call EXCEPT ![r] = v]
        /\ op'[c].kind = op[c].kind /\ op'[c].pc = op[c].pc
    BY <2>1 DEF CallBecomes, OpBecomes
  <2> QED
    BY <1>0, <2>2
<1>8. ASSUME NEW r \in Replicas,
             Poll(c, r) \/ PollFails(c, r) \/ Reconcile(c, r) \/ ReconcileFails(c, r)
      PROVE  New
  <2>1. op[c].kind = "merge" /\ op'[c].kind = op[c].kind
    BY <1>8, PollMoves, ReconcileMoves DEF CallInv, Moves
  <2> QED
    BY <2>1
<1>9. CASE op'[c] = op[c]
  BY <1>9
<1> QED
  BY <1>1, <1>2, <1>3, <1>4, <1>5, <1>6, <1>7, <1>8, <1>9, OwnStep

(* As long as no merge call has failed, none is failing.                   *)
LEMMA FailsStep ==
  ASSUME TypeOK, [Next]_vars, mergeFails' = 0
  PROVE  /\ mergeFails = 0
         /\ \A i \in Ops, r \in Replicas : ~PollFails(i, r) /\ ~ReconcileFails(i, r)
<1>1. mergeFails + 1 # 0
  BY ConstantTypes DEF TypeOK
<1>2. ASSUME NEW i \in Ops,
             \/ Begin(i) \/ LocalWrite(i) \/ LocalWriteFails(i) \/ WriteDone(i)
             \/ MergeLock(i) \/ MergeBuild(i) \/ MergeDone(i) \/ Get(i) \/ GetFails(i)
      PROVE  UNCHANGED mergeFails
  BY <1>2, BeginOp, LocalWriteOp, LocalWriteFailsOp, WriteDoneOp, MergeLockOp,
     MergeBuildOp, MergeDoneOp, GetOp
<1>3. ASSUME NEW i \in Ops, NEW r \in Replicas,
             \/ FanOut(i, r) \/ FanOutFails(i, r) \/ FanOutLate(i, r)
             \/ Poll(i, r) \/ Reconcile(i, r)
      PROVE  UNCHANGED mergeFails
  BY <1>3, FanOutOp, FanOutFailsOp, FanOutLateOp, PollOp, ReconcileOp
<1>4. ASSUME NEW i \in Ops, NEW r \in Replicas
      PROVE  ~PollFails(i, r) /\ ~ReconcileFails(i, r)
  BY <1>1, PollFailsOp, ReconcileFailsOp
<1>5. UNCHANGED vars => UNCHANGED mergeFails
  BY DEF vars
<1> QED
  BY <1>2, <1>3, <1>4, <1>5, Steps

(* How a merge comes to poll, and to reconcile.                            *)
LEMMA MergeStep ==
  ASSUME TypeOK, CallInv, [Next]_vars, mergeFails' = 0, NEW m \in Ops
  PROVE  /\ op'[m].pc = "poll" =>
              \/ op'[m].call = SentCalls
              \/ op[m].pc = "poll" /\ op'[m].call = op[m].call /\ op'[m].logs = op[m].logs
              \/ \E r \in Replicas : op[m].pc = "poll" /\ Poll(m, r)
         /\ op'[m].pc = "reconcile" =>
              \/ op[m].pc = "reconcile" /\ op'[m].final = op[m].final
              \/ MergeBuild(m)
<1> USE DEF OpBecomes, PcBecomes
<1>1. CASE Begin(m)
  BY <1>1, BeginOp
<1>2. CASE LocalWrite(m) \/ LocalWriteFails(m) \/ WriteDone(m)
  BY <1>2, LocalWriteOp, LocalWriteFailsOp, WriteDoneOp
<1>3. CASE MergeLock(m)
  BY <1>3, MergeLockOp
<1>4. CASE MergeBuild(m)
  BY <1>4, MergeBuildOp
<1>5. CASE MergeDone(m) \/ Get(m) \/ GetFails(m)
  BY <1>5, MergeDoneOp, GetOp
<1>6. CASE \E r \in Replicas : FanOut(m, r) \/ FanOutFails(m, r) \/ FanOutLate(m, r)
  BY <1>6, FanOutMoves
<1>7. CASE \E r \in Replicas : Poll(m, r)
  BY <1>7, PollMoves DEF Moves
<1>8. CASE \E r \in Replicas : Reconcile(m, r)
  BY <1>8, ReconcileOp DEF CallBecomes
<1>9. CASE op'[m] = op[m]
  BY <1>9
<1> QED
  BY <1>1, <1>2, <1>3, <1>4, <1>5, <1>6, <1>7, <1>8, <1>9, OwnStep, FailsStep

(* The inductive invariant, as long as no call of a merge failed.  What    *)
(* passed replica 1 is in its data and its log, hence in the log that a    *)
(* merge reads there, hence in the file that the merge builds and sends to *)
(* everyone; nothing passes replica 1 while a merge holds its lock.        *)
AtPrimary == \A c \in Applied(1) : c \in ChunksIn(data[1]) /\ InLog(c, log[1])

InPolls ==
  \A m \in Ops : op[m].pc = "poll" =>
    /\ \A r \in Replicas : op[m].call[r] # "error"
    /\ op[m].call[1] # "sent" =>
         op[m].call[1] = "ok" /\ \A c \in Applied(1) : InLog(c, op[m].logs[1])

InMerges ==
  \A m \in Ops : op[m].pc = "reconcile" => \A c \in Applied(1) : c \in ChunksIn(op[m].final)

AllAnswered ==
  \A i \in Ops : IsWrite(i) /\ op[i].pc = "ok" => \A r \in Replicas : op[i].call[r] = "ok"

(* Holds when every write passes replica 1 first.                          *)
AtReplicas == \A r \in Replicas : \A c \in Applied(r) : c \in ChunksIn(data[r])

AckInv ==
  mergeFails = 0 =>
    /\ AtPrimary /\ InPolls /\ InMerges /\ AllAnswered
    /\ AnyPrimary = FALSE => AtReplicas

(* AckInv holds initially.                                                 *)
LEMMA AckInvInit == ASSUME Created, Init PROVE AckInv
<1>1. \A r : Applied(r) = {0}
  BY DEF Init, Idle, Applied, Passed, IsWrite
<1>2. \A r \in Replicas : data[r] = <<0>> /\ log[r] = <<OpEntry(0)>>
  BY DEF Init
<1>3. 0 \in ChunksIn(<<0>>)
  BY DEF ChunksIn
<1>4. InLog(0, <<OpEntry(0)>>)
  BY <1>3 DEF InLog, OpEntry
<1>5. \A i \in Ops : op[i].pc = "idle"
  BY DEF Init, Idle
<1> QED
  BY <1>1, <1>2, <1>3, <1>4, <1>5, ConstantTypes
     DEF AckInv, AtPrimary, InPolls, InMerges, AllAnswered, AtReplicas

(* Every step keeps AckInv.                                                *)
LEMMA AckInvNext ==
  ASSUME Created, TypeOK, CallInv, CreateInv, LockInv, CanonicalInv, ShortLines,
         AckInv, [Next]_vars
  PROVE  AckInv'
<1> SUFFICES ASSUME mergeFails' = 0
             PROVE  (/\ AtPrimary /\ InPolls /\ InMerges /\ AllAnswered
                     /\ AnyPrimary = FALSE => AtReplicas)'
  BY DEF AckInv
<1>0. /\ mergeFails = 0 /\ FilesThere /\ 1 \in Replicas /\ 0 \notin Ops
      /\ AtPrimary /\ InPolls /\ InMerges /\ AllAnswered
      /\ AnyPrimary = FALSE => AtReplicas
  BY FailsStep, ConstantTypes DEF AckInv, LockInv
<1>1. AtPrimary'
  <2> SUFFICES ASSUME NEW c \in Applied(1)'
               PROVE  c \in ChunksIn(data'[1]) /\ InLog(c, log'[1])
    BY DEF AtPrimary
  <2>1. CASE c \in Applied(1)
    <3>1. ASSUME NEW i \in Ops, op[i].pc = "reconcile", data'[1] = op[i].final,
                 log'[1] = <<MergedEntry(i)>>
          PROVE  c \in ChunksIn(data'[1]) /\ InLog(c, log'[1])
      <4>1. c \in ChunksIn(op[i].final)
        BY <1>0, <2>1, <3>1 DEF InMerges
      <4>2. Len(<<MergedEntry(i)>>) = 1 /\ <<MergedEntry(i)>>[1].Data = op[i].final
        BY DEF MergedEntry
      <4> QED
        BY <3>1, <4>1, <4>2 DEF InLog
    <3> QED
      BY <1>0, <2>1, <3>1, DataStep DEF AtPrimary
  <2> QED
    BY <1>0, <2>1, AppliedStep
(* While a merge is between poll and reply nothing passes replica 1.       *)
<1>2. ASSUME NEW m \in Ops, op[m].pc \in {"poll", "reconcile"}
      PROVE  Applied(1)' \subseteq Applied(1)
  <2>1. lock[1] # 0
    BY <1>0, <1>2 DEF CallInv
  <2> QED
    BY <1>0, <2>1, AppliedStep
<1>3. InPolls'
  <2> SUFFICES ASSUME NEW m \in Ops, op'[m].pc = "poll"
               PROVE  /\ \A r \in Replicas : op'[m].call[r] # "error"
                      /\ op'[m].call[1] # "sent" =>
                           /\ op'[m].call[1] = "ok"
                           /\ \A c \in Applied(1)' : InLog(c, op'[m].logs[1])
    BY DEF InPolls
  <2>1. CASE op'[m].call = SentCalls
    BY <1>0, <2>1 DEF SentCalls
  <2>2. CASE op[m].pc = "poll" /\ op'[m].call = op[m].call /\ op'[m].logs = op[m].logs
    BY <1>0, <1>2, <2>2 DEF InPolls
  <2>3. ASSUME NEW r \in Replicas, op[m].pc = "poll", Poll(m, r)
        PROVE  /\ \A s \in Replicas : op'[m].call[s] # "error"
               /\ op'[m].call[1] # "sent" =>
                    /\ op'[m].call[1] = "ok"
                    /\ \A c \in Applied(1)' : InLog(c, op'[m].logs[1])
    <3>1. /\ op'[m].call = [op[m].call EXCEPT ![r] = "ok"]
          /\ op'[m].logs = [op[m].logs EXCEPT ![r] = ScanLog(log[r])]
      BY <1>0, <2>3, PollOp DEF FilesThere, OpBecomes
    <3>2. /\ op[m].call \in [Replicas -> CallStates]
          /\ op[m].logs \in [Replicas -> Seq(Entry)]
      BY DEF TypeOK, OpRec, CallStates
    <3>3. ScanLog(log[r]) = log[r]
      BY ScanLogType DEF ShortLines, TypeOK
    <3>4. \A s \in Replicas : op'[m].call[s] # "error"
      BY <1>0, <2>3, <3>1, <3>2 DEF InPolls
    <3>5. CASE r = 1
      <4>1. op'[m].call[1] = "ok" /\ op'[m].logs[1] = log[1]
        BY <3>1, <3>2, <3>3, <3>5
      <4> QED
        BY <1>0, <1>2, <2>3, <3>4, <4>1 DEF AtPrimary
    <3>6. CASE r # 1
      <4>1. op'[m].call[1] = op[m].call[1] /\ op'[m].logs[1] = op[m].logs[1]
        BY <1>0, <3>1, <3>2, <3>6
      <4> QED
        BY <1>0, <1>2, <2>3, <3>4, <4>1 DEF InPolls
    <3> QED
      BY <3>5, <3>6
  <2> QED
    BY <2>1, <2>2, <2>3, MergeStep
<1>4. InMerges'
  <2> SUFFICES ASSUME NEW m \in Ops, op'[m].pc = "reconcile", NEW c \in Applied(1)'
               PROVE  c \in ChunksIn(op'[m].final)
    BY DEF InMerges
  <2>1. CASE op[m].pc = "reconcile" /\ op'[m].final = op[m].final
    BY <1>0, <1>2, <2>1 DEF InMerges
  <2>2. CASE MergeBuild(m)
    <3> DEFINE received == {r \in Replicas : op[m].call[r] = "ok"}
    <3>1. op[m].pc = "poll" /\ \A r \in Replicas : op[m].call[r] \notin {"sent", "error"}
      BY <1>0, <2>2, MergeBuildOp DEF InPolls
    <3>2. op'[m].final = SortedData(Entries(m, received))
      BY <2>2, <3>1, MergeBuildOp DEF OpBecomes
    <3>3. 1 \in received /\ InLog(c, op[m].logs[1])
      BY <1>0, <1>2, <3>1 DEF InPolls
    <3>4. PICK n \in 1 .. Len(op[m].logs[1]) : c \in ChunksIn(op[m].logs[1][n].Data)
      BY <3>3 DEF InLog
    <3>5. op[m].logs[1][n] \in Entries(m, received)
      BY <3>3 DEF Entries
    <3>6. Entries(m, received) \in SUBSET Entry /\ Functional(Entries(m, received))
      BY EntriesType, EntriesFunctional
    <3> QED
      BY <3>2, <3>4, <3>5, <3>6, SortedDataChunks
  <2> QED
    BY <2>1, <2>2, MergeStep
<1>5. AllAnswered'
  <2> SUFFICES ASSUME NEW i \in Ops, IsWrite(i)', op'[i].pc = "ok"
               PROVE  \A r \in Replicas : op'[i].call[r] = "ok"
    BY DEF AllAnswered
  <2> USE DEF OpBecomes, PcBecomes, IsWrite
  <2>1. CASE Begin(i)
    BY <2>1, BeginOp
  <2>2. CASE LocalWrite(i) \/ LocalWriteFails(i)
    BY <2>2, LocalWriteOp, LocalWriteFailsOp
  <2>3. CASE WriteDone(i)
    BY <2>3, WriteDoneOp
  <2>4. CASE MergeLock(i) \/ MergeBuild(i) \/ MergeDone(i) \/ Get(i) \/ GetFails(i)
    <3>1. op[i].kind \in {"merge", "get"} /\ op[i].pc # "idle"
      BY <2>4, MergeLockOp, MergeBuildOp, MergeDoneOp, GetOp DEF CallInv
    <3> QED
      BY <3>1, CallsStable DEF Stable
  <2>5. CASE \E r \in Replicas : FanOut(i, r) \/ FanOutFails(i, r) \/ FanOutLate(i, r)
    BY <2>5, FanOutMoves
  <2>6. CASE \E r \in Replicas : \/ Poll(i, r) \/ PollFails(i, r) \/ Reconcile(i, r)
                                 \/ ReconcileFails(i, r)
    BY <2>6, PollMoves, ReconcileMoves DEF Moves
  <2>7. CASE op'[i] = op[i]
    BY <1>0, <2>7 DEF AllAnswered
  <2> QED
    BY <2>1, <2>2, <2>3, <2>4, <2>5, <2>6, <2>7, OwnStep
<1>6. ASSUME AnyPrimary = FALSE PROVE AtReplicas'
  <2> SUFFICES ASSUME NEW r \in Replicas, NEW c \in Applied(r)' PROVE c \in ChunksIn(data'[r])
    BY DEF AtReplicas
  <2>1. CASE c \in Applied(r)
    <3>1. c \in Applied(1)
      <4>1. CASE c = 0
        BY <4>1 DEF Applied
      <4>2. CASE c \in Ops /\ Passed(c, r)
        <5>1. op[c].pc = "fanout" => op[c].call[1] = "ok"
          BY <1>6, <4>2 DEF CallInv, IsWrite
        <5>2. op[c].pc = "ok" => op[c].call[1] = "ok"
          BY <1>0, <4>2 DEF AllAnswered, Passed
        <5> QED
          BY <4>2, <5>1, <5>2 DEF Passed, Applied
      <4> QED
        BY <2>1, <4>1, <4>2 DEF Applied
    <3>2. ASSUME NEW i \in Ops, op[i].pc = "reconcile", data'[r] = op[i].final
          PROVE  c \in ChunksIn(data'[r])
      BY <1>0, <3>1, <3>2 DEF InMerges
    <3>3. c \in ChunksIn(data[r])
      BY <1>0, <1>6, <2>1 DEF AtReplicas
    <3> QED
      BY <1>0, <3>2, <3>3, DataStep
  <2> QED
    BY <1>0, <2>1, AppliedStep
<1> QED
  BY <1>1, <1>3, <1>4, <1>5, <1>6

-----------------------------------------------------------------------------
(* A chunk that was acknowledged was applied at every replica.             *)
LEMMA AckedApplied ==
  ASSUME Created, TypeOK, AllAnswered, NEW r \in Replicas
  PROVE  AckedChunks \subseteq Applied(r)
BY DEF AckedChunks, AllAnswered, Applied, Passed

(* AckInv implies what the invariants say of acknowledged chunks.          *)
LEMMA AckInvImplies ==
  ASSUME Created, TypeOK, AckInv
  PROVE  /\ AckedAtPrimary
         /\ AnyPrimary = FALSE => (mergeFails = 0 => AckedEverywhere)
<1>1. ASSUME mergeFails = 0
      PROVE  /\ AckedChunks \subseteq ChunksIn(data[1])
             /\ AnyPrimary = FALSE => AckedEverywhere
  BY <1>1, AckedApplied, ConstantTypes DEF AckInv, AtPrimary, AtReplicas, AckedEverywhere
<1> QED
  BY <1>1 DEF AckedAtPrimary

FileInv == TypeOK /\ CallInv /\ CreateInv /\ LockInv /\ CanonicalInv /\ AckInv

(* FileInv holds initially.                                                *)
LEMMA FileInvInit == ASSUME Created, Init PROVE FileInv
BY InitType, CallInvInit, CreateInvInit, LockInvInit, CanonicalInit, AckInvInit DEF FileInv

(* Every step keeps FileInv.                                               *)
LEMMA FileInvNext == ASSUME Created, FileInv, ShortLines, [Next]_vars PROVE FileInv'
BY NextType, CallInvNext, CreateInvNext, LockInvNext, CanonicalNext, AckInvNext DEF FileInv

(* Of a file that exists, replica 1 has every acknowledged write, whatever *)
(* replica multiappend sent it to, whatever writes failed and whatever     *)
(* merges run beside it, until a call of a merge fails, and as long as the *)
(* lines of the operation logs fit the buffer of bufio.Scanner.            *)
THEOREM PrimaryKeepsAcked ==
  ASSUME Created PROVE Spec /\ []ShortLines => []AckedAtPrimary
<1>1. Init => FileInv
  BY FileInvInit
<1>2. FileInv /\ ShortLines /\ [Next]_vars => FileInv'
  BY FileInvNext
<1>3. FileInv => AckedAtPrimary
  BY AckInvImplies DEF FileInv
<1> QED
  BY <1>1, <1>2, <1>3, PTL DEF Spec

(* When every write starts at replica 1, all replicas have it.             *)
THEOREM AckedIsEverywhere ==
  ASSUME Created, AnyPrimary = FALSE
  PROVE  Spec /\ []ShortLines => [](mergeFails = 0 => AckedEverywhere)
<1>1. Init => FileInv
  BY FileInvInit
<1>2. FileInv /\ ShortLines /\ [Next]_vars => FileInv'
  BY FileInvNext
<1>3. FileInv => (mergeFails = 0 => AckedEverywhere)
  BY AckInvImplies DEF FileInv
<1> QED
  BY <1>1, <1>2, <1>3, PTL DEF Spec

-----------------------------------------------------------------------------
(* Gets.                                                                   *)

GetInv ==
  /\ \A i \in Ops : op[i].seen \subseteq AckedChunks
  /\ mergeFails = 0 => GetReturnsAcked

(* GetInv holds initially.                                                 *)
LEMMA GetInvInit == ASSUME Init PROVE GetInv
BY DEF Init, Idle, GetInv, GetReturnsAcked

(* An acknowledged chunk stays acknowledged.                               *)
LEMMA AckedGrows ==
  ASSUME TypeOK, CallInv, [Next]_vars
  PROVE  AckedChunks \subseteq AckedChunks'
<1>1. ASSUME NEW i \in Ops, IsWrite(i), op[i].pc = "ok" PROVE IsWrite(i)' /\ op'[i].pc = "ok"
  BY <1>1, CallsStable DEF Stable, IsWrite
<1> QED
  BY <1>1 DEF AckedChunks

(* Every step keeps GetInv.                                                *)
LEMMA GetInvNext ==
  ASSUME Created, AnyPrimary = FALSE, TypeOK, CallInv, AckInv, GetInv, [Next]_vars
  PROVE  GetInv'
<1>1. ASSUME NEW i \in Ops PROVE op'[i].seen \subseteq AckedChunks'
  <2>1. CASE op[i].pc # "idle"
    BY <2>1, CallsStable, AckedGrows DEF Stable, GetInv
  <2>2. CASE Begin(i)
    BY <2>2, BeginOp, AckedGrows DEF OpBecomes
  <2>3. CASE op'[i] = op[i]
    BY <2>3, AckedGrows DEF GetInv
  <2>4. ASSUME op[i].pc = "idle" PROVE Begin(i) \/ op'[i] = op[i]
    BY <2>4, OwnStep, LocalWriteOp, LocalWriteFailsOp, WriteDoneOp, MergeLockOp,
       MergeBuildOp, MergeDoneOp, GetOp, FanOutMoves, PollMoves, ReconcileMoves
  <2> QED
    BY <2>1, <2>2, <2>3, <2>4
<1>2. ASSUME mergeFails' = 0, NEW i \in Ops, op'[i].kind = "get", op'[i].pc = "ok"
      PROVE  op'[i].seen \subseteq ChunksIn(op'[i].final)
  <2>0. mergeFails = 0
    BY <1>2, FailsStep
  <2>1. CASE op'[i] = op[i]
    BY <1>2, <2>0, <2>1 DEF GetInv, GetReturnsAcked
  <2>2. CASE Get(i) \/ GetFails(i)
    <3>1. op'[i].final = data[op[i].at] /\ op'[i].seen = op[i].seen
      BY <1>2, <2>2, GetOp DEF OpBecomes, PcBecomes
    <3>2. op[i].at \in Replicas
      BY DEF TypeOK, OpRec
    <3>3. AckedEverywhere
      BY <2>0, AckInvImplies
    <3> QED
      BY <3>1, <3>2, <3>3 DEF GetInv, AckedEverywhere
  <2> USE DEF OpBecomes, PcBecomes, IsWrite
  <2>3. CASE Begin(i)
    BY <1>2, <2>3, BeginOp
  <2>4. CASE LocalWrite(i) \/ LocalWriteFails(i)
    BY <1>2, <2>4, LocalWriteOp, LocalWriteFailsOp
  <2>5. CASE MergeLock(i) \/ MergeBuild(i) \/ MergeDone(i) \/ WriteDone(i)
    <3>1. op[i].pc \in {"local", "poll", "reconcile", "fanout"} /\ op[i].kind # "get"
      BY <2>5, MergeLockOp, MergeBuildOp, MergeDoneOp, WriteDoneOp DEF CallInv
    <3> QED
      BY <1>2, <3>1, CallsStable DEF Stable
  <2>6. CASE \E r \in Replicas : FanOut(i, r) \/ FanOutFails(i, r) \/ FanOutLate(i, r)
    BY <1>2, <2>6, FanOutMoves DEF IsWrite
  <2>7. CASE \E r \in Replicas : \/ Poll(i, r) \/ PollFails(i, r) \/ Reconcile(i, r)
                                 \/ ReconcileFails(i, r)
    BY <1>2, <2>7, PollMoves, ReconcileMoves DEF Moves
  <2> QED
    BY <2>1, <2>2, <2>3, <2>4, <2>5, <2>6, <2>7, OwnStep
<1> QED
  BY <1>1, <1>2 DEF GetInv, GetReturnsAcked

(* A get that returns the file returns every write that was acknowledged   *)
(* before the get was issued, whichever replica answers it.                *)
THEOREM GetsReturnAcked ==
  ASSUME Created, AnyPrimary = FALSE
  PROVE  Spec /\ []ShortLines => [](mergeFails = 0 => GetReturnsAcked)
<1>1. Init => FileInv /\ GetInv
  BY FileInvInit, GetInvInit
<1>2. FileInv /\ GetInv /\ ShortLines /\ [Next]_vars => (FileInv /\ GetInv)'
  BY FileInvNext, GetInvNext DEF FileInv
<1>3. GetInv => (mergeFails = 0 => GetReturnsAcked)
  BY DEF GetInv
<1> QED
  BY <1>1, <1>2, <1>3, PTL DEF Spec

-----------------------------------------------------------------------------
(* Sequences without repetitions.                                          *)

Distinct(s) == \A a, b \in 1 .. Len(s) : s[a] = s[b] => a = b

(* A file without duplicates has as many chunks as positions.              *)
LEMMA DistinctCardinality ==
  ASSUME NEW s \in Seq(Chunks), Distinct(s)
  PROVE  Cardinality(ChunksIn(s)) = Len(s)
<1>1. Len(s) \in Nat /\ s \in [1 .. Len(s) -> ChunksIn(s)]
  BY LenProperties DEF ChunksIn
<1>2. s \in Bijection(1 .. Len(s), ChunksIn(s))
  BY <1>1 DEF Distinct, Bijection, Injection, Surjection, IsInjective, ChunksIn
<1>3. ExistsBijection(1 .. Len(s), ChunksIn(s))
  BY <1>2 DEF ExistsBijection
<1> QED
  BY <1>1, <1>3, FS_CountingElements

(* Appending a chunk that is not there makes no duplicate.                 *)
LEMMA DistinctAppend ==
  ASSUME NEW s \in Seq(Chunks), NEW i \in Chunks, Distinct(s), i \notin ChunksIn(s)
  PROVE  Distinct(Append(s, i))
<1>1. /\ Len(s) \in Nat /\ Len(Append(s, i)) = Len(s) + 1
      /\ \A n \in 1 .. Len(s) : Append(s, i)[n] = s[n]
      /\ Append(s, i)[Len(s) + 1] = i
  BY AppendProperties, LenProperties
<1>2. \A n \in 1 .. Len(s) : s[n] # i
  BY DEF ChunksIn
<1> QED
  BY <1>1, <1>2 DEF Distinct

(* Nor does concatenating two files that share no chunk.                   *)
LEMMA DistinctConcat ==
  ASSUME NEW s \in Seq(Chunks), NEW t \in Seq(Chunks), Distinct(s), Distinct(t),
         ChunksIn(s) \cap ChunksIn(t) = {}
  PROVE  Distinct(s \o t)
<1>1. /\ Len(s) \in Nat /\ Len(t) \in Nat
      /\ Len(s \o t) = Len(s) + Len(t)
      /\ \A i \in 1 .. Len(s) + Len(t) :
           (s \o t)[i] = IF i <= Len(s) THEN s[i] ELSE t[i - Len(s)]
  BY ConcatProperties, LenProperties
<1>2. \A a \in 1 .. Len(s), b \in 1 .. Len(t) : s[a] # t[b]
  BY DEF ChunksIn
<1> SUFFICES ASSUME NEW a \in 1 .. Len(s) + Len(t), NEW b \in 1 .. Len(s) + Len(t),
                    (s \o t)[a] = (s \o t)[b]
             PROVE  a = b
  BY <1>1 DEF Distinct
<1>3. CASE a <= Len(s) /\ b <= Len(s)
  BY <1>1, <1>3 DEF Distinct
<1>4. CASE a > Len(s) /\ b > Len(s)
  <2>1. /\ a - Len(s) \in 1 .. Len(t) /\ b - Len(s) \in 1 .. Len(t)
        /\ t[a - Len(s)] = t[b - Len(s)]
    BY <1>1, <1>4
  <2>2. a - Len(s) = b - Len(s)
    BY <2>1 DEF Distinct
  <2> QED
    BY <1>1, <2>2
<1>5. CASE a <= Len(s) /\ b > Len(s)
  <2>1. a \in 1 .. Len(s) /\ b - Len(s) \in 1 .. Len(t) /\ s[a] = t[b - Len(s)]
    BY <1>1, <1>5
  <2> QED
    BY <1>2, <2>1
<1>6. CASE a > Len(s) /\ b <= Len(s)
  <2>1. b \in 1 .. Len(s) /\ a - Len(s) \in 1 .. Len(t) /\ s[b] = t[a - Len(s)]
    BY <1>1, <1>6
  <2> QED
    BY <1>2, <2>1
<1> QED
  BY <1>1, <1>3, <1>4, <1>5, <1>6

-----------------------------------------------------------------------------
(* Entries with different OpIDs have no chunk in common.                   *)
Disjoint(E) ==
  \A e \in E : /\ Distinct(e.Data)
               /\ \A g \in E : e.OpID # g.OpID => ChunksIn(e.Data) \cap ChunksIn(g.Data) = {}

(* The file that a merge builds from them has no repetition.               *)
LEMMA SortedDataDistinct ==
  ASSUME NEW E \in SUBSET Entry, Disjoint(E)
  PROVE  Distinct(SortedData(E))
<1>1. PICK f : IsFold(f, E, NumOps) /\ SortedData(E) = f[NumOps]
  BY SortedIsFold
<1>2. NumOps \in Nat
  BY HyDFSAssumption
<1> DEFINE G == {n \in -1 .. NumOps : Distinct(f[n])}
<1>3. -1 \in G
  BY <1>1, <1>2, EmptySeq DEF IsFold, Distinct
<1>4. ASSUME NEW n \in 0 .. NumOps, n - 1 \in G PROVE n \in G
  <2>1. /\ f[n] = AddTo(E, n, f[n - 1]) /\ f[n - 1] \in Seq(Chunks)
        /\ Distinct(f[n - 1]) /\ n - 1 \in -1 .. NumOps
    BY <1>1, <1>2, <1>4 DEF IsFold
  <2>2. CASE ~\E e \in E : e.OpID = n
    BY <1>2, <2>1, <2>2 DEF AddTo
  <2>3. CASE \E e \in E : e.OpID = n
    <3> DEFINE g == EntryOf(E, n)
    <3>1. f[n] = f[n - 1] \o g.Data
      BY <2>1, <2>3 DEF AddTo
    <3>2. g \in E /\ g.OpID = n /\ g.Data \in Seq(Chunks)
      BY <2>3, EntryOfType
    <3>3. ASSUME NEW c \in ChunksIn(f[n - 1]), c \in ChunksIn(g.Data) PROVE FALSE
      <4>1. PICK m \in 0 .. n - 1 : /\ \E e \in E : e.OpID = m
                                    /\ c \in ChunksIn(EntryOf(E, m).Data)
        BY <1>1, <2>1, FoldChunks
      <4>2. EntryOf(E, m) \in E /\ EntryOf(E, m).OpID = m
        BY <4>1, EntryOfType
      <4>3. m # n
        BY <1>2
      <4> QED
        BY <3>2, <3>3, <4>1, <4>2, <4>3 DEF Disjoint
    <3>4. Distinct(g.Data) /\ ChunksIn(f[n - 1]) \cap ChunksIn(g.Data) = {}
      BY <3>2, <3>3 DEF Disjoint
    <3>5. Distinct(f[n])
      BY <2>1, <3>1, <3>2, <3>4, DistinctConcat
    <3> QED
      BY <1>2, <3>5
  <2> QED
    BY <2>2, <2>3
<1> HIDE DEF G
<1>5. \A n \in -1 .. NumOps : n \in G
  BY <1>2, <1>3, <1>4, SegmentInduction
<1>6. NumOps \in -1 .. NumOps
  BY <1>2
<1> QED
  BY <1>1, <1>5, <1>6 DEF G
-----------------------------------------------------------------------------
(* The writes that a replica is done with, and those that have returned.   *)

Ended(i) == op[i].pc \in {"ok", "failed"}
Finished(i) == IsWrite(i) /\ Ended(i) /\ \A r \in Replicas : op[i].call[r] # "late"
Done(i, r) ==
  /\ IsWrite(i) /\ op[i].call[r] # "late"
  /\ Ended(i) \/ (op[i].pc = "fanout" /\ op[i].call[r] # "sent")

(* An operation that ended stays ended, and a write that was applied stays *)
(* applied.                                                                *)
LEMMA DoneStable ==
  ASSUME TypeOK, CallInv, [Next]_vars, NEW i \in Ops
  PROVE  /\ Finished(i) => Finished(i)'
         /\ \A r \in Replicas : Done(i, r) => Done(i, r)'
<1> USE DEF Done, Ended, IsWrite
<1>1. ASSUME NEW r \in Replicas, Done(i, r) PROVE Done(i, r)'
  <2>0. op[i].call \in [Replicas -> CallStates] /\ op'[i].kind = op[i].kind
    BY <1>1, CallsStable DEF TypeOK, OpRec, CallStates, Stable
  <2>1. CASE op'[i] = op[i]
    BY <1>1, <2>1
  <2>2. CASE WriteDone(i)
    BY <1>1, <2>0, <2>2, WriteDoneOp DEF PcBecomes, OpBecomes
  <2>3. ASSUME NEW s \in Replicas, FanOut(i, s) \/ FanOutFails(i, s) \/ FanOutLate(i, s)
        PROVE  Done(i, r)'
    <3>1. PICK v \in {"ok", "failed", "late"} :
                 /\ CallBecomes(i, s, v)
                 /\ v = "late" => op[i].pc = "fanout" /\ op[i].call[s] = "sent"
      BY <2>3, FanOutOp, FanOutFailsOp, FanOutLateOp
    <3>2. op'[i].call = [op[i].call EXCEPT ![s] = v] /\ op'[i].pc = op[i].pc
      BY <3>1 DEF CallBecomes, OpBecomes
    <3> QED
      BY <1>1, <2>0, <3>1, <3>2
  <2>4. ~(Begin(i) \/ LocalWrite(i) \/ LocalWriteFails(i) \/ MergeLock(i) \/ MergeBuild(i)
          \/ MergeDone(i) \/ Get(i) \/ GetFails(i))
    BY <1>1, BeginOp, LocalWriteOp, LocalWriteFailsOp, MergeLockOp, MergeBuildOp,
       MergeDoneOp, GetOp
  <2>5. \A s \in Replicas : ~(Poll(i, s) \/ PollFails(i, s) \/ Reconcile(i, s)
                              \/ ReconcileFails(i, s))
    BY <1>1, PollMoves, ReconcileMoves
  <2> QED
    BY <2>1, <2>2, <2>3, <2>4, <2>5, OwnStep
<1>2. ASSUME Finished(i) PROVE Finished(i)'
  <2>1. /\ IsWrite(i) /\ Ended(i) /\ \A r \in Replicas : Done(i, r)
    BY <1>2 DEF Finished
  <2>2. \A r \in Replicas : Done(i, r)'
    BY <1>1, <2>1
  <2>3. op'[i].kind = op[i].kind /\ op'[i].pc = op[i].pc
    BY <2>1, CallsStable DEF Stable
  <2> QED
    BY <2>1, <2>2, <2>3 DEF Finished
<1> QED
  BY <1>1, <1>2

-----------------------------------------------------------------------------
(* A merge that has not started is quiet and has polled nothing.           *)

FreshInv ==
  \A i \in Ops : op[i].pc \in {"idle", "local"} =>
    op[i].quiet /\ \A r \in Replicas : op[i].logs[r] = <<>>

AllQuiet == \A i \in Ops : op[i].quiet

(* FreshInv holds initially, and no merge has met a write.                 *)
LEMMA FreshInit == ASSUME Init PROVE FreshInv /\ AllQuiet
BY DEF Init, Idle, FreshInv, AllQuiet

(* Only MergeLock changes quiet, and only Poll changes logs.               *)
LEMMA FreshStep ==
  ASSUME TypeOK, CallInv, [Next]_vars, NEW i \in Ops
  PROVE  \/ op'[i].quiet = op[i].quiet /\ op'[i].logs = op[i].logs
         \/ op[i].pc = "local" /\ MergeLock(i) /\ op'[i].pc = "poll"
         \/ op[i].pc = "poll" /\ op'[i].pc = "poll" /\ op'[i].quiet = op[i].quiet
<1> USE DEF OpBecomes, PcBecomes
<1>1. CASE op'[i] = op[i]
  BY <1>1
<1>2. CASE Begin(i)
  BY <1>2, BeginOp
<1>3. CASE LocalWrite(i) \/ LocalWriteFails(i) \/ WriteDone(i)
  BY <1>3, LocalWriteOp, LocalWriteFailsOp, WriteDoneOp
<1>4. CASE MergeLock(i)
  BY <1>4, MergeLockOp
<1>5. CASE MergeBuild(i)
  BY <1>5, MergeBuildOp
<1>6. CASE MergeDone(i) \/ Get(i) \/ GetFails(i)
  BY <1>6, MergeDoneOp, GetOp
<1>7. CASE \E r \in Replicas : \/ FanOut(i, r) \/ FanOutFails(i, r) \/ FanOutLate(i, r)
                               \/ Reconcile(i, r) \/ ReconcileFails(i, r)
  <2>1. CASE \E r \in Replicas : FanOut(i, r) \/ FanOutFails(i, r) \/ FanOutLate(i, r)
    BY <2>1, FanOutCall
  <2>2. CASE \E r \in Replicas : Reconcile(i, r) \/ ReconcileFails(i, r)
    BY <2>2, ReconcileOp, ReconcileFailsOp DEF CallBecomes
  <2> QED
    BY <1>7, <2>1, <2>2
<1>8. CASE \E r \in Replicas : Poll(i, r) \/ PollFails(i, r)
  BY <1>8, PollOp, PollFailsOp DEF CallBecomes
<1> QED
  BY <1>1, <1>2, <1>3, <1>4, <1>5, <1>6, <1>7, <1>8, OwnStep

(* Every step keeps FreshInv; a merge that met a write is never forgotten. *)
LEMMA FreshNext ==
  ASSUME TypeOK, CallInv, FreshInv, [Next]_vars
  PROVE  FreshInv' /\ (AllQuiet' => AllQuiet)
<1>1. ASSUME NEW i \in Ops, op'[i].pc \in {"idle", "local"} PROVE op[i].pc \in {"idle", "local"}
  <2> USE <1>1 DEF OpBecomes, PcBecomes
  <2>1. CASE op'[i] = op[i]
    BY <2>1
  <2>2. CASE Begin(i) \/ LocalWrite(i) \/ LocalWriteFails(i) \/ Get(i) \/ GetFails(i)
             \/ MergeLock(i)
    BY <2>2, BeginOp, LocalWriteOp, LocalWriteFailsOp, GetOp, MergeLockOp
  <2>3. CASE WriteDone(i)
    BY <2>3, WriteDoneOp
  <2>4. CASE MergeBuild(i)
    BY <2>4, MergeBuildOp
  <2>5. CASE MergeDone(i)
    BY <2>5, MergeDoneOp
  <2>6. CASE \E r \in Replicas : FanOut(i, r) \/ FanOutFails(i, r) \/ FanOutLate(i, r)
    BY <2>6, FanOutOp, FanOutFailsOp, FanOutLateOp DEF CallBecomes, CallInv
  <2>7. CASE \E r \in Replicas : Poll(i, r) \/ PollFails(i, r)
    BY <2>7, PollMoves DEF Moves
  <2>8. CASE \E r \in Replicas : Reconcile(i, r) \/ ReconcileFails(i, r)
    BY <2>8, ReconcileMoves DEF Moves
  <2> QED
    BY <2>1, <2>2, <2>3, <2>4, <2>5, <2>6, <2>7, <2>8, OwnStep
<1>2. FreshInv'
  BY <1>1, FreshStep DEF FreshInv
<1>3. ASSUME AllQuiet', NEW i \in Ops PROVE op[i].quiet
  <2>1. op'[i].quiet
    BY <1>3 DEF AllQuiet
  <2>2. CASE op'[i].quiet = op[i].quiet
    BY <2>1, <2>2
  <2>3. CASE op[i].pc = "local"
    BY <2>3 DEF FreshInv
  <2> QED
    BY <2>2, <2>3, FreshStep
<1> QED
  BY <1>2, <1>3 DEF AllQuiet

-----------------------------------------------------------------------------
(* What a step does to the files of a replica while all merges are quiet.  *)

(* Replica r is handed write i, and no merge is between poll and reply.    *)
Wrote(i, r) ==
  /\ IsWrite(i) /\ ~Done(i, r) /\ Done(i, r)'
  /\ \A m \in Ops : op[m].pc \notin {"poll", "reconcile"}
  /\ data'[r] \in {data[r], Append(data[r], i)}
  /\ log'[r] \in {log[r], Append(log[r], OpEntry(i))}

Merged(m, r) ==
  /\ op[m].pc = "reconcile" /\ op'[m].pc = "reconcile"
  /\ data'[r] = op[m].final /\ log'[r] = <<MergedEntry(m)>>

(* A write appends its chunk and its entry to one replica, or leaves them. *)
LEMMA WriteFiles ==
  ASSUME TypeOK, FilesThere, NEW i \in Ops, IsWrite(i), NEW s \in Replicas,
         WriteOK(i, s) \/ WriteRefused(i, s) \/ WriteError(i, s), NEW r \in Replicas
  PROVE  /\ r # s => data'[r] = data[r] /\ log'[r] = log[r]
         /\ data'[s] \in {data[s], Append(data[s], i)}
         /\ log'[s] \in {log[s], Append(log[s], OpEntry(i))}
<1>1. CASE WriteOK(i, s)
  BY <1>1 DEF WriteOK, CanWrite, SetFiles, FilesThere, TypeOK
<1>2. CASE WriteRefused(i, s)
  BY <1>2 DEF WriteRefused, disk
<1>3. CASE WriteError(i, s)
  BY <1>3 DEF WriteError, CanWrite, FilesThere, TypeOK
<1> QED
  BY <1>1, <1>2, <1>3

(* What a step does to the files of a replica: nothing, one write, or one  *)
(* merge.                                                                  *)
LEMMA FilesExact ==
  ASSUME Created, AnyPrimary = FALSE, TypeOK, CallInv, CreateInv, FilesThere, MergeInv, AllQuiet,
         [Next]_vars, mergeFails' = 0, NEW r \in Replicas
  PROVE  \/ data'[r] = data[r] /\ log'[r] = log[r]
         \/ \E i \in Ops : Wrote(i, r)
         \/ \E m \in Ops : Merged(m, r)
<1> DEFINE Same == data'[r] = data[r] /\ log'[r] = log[r]
<1>0. /\ \A i \in Ops : op[i].at \in Replicas /\ op[i].call \in [Replicas -> CallStates]
      /\ 1 \in Replicas /\ 0 \notin Ops
  BY ConstantTypes DEF TypeOK, OpRec, CallStates
<1>1. UNCHANGED disk => Same
  BY DEF disk
<1>2. ASSUME NEW i \in Ops, LocalWrite(i) \/ LocalWriteFails(i) PROVE Same \/ Wrote(i, r)
  <2>1. /\ IsWrite(i) /\ op[i].pc = "local"
        /\ WriteOK(i, op[i].at) \/ WriteRefused(i, op[i].at) \/ WriteError(i, op[i].at)
    BY <1>2, LocalWriteOp, LocalWriteFailsOp
  <2>2. op[i].at = 1
    BY <2>1 DEF CallInv, IsWrite
  <2>3. lock[1] = 0
    BY <2>1, <2>2 DEF WriteOK, WriteRefused, WriteError
  <2>4. \A m \in Ops : op[m].pc \notin {"poll", "reconcile"}
    BY <1>0, <2>3 DEF CallInv
  <2>5. CASE r # 1
    BY <1>0, <2>1, <2>2, <2>5, WriteFiles
  <2>6. CASE r = 1
    <3>1. ~Done(i, 1)
      BY <2>1 DEF Done, Ended
    <3>2. Done(i, 1)'
      <4>1. CASE PcBecomes(i, "failed")
        <5>1. op[i].call[1] # "late"
          BY <1>0, <2>1 DEF CallInv
        <5> QED
          BY <2>1, <4>1, <5>1 DEF PcBecomes, OpBecomes, Done, Ended, IsWrite
      <4>2. CASE OpBecomes(i, op[i].kind, "fanout", op[i].at, FanOutCalls(op[i].at),
                           op[i].logs, op[i].final, op[i].seen, op[i].quiet)
        BY <1>0, <2>1, <2>2, <4>2 DEF OpBecomes, Done, IsWrite, FanOutCalls
      <4> QED
        BY <1>2, <4>1, <4>2, LocalWriteOp, LocalWriteFailsOp
    <3>3. data'[1] \in {data[1], Append(data[1], i)}
          /\ log'[1] \in {log[1], Append(log[1], OpEntry(i))}
      BY <1>0, <2>1, <2>2, WriteFiles
    <3> QED
      BY <2>1, <2>4, <2>6, <3>1, <3>2, <3>3 DEF Wrote
  <2> QED
    BY <2>5, <2>6
<1>3. ASSUME NEW i \in Ops, NEW s \in Replicas,
             FanOut(i, s) \/ FanOutFails(i, s) \/ FanOutLate(i, s)
      PROVE  Same \/ Wrote(i, r)
  <2>1. /\ IsWrite(i) /\ OnItsWay(i)
        /\ (op[i].pc = "fanout" /\ op[i].call[s] = "sent") \/ op[i].call[s] = "late"
    BY <1>3, FanOutOp, FanOutFailsOp, FanOutLateOp DEF CallInv, OnItsWay
  <2>2. UNCHANGED disk \/ WriteOK(i, s) \/ WriteRefused(i, s) \/ WriteError(i, s)
    BY <1>3, FanOutOp, FanOutFailsOp, FanOutLateOp
  <2>3. \A m \in Ops : op[m].pc \notin {"poll", "reconcile"}
    BY <2>1 DEF MergeInv, AllQuiet
  <2>4. CASE r = s /\ ~UNCHANGED disk
    <3>1. ~Done(i, s)
      BY <2>1 DEF Done, Ended
    <3>2. PICK v \in {"ok", "failed"} : CallBecomes(i, s, v)
      BY <1>3, <2>4, FanOutOp, FanOutFailsOp, FanOutLateOp
    <3>3. /\ op'[i].call = [op[i].call EXCEPT ![s] = v] /\ op'[i].pc = op[i].pc
          /\ op'[i].kind = op[i].kind
      BY <3>2 DEF CallBecomes, OpBecomes
    <3>4. op[i].pc \in {"fanout", "failed"}
      BY <2>1 DEF CallInv
    <3>5. Done(i, s)'
      BY <1>0, <2>1, <3>3, <3>4 DEF Done, Ended, IsWrite
    <3>6. data'[s] \in {data[s], Append(data[s], i)}
          /\ log'[s] \in {log[s], Append(log[s], OpEntry(i))}
      BY <2>1, <2>2, <2>4, WriteFiles
    <3> QED
      BY <2>1, <2>3, <2>4, <3>1, <3>5, <3>6 DEF Wrote
  <2>5. CASE r # s /\ ~UNCHANGED disk
    BY <2>1, <2>2, <2>5, WriteFiles
  <2> QED
    BY <1>1, <2>4, <2>5
<1>4. ASSUME NEW i \in Ops, WriteDone(i) PROVE Same
  <2>1. ~PastPrimary(i)
    BY DEF CreateInv
  <2>2. UNCHANGED disk
    BY <1>4, <2>1, WriteDoneOp DEF PastPrimary
  <2> QED
    BY <1>1, <2>2
<1>5. ASSUME NEW i \in Ops, NEW s \in Replicas, Reconcile(i, s) PROVE Same \/ Merged(i, r)
  <2>1. op[i].pc = "reconcile" /\ op'[i].pc = "reconcile"
    BY <1>5, ReconcileMoves DEF Moves
  <2>2. SetFiles(s, op[i].final, <<MergedEntry(i)>>)
    BY <1>5, ReconcileOp DEF MergedEntry
  <2>3. Same \/ (data'[r] = op[i].final /\ log'[r] = <<MergedEntry(i)>>)
    BY <2>2 DEF SetFiles, TypeOK
  <2> QED
    BY <2>1, <2>3 DEF Merged
<1>6. ASSUME NEW i \in Ops,
             \/ Begin(i) \/ MergeLock(i) \/ MergeBuild(i) \/ MergeDone(i) \/ Get(i) \/ GetFails(i)
      PROVE  UNCHANGED disk
  BY <1>6, BeginOp, MergeLockOp, MergeBuildOp, MergeDoneOp, GetOp
<1>7. ASSUME NEW i \in Ops, NEW s \in Replicas, Poll(i, s) PROVE UNCHANGED disk
  BY <1>7, PollMoves
<1>8. UNCHANGED vars => UNCHANGED disk
  BY DEF vars
<1> QED
  BY <1>1, <1>2, <1>3, <1>4, <1>5, <1>6, <1>7, <1>8, Steps, FailsStep

-----------------------------------------------------------------------------
(* The inductive invariant, as long as no call of a merge failed and all   *)
(* merges were quiet.                                                      *)

AllEntries == UNION {{log[r][n] : n \in 1 .. Len(log[r])} : r \in Replicas}

NoRepeats == \A r \in Replicas : Distinct(data[r])

OnlyDone ==
  \A r \in Replicas, c \in Ops : c \in ChunksIn(data[r]) \/ InLog(c, log[r]) => Done(c, r)

MergedAreFinished ==
  \A m \in Ops : op[m].kind = "merge" /\ op[m].pc \in {"reconcile", "ok"} =>
    \A c \in Ops : c \in ChunksIn(op[m].final) => Finished(c)

(* Holds between merges; a reconciled log and one that is not yet overlap. *)
LogsDisjoint == (\A m \in Ops : op[m].pc # "reconcile") => Disjoint(AllEntries)

PolledEntries ==
  \A m \in Ops : op[m].pc = "poll" =>
    \A r \in Replicas : \A n \in 1 .. Len(op[m].logs[r]) : op[m].logs[r][n] \in AllEntries

MergesDistinct ==
  \A m \in Ops : op[m].pc = "reconcile" =>
    Distinct(op[m].final) /\ \A r \in Replicas : op[m].call[r] \in {"sent", "ok"}

DupInv ==
  mergeFails = 0 /\ AllQuiet =>
    /\ NoRepeats /\ OnlyDone /\ MergedAreFinished
    /\ LogsDisjoint /\ PolledEntries /\ MergesDistinct

(* DupInv holds initially.                                                 *)
LEMMA DupInit == ASSUME Init PROVE DupInv
<1>1. \A i \in Ops : op[i].pc = "idle"
  BY DEF Init, Idle
<1>2. \A r \in Replicas : \/ data[r] = <<0>> /\ log[r] = <<OpEntry(0)>>
                          \/ data[r] = <<>> /\ log[r] = <<>>
  BY DEF Init
<1>3. Distinct(<<0>>) /\ Distinct(<<>>) /\ ChunksIn(<<0>>) = {0} /\ ChunksIn(<<>>) = {}
  BY DEF Distinct, ChunksIn
<1>4. NoRepeats
  BY <1>2, <1>3 DEF NoRepeats
<1>5. OnlyDone
  <2>2. 0 \notin Ops /\ OpEntry(0).Data = <<0>>
    BY ConstantTypes DEF OpEntry
  <2>3. \A c \in Ops : ~InLog(c, <<OpEntry(0)>>)
    BY <1>3, <2>2 DEF InLog
  <2>4. \A c \in Ops : ~InLog(c, <<>>)
    BY DEF InLog
  <2>1. \A c \in Ops, r \in Replicas : c \notin ChunksIn(data[r]) /\ ~InLog(c, log[r])
    <3> TAKE c \in Ops, r \in Replicas
    <3>1. CASE data[r] = <<0>> /\ log[r] = <<OpEntry(0)>>
      BY <3>1, <1>3, <2>2, <2>3
    <3>2. CASE data[r] = <<>> /\ log[r] = <<>>
      BY <3>2, <1>3, <2>4
    <3> QED
      BY <3>1, <3>2, <1>2
  <2> QED
    BY <2>1 DEF OnlyDone
<1>6. Disjoint(AllEntries)
  <2>1. \A e \in AllEntries : e = OpEntry(0)
    BY <1>2 DEF AllEntries
  <2>2. OpEntry(0).Data = <<0>>
    BY DEF OpEntry
  <2> QED
    BY <1>3, <2>1, <2>2 DEF Disjoint
<1> QED
  BY <1>1, <1>4, <1>5, <1>6
     DEF DupInv, MergedAreFinished, LogsDisjoint, PolledEntries, MergesDistinct

(* The entries of the logs after a step.                                   *)
LEMMA NewEntries ==
  ASSUME Created, AnyPrimary = FALSE, TypeOK, CallInv, CreateInv, FilesThere, MergeInv, AllQuiet,
         [Next]_vars, mergeFails' = 0, NEW e \in AllEntries'
  PROVE  \/ e \in AllEntries
         \/ \E i \in Ops, r \in Replicas : Wrote(i, r) /\ e = OpEntry(i)
         \/ \E m \in Ops, r \in Replicas : Merged(m, r) /\ e = MergedEntry(m)
<1>0. PICK r \in Replicas : \E k \in 1 .. Len(log'[r]) : e = log'[r][k]
  BY DEF AllEntries
<1>1. PICK n \in 1 .. Len(log'[r]) : e = log'[r][n]
  BY <1>0
<1>2. CASE log'[r] = log[r]
  BY <1>1, <1>2 DEF AllEntries
<1>3. ASSUME NEW i \in Ops, Wrote(i, r), log'[r] = Append(log[r], OpEntry(i))
      PROVE  e \in AllEntries \/ e = OpEntry(i)
  <2>1. log[r] \in Seq(Entry) /\ OpEntry(i) \in Entry
    BY OpEntryType, ConstantTypes DEF TypeOK
  <2>2. e = OpEntry(i) \/ \E m \in 1 .. Len(log[r]) : e = log[r][m]
    BY <1>1, <1>3, <2>1, AppendProperties
  <2> QED
    BY <2>2 DEF AllEntries
<1>4. ASSUME NEW m \in Ops, Merged(m, r) PROVE e = MergedEntry(m)
  BY <1>1, <1>4 DEF Merged
<1> QED
  BY <1>2, <1>3, <1>4, FilesExact DEF Wrote

(* Every step keeps DupInv.                                                *)
LEMMA DupNext ==
  ASSUME Created, AnyPrimary = FALSE, TypeOK, CallInv, CreateInv, LockInv, MergeInv,
         CanonicalInv, FreshInv, DupInv, [Next]_vars
  PROVE  DupInv'
<1> SUFFICES ASSUME mergeFails' = 0, AllQuiet'
             PROVE  (/\ NoRepeats /\ OnlyDone /\ MergedAreFinished
                     /\ LogsDisjoint /\ PolledEntries /\ MergesDistinct)'
  BY DEF DupInv
<1>0. /\ mergeFails = 0 /\ AllQuiet /\ FilesThere /\ 0 \notin Ops /\ Ops \subseteq Chunks
      /\ 1 \in Replicas
      /\ NoRepeats /\ OnlyDone /\ MergedAreFinished
      /\ LogsDisjoint /\ PolledEntries /\ MergesDistinct
  BY FailsStep, FreshNext, ConstantTypes DEF DupInv, LockInv
<1>1. \A m \in Ops : op[m].pc = "reconcile" => op[m].kind = "merge"
  BY DEF CallInv
<1>2. NoRepeats'
  <2> SUFFICES ASSUME NEW r \in Replicas PROVE Distinct(data'[r])
    BY DEF NoRepeats
  <2>1. data[r] \in Seq(Chunks) /\ Distinct(data[r])
    BY <1>0 DEF TypeOK, NoRepeats
  <2>2. ASSUME NEW i \in Ops, Wrote(i, r) PROVE Distinct(data'[r])
    <3>1. i \notin ChunksIn(data[r])
      BY <1>0, <2>2 DEF Wrote, OnlyDone
    <3> QED
      BY <1>0, <2>1, <2>2, <3>1, DistinctAppend DEF Wrote
  <2>3. ASSUME NEW m \in Ops, Merged(m, r) PROVE Distinct(data'[r])
    BY <1>0, <2>3 DEF Merged, MergesDistinct
  <2> QED
    BY <1>0, <2>1, <2>2, <2>3, FilesExact
<1>3. OnlyDone'
  <2> SUFFICES ASSUME NEW r \in Replicas, NEW c \in Ops,
                      c \in ChunksIn(data'[r]) \/ InLog(c, log'[r])
               PROVE  Done(c, r)'
    BY DEF OnlyDone
  <2>1. CASE c \in ChunksIn(data[r]) \/ InLog(c, log[r])
    BY <1>0, <2>1, DoneStable DEF OnlyDone
  <2>2. ASSUME NEW i \in Ops, Wrote(i, r)
        PROVE  c = i \/ c \in ChunksIn(data[r]) \/ InLog(c, log[r])
    <3>1. data[r] \in Seq(Chunks) /\ log[r] \in Seq(Entry) /\ OpEntry(i) \in Entry /\ i \in Chunks
      BY <1>0, OpEntryType DEF TypeOK
    <3>2. ChunksIn(Append(data[r], i)) = ChunksIn(data[r]) \cup {i}
      BY <3>1, ChunksInAppend
    <3>3. ASSUME InLog(c, Append(log[r], OpEntry(i))) PROVE c = i \/ InLog(c, log[r])
      <4>1. PICK n \in 1 .. Len(Append(log[r], OpEntry(i))) :
                   c \in ChunksIn(Append(log[r], OpEntry(i))[n].Data)
        BY <3>3 DEF InLog
      <4>2. \/ Append(log[r], OpEntry(i))[n] = OpEntry(i)
            \/ \E m \in 1 .. Len(log[r]) : Append(log[r], OpEntry(i))[n] = log[r][m]
        BY <3>1, <4>1, AppendProperties
      <4>3. ChunksIn(OpEntry(i).Data) = {i}
        BY DEF ChunksIn, OpEntry
      <4> QED
        BY <4>1, <4>2, <4>3 DEF InLog
    <3>4. CASE c \in ChunksIn(data'[r])
      <4>1. data'[r] = data[r] \/ data'[r] = Append(data[r], i)
        BY <2>2 DEF Wrote
      <4> QED
        BY <3>2, <3>4, <4>1
    <3>5. CASE InLog(c, log'[r])
      <4>1. log'[r] = log[r] \/ log'[r] = Append(log[r], OpEntry(i))
        BY <2>2 DEF Wrote
      <4> QED
        BY <3>3, <3>5, <4>1
    <3> QED
      BY <3>4, <3>5
  <2>3. ASSUME NEW m \in Ops, Merged(m, r) PROVE Finished(c)
    <3>1. c \in ChunksIn(op[m].final)
      <4>1. Len(<<MergedEntry(m)>>) = 1 /\ <<MergedEntry(m)>>[1].Data = op[m].final
        BY DEF MergedEntry
      <4> QED
        BY <2>3, <4>1 DEF Merged, InLog
    <3> QED
      BY <1>0, <1>1, <2>3, <3>1 DEF Merged, MergedAreFinished
  <2>4. ASSUME Finished(c) PROVE Done(c, r)'
    BY <1>0, <2>4, DoneStable DEF Done, Finished
  <2>5. ASSUME NEW i \in Ops, Wrote(i, r) PROVE Done(i, r)'
    BY <2>5 DEF Wrote
  <2> QED
    BY <1>0, <2>1, <2>2, <2>3, <2>4, <2>5, FilesExact
<1>4. ASSUME NEW m \in Ops, MergeBuild(m)
      PROVE  /\ op[m].pc = "poll" /\ op[m].kind = "merge"
             /\ \E used \in SUBSET Replicas :
                  op'[m].final = SortedData(Entries(m, used)) /\ op'[m].call = SentCalls
  BY <1>4, MergeBuildOp DEF CallInv, OpBecomes
<1>5. ASSUME NEW m \in Ops, op[m].pc = "poll", NEW used \in SUBSET Replicas
      PROVE  /\ Entries(m, used) \subseteq AllEntries /\ Disjoint(AllEntries)
             /\ \A c \in Ops : c \in ChunksIn(SortedData(Entries(m, used))) => Finished(c)
  <2>1. Entries(m, used) \subseteq AllEntries
    BY <1>0, <1>5 DEF Entries, PolledEntries
  <2>2. \A j \in Ops : op[j].pc # "reconcile"
    BY <1>5 DEF CallInv
  <2>3. ASSUME NEW c \in Ops, c \in ChunksIn(SortedData(Entries(m, used))) PROVE Finished(c)
    <3>1. Entries(m, used) \in SUBSET Entry /\ Functional(Entries(m, used))
      BY EntriesType, EntriesFunctional
    <3>2. PICK e \in Entries(m, used) : c \in ChunksIn(e.Data)
      BY <2>3, <3>1, SortedDataChunks
    <3>3. PICK r \in Replicas : InLog(c, log[r])
      BY <2>1, <3>2 DEF AllEntries, InLog
    <3>4. ~OnItsWay(c)
      BY <1>0, <1>5 DEF MergeInv, AllQuiet
    <3> QED
      BY <1>0, <3>3, <3>4 DEF OnlyDone, Done, Finished, OnItsWay
  <2> QED
    BY <1>0, <2>1, <2>2, <2>3 DEF LogsDisjoint
<1>6. MergesDistinct'
  <2> SUFFICES ASSUME NEW m \in Ops, op'[m].pc = "reconcile"
               PROVE  /\ Distinct(op'[m].final)
                      /\ \A r \in Replicas : op'[m].call[r] \in {"sent", "ok"}
    BY DEF MergesDistinct
  <2>1. CASE MergeBuild(m)
    <3>1. PICK used \in SUBSET Replicas :
                 op'[m].final = SortedData(Entries(m, used)) /\ op'[m].call = SentCalls
      BY <1>4, <2>1
    <3>2. Disjoint(Entries(m, used))
      BY <1>4, <1>5, <2>1 DEF Disjoint
    <3>3. Distinct(op'[m].final)
      BY <3>1, <3>2, EntriesType, SortedDataDistinct
    <3> QED
      BY <3>1, <3>3 DEF SentCalls
  <2>2. CASE op[m].pc = "reconcile" /\ op'[m].final = op[m].final
    <3>1. \A r \in Replicas : op[m].call[r] \in {"sent", "ok"}
      BY <1>0, <2>2 DEF MergesDistinct
    <3>2. CASE op'[m].call = op[m].call
      BY <1>0, <2>2, <3>1, <3>2 DEF MergesDistinct
    <3>3. ASSUME NEW r \in Replicas, op'[m].call = [op[m].call EXCEPT ![r] = "ok"]
          PROVE  \A s \in Replicas : op'[m].call[s] \in {"sent", "ok"}
      BY <3>1, <3>3 DEF TypeOK, OpRec
    <3>4. op'[m].call = op[m].call \/ \E r \in Replicas : op'[m].call = [op[m].call EXCEPT ![r] = "ok"]
      <4>1. \A r \in Replicas : Reconcile(m, r) => op'[m].call = [op[m].call EXCEPT ![r] = "ok"]
        BY ReconcileOp DEF CallBecomes, OpBecomes
      <4>2. CASE op'[m] = op[m]
        BY <4>2
      <4>3. ~(Begin(m) \/ LocalWrite(m) \/ LocalWriteFails(m) \/ WriteDone(m) \/ MergeLock(m)
              \/ MergeBuild(m) \/ Get(m) \/ GetFails(m))
        BY <2>2, BeginOp, LocalWriteOp, LocalWriteFailsOp, WriteDoneOp, MergeLockOp,
           MergeBuildOp, GetOp
      <4>4. ~MergeDone(m)
        BY MergeDoneOp DEF PcBecomes, OpBecomes
      <4>5. \A r \in Replicas : /\ ~FanOut(m, r) /\ ~FanOutFails(m, r) /\ ~FanOutLate(m, r)
                                /\ ~Poll(m, r) /\ ~PollFails(m, r)
        BY <2>2, FanOutOp, FanOutFailsOp, FanOutLateOp, PollMoves DEF CallInv
      <4> QED
        BY <4>1, <4>2, <4>3, <4>4, <4>5, OwnStep, FailsStep
    <3> QED
      BY <1>0, <2>2, <3>2, <3>3, <3>4 DEF MergesDistinct
  <2> QED
    BY <2>1, <2>2, MergeStep
<1>7. MergedAreFinished'
  <2> SUFFICES ASSUME NEW m \in Ops, op'[m].kind = "merge", op'[m].pc \in {"reconcile", "ok"},
                      NEW c \in Ops, c \in ChunksIn(op'[m].final)
               PROVE  Finished(c)'
    BY DEF MergedAreFinished
  <2>1. CASE MergeBuild(m)
    BY <1>0, <1>4, <1>5, <2>1, DoneStable
  <2>2. CASE op[m].kind = "merge" /\ op[m].pc \in {"reconcile", "ok"} /\ op'[m].final = op[m].final
    BY <1>0, <2>2, DoneStable DEF MergedAreFinished
  <2>3. CASE op'[m].pc = "ok"
    <3>1. op[m].pc \in {"reconcile", "ok"}
      <4> USE <2>3 DEF OpBecomes, PcBecomes
      <4>1. CASE op'[m] = op[m]
        BY <4>1
      <4>2. CASE Begin(m) \/ LocalWrite(m) \/ LocalWriteFails(m) \/ MergeLock(m)
        BY <4>2, BeginOp, LocalWriteOp, LocalWriteFailsOp, MergeLockOp
      <4>3. CASE WriteDone(m) \/ Get(m) \/ GetFails(m)
        <5>1. op[m].pc # "idle" /\ op[m].kind # "merge"
          BY <4>3, WriteDoneOp, GetOp DEF CallInv, IsWrite
        <5> QED
          BY <5>1, CallsStable DEF Stable
      <4>4. CASE MergeBuild(m)
        BY <4>4, MergeBuildOp
      <4>5. CASE MergeDone(m)
        BY <4>5, MergeDoneOp
      <4>6. CASE \E r \in Replicas : FanOut(m, r) \/ FanOutFails(m, r) \/ FanOutLate(m, r)
        BY <4>6, FanOutOp, FanOutFailsOp, FanOutLateOp DEF CallBecomes, CallInv
      <4>7. CASE \E r \in Replicas : Poll(m, r) \/ PollFails(m, r)
        BY <4>7, PollMoves DEF Moves
      <4>8. CASE \E r \in Replicas : Reconcile(m, r) \/ ReconcileFails(m, r)
        BY <4>8, ReconcileMoves DEF Moves
      <4> QED
        BY <4>1, <4>2, <4>3, <4>4, <4>5, <4>6, <4>7, <4>8, OwnStep
    <3>2. op[m].kind = "merge" /\ op'[m].final = op[m].final
      BY <3>1, CallsStable DEF Stable
    <3> QED
      BY <2>2, <3>1, <3>2
  <2>4. CASE op[m].pc = "reconcile" /\ op'[m].final = op[m].final
    BY <1>1, <2>2, <2>4
  <2> QED
    BY <2>1, <2>3, <2>4, MergeStep
<1>8. PolledEntries'
  <2> SUFFICES ASSUME NEW m \in Ops, op'[m].pc = "poll", NEW r \in Replicas,
                      NEW n \in 1 .. Len(op'[m].logs[r])
               PROVE  op'[m].logs[r][n] \in AllEntries'
    BY DEF PolledEntries
  <2>1. CASE MergeLock(m)
    <3>1. op'[m].logs = op[m].logs /\ op[m].pc = "local"
      BY <2>1, MergeLockOp DEF OpBecomes
    <3>2. op'[m].logs[r] = <<>>
      BY <3>1 DEF FreshInv
    <3> QED
      BY <3>2
  <2>2. CASE op[m].pc = "poll"
    <3>1. \A s \in Replicas : log'[s] = log[s]
      <4>1. ASSUME NEW s \in Replicas, NEW j \in Ops PROVE ~Merged(j, s) /\ ~Wrote(j, s)
        BY <2>2 DEF CallInv, Merged, Wrote
      <4> QED
        BY <1>0, <4>1, FilesExact
    <3>2. AllEntries' = AllEntries
      BY <3>1 DEF AllEntries
    <3>3. CASE op'[m].logs[r] = op[m].logs[r]
      BY <1>0, <2>2, <3>2, <3>3 DEF PolledEntries
    <3>4. CASE op'[m].logs[r] = ScanLog(log[r])
      <4>1. \E k \in 1 .. Len(log[r]) : ScanLog(log[r])[n] = log[r][k]
        <5>1. log[r] \in Seq(Entry) /\ n \in 1 .. Len(ScanLog(log[r]))
          BY <3>4 DEF TypeOK
        <5> QED
          BY <5>1, ScanLogType
      <4>2. \E k \in 1 .. Len(log'[r]) : op'[m].logs[r][n] = log'[r][k]
        BY <3>1, <3>4, <4>1
      <4> QED
        BY <4>2 DEF AllEntries
    <3> QED
      BY <1>0, <2>2, <3>3, <3>4, PolledStep
  <2>3. op[m].pc = "poll" \/ MergeLock(m)
    <3> USE DEF OpBecomes, PcBecomes
    <3>1. CASE op'[m] = op[m]
      BY <3>1
    <3>2. CASE Begin(m) \/ LocalWrite(m) \/ LocalWriteFails(m) \/ Get(m) \/ GetFails(m)
      BY <3>2, BeginOp, LocalWriteOp, LocalWriteFailsOp, GetOp
    <3>3. CASE WriteDone(m)
      BY <3>3, WriteDoneOp
    <3>4. CASE MergeBuild(m) \/ MergeDone(m)
      BY <3>4, MergeBuildOp, MergeDoneOp
    <3>5. CASE \E s \in Replicas : FanOut(m, s) \/ FanOutFails(m, s) \/ FanOutLate(m, s)
      BY <3>5, FanOutOp, FanOutFailsOp, FanOutLateOp DEF CallBecomes, CallInv
    <3>6. CASE \E s \in Replicas : Poll(m, s) \/ PollFails(m, s)
      BY <3>6, PollMoves
    <3>7. CASE \E s \in Replicas : Reconcile(m, s) \/ ReconcileFails(m, s)
      BY <3>7, ReconcileMoves DEF Moves
    <3> QED
      BY <3>1, <3>2, <3>3, <3>4, <3>5, <3>6, <3>7, OwnStep
  <2> QED
    BY <2>1, <2>2, <2>3
<1>9. LogsDisjoint'
  <2> SUFFICES ASSUME \A m \in Ops : op'[m].pc # "reconcile" PROVE Disjoint(AllEntries)'
    BY DEF LogsDisjoint
  (* The reconcile phase of a merge ends.                                  *)
  <2>1. ASSUME NEW m \in Ops, op[m].pc = "reconcile" PROVE Disjoint(AllEntries)'
    <3>1. MergeDone(m)
      <4>1. op'[m] # op[m]
        BY <2>1
      <4>2. ~(Begin(m) \/ LocalWrite(m) \/ LocalWriteFails(m) \/ WriteDone(m) \/ MergeLock(m)
              \/ MergeBuild(m) \/ Get(m) \/ GetFails(m))
        BY <2>1, BeginOp, LocalWriteOp, LocalWriteFailsOp, WriteDoneOp, MergeLockOp,
           MergeBuildOp, GetOp
      <4>3. \A r \in Replicas : /\ ~FanOut(m, r) /\ ~FanOutFails(m, r) /\ ~FanOutLate(m, r)
                                /\ ~Poll(m, r) /\ ~PollFails(m, r)
        BY <2>1, FanOutOp, FanOutFailsOp, FanOutLateOp, PollMoves DEF CallInv
      <4>4. \A r \in Replicas : ~Reconcile(m, r) /\ ~ReconcileFails(m, r)
        BY <2>1, ReconcileMoves DEF Moves
      <4> QED
        BY <4>1, <4>2, <4>3, <4>4, OwnStep
    <3>2. \A r \in Replicas : op[m].call[r] = "ok"
      BY <1>0, <2>1, <3>1, MergeDoneOp DEF MergesDistinct
    <3>3. \A r \in Replicas : log[r] = <<MergedEntry(m)>>
      BY <1>0, <2>1, <3>2 DEF MergeInv, AllQuiet, MergedEntry
    <3>4. log' = log
      BY <3>1, MergeDoneOp DEF disk
    <3>5. \A e \in AllEntries' : e = MergedEntry(m)
      BY <3>3, <3>4 DEF AllEntries
    <3>6. Distinct(op[m].final) /\ MergedEntry(m).Data = op[m].final
      BY <1>0, <2>1 DEF MergesDistinct, MergedEntry
    <3> QED
      BY <3>5, <3>6 DEF Disjoint
  <2>2. CASE \A m \in Ops : op[m].pc # "reconcile"
    <3>1. Disjoint(AllEntries)
      BY <1>0, <2>2 DEF LogsDisjoint
    <3>2. \A e \in AllEntries' :
            e \in AllEntries \/ \E i \in Ops, r \in Replicas : Wrote(i, r) /\ e = OpEntry(i)
      BY <1>0, <2>2, NewEntries DEF Merged
    <3>3. \A i \in Ops : /\ OpEntry(i).OpID = i /\ ChunksIn(OpEntry(i).Data) = {i}
                         /\ Distinct(OpEntry(i).Data)
      BY DEF OpEntry, ChunksIn, Distinct
    <3>4. ASSUME NEW i \in Ops, NEW r \in Replicas, Wrote(i, r), NEW g \in AllEntries, g.OpID # i
          PROVE  i \notin ChunksIn(g.Data)
      <4>1. Canonical(g)
        BY DEF CanonicalInv, CanonicalLog, AllEntries
      <4>2. CASE g = OpEntry(g.OpID)
        BY <3>4, <4>2 DEF OpEntry, ChunksIn
      <4>3. CASE /\ g.OpID \in Ops /\ op[g.OpID].kind = "merge" /\ g.Data = op[g.OpID].final
                 /\ op[g.OpID].pc \in {"reconcile", "ok"}
        <5>1. ~Finished(i)
          BY <3>4 DEF Wrote, Finished, Done
        <5> QED
          BY <1>0, <4>3, <5>1 DEF MergedAreFinished
      <4> QED
        BY <4>1, <4>2, <4>3 DEF Canonical
    <3>5. \A e \in AllEntries' : Distinct(e.Data)
      BY <3>1, <3>2, <3>3 DEF Disjoint
    <3>6. ASSUME NEW e \in AllEntries', NEW g \in AllEntries', e.OpID # g.OpID
          PROVE  ChunksIn(e.Data) \cap ChunksIn(g.Data) = {}
      <4>1. CASE e \in AllEntries /\ g \in AllEntries
        BY <3>1, <3>6, <4>1 DEF Disjoint
      <4>2. ASSUME NEW i \in Ops, NEW r \in Replicas, Wrote(i, r), e = OpEntry(i), g \in AllEntries
            PROVE  ChunksIn(e.Data) \cap ChunksIn(g.Data) = {}
        <5>1. i \notin ChunksIn(g.Data)
          BY <3>3, <3>4, <3>6, <4>2
        <5> QED
          BY <3>3, <4>2, <5>1
      <4>3. ASSUME NEW i \in Ops, NEW r \in Replicas, Wrote(i, r), g = OpEntry(i), e \in AllEntries
            PROVE  ChunksIn(e.Data) \cap ChunksIn(g.Data) = {}
        <5>1. i \notin ChunksIn(e.Data)
          BY <3>3, <3>4, <3>6, <4>3
        <5> QED
          BY <3>3, <4>3, <5>1
      <4>4. ASSUME NEW i \in Ops, NEW j \in Ops, e = OpEntry(i), g = OpEntry(j)
            PROVE  ChunksIn(e.Data) \cap ChunksIn(g.Data) = {}
        BY <3>3, <3>6, <4>4
      <4> QED
        BY <3>2, <4>1, <4>2, <4>3, <4>4
    <3> QED
      BY <3>5, <3>6 DEF Disjoint
  <2> QED
    BY <2>1, <2>2
<1> QED
  BY <1>2, <1>3, <1>6, <1>7, <1>8, <1>9

UniqueInv ==
  TypeOK /\ CallInv /\ CreateInv /\ LockInv /\ MergeInv /\ CanonicalInv /\ FreshInv /\ DupInv

(* As long as no merge met a fan-out on its way and no call of a merge     *)
(* failed, no chunk is in a data file twice: AppendFile applies a write    *)
(* once on each replica, and MergeFile unites the operation logs by OpID,  *)
(* so a write that several logs have, or that an earlier merge compacted,  *)
(* is not repeated.                                                        *)
THEOREM ChunksAreUnique ==
  ASSUME Created, AnyPrimary = FALSE
  PROVE  Spec => [](mergeFails = 0 => NoDuplicateChunk)
<1>1. Init => UniqueInv
  BY InitType, CallInvInit, CreateInvInit, LockInvInit, MergeInvInit, CanonicalInit,
     FreshInit, DupInit DEF UniqueInv
<1>2. UniqueInv /\ [Next]_vars => UniqueInv'
  BY NextType, CallInvNext, CreateInvNext, LockInvNext, MergeInvNext, CanonicalNext,
     FreshNext, DupNext DEF UniqueInv
<1>3. UniqueInv => (mergeFails = 0 => NoDuplicateChunk)
  <2> SUFFICES ASSUME UniqueInv, mergeFails = 0, AllQuiet, NEW r \in Replicas
               PROVE  Cardinality(ChunksIn(data[r])) = Len(data[r])
    BY DEF NoDuplicateChunk, AllQuiet
  <2>1. data[r] \in Seq(Chunks) /\ Distinct(data[r])
    BY DEF UniqueInv, TypeOK, DupInv, NoRepeats
  <2> QED
    BY <2>1, DistinctCardinality
<1> QED
  BY <1>1, <1>2, <1>3, PTL DEF Spec
=============================================================================
