------------------------- MODULE StreamOutputProofs -------------------------
(***************************************************************************)
(* Proofs about what the pipeline writes to the output file when no        *)
(* process dies.                                                           *)
(***************************************************************************)
EXTENDS StreamControlProofs, WellFoundedInduction

-----------------------------------------------------------------------------
(* Sequences of lines.                                                     *)

Vals(s) == {s[n] : n \in 1 .. Len(s)}
Distinct(s) == \A a, b \in 1 .. Len(s) : s[a] = s[b] => a = b

(* Appending adds one value, and keeps the values distinct when it is new. *)
LEMMA AppendVals ==
  ASSUME NEW s \in Seq(Lines), NEW v \in Lines
  PROVE  /\ Vals(Append(s, v)) = Vals(s) \cup {v}
         /\ Distinct(s) /\ v \notin Vals(s) => Distinct(Append(s, v))
<1>1. /\ Len(s) \in Nat /\ Len(Append(s, v)) = Len(s) + 1
      /\ \A n \in 1 .. Len(s) : Append(s, v)[n] = s[n]
      /\ Append(s, v)[Len(s) + 1] = v
  OBVIOUS
<1> DEFINE t == Append(s, v)
<1> HIDE DEF t
<1>2. /\ Len(t) = Len(s) + 1 /\ t[Len(s) + 1] = v
      /\ \A n \in 1 .. Len(s) : t[n] = s[n]
  BY <1>1 DEF t
<1>3. Vals(t) = Vals(s) \cup {v}
  <2>1. ASSUME NEW n \in 1 .. Len(t) PROVE t[n] \in Vals(s) \cup {v}
    <3>1. CASE n = Len(s) + 1
      BY <1>2, <3>1
    <3>2. CASE n \in 1 .. Len(s)
      BY <1>2, <3>2 DEF Vals
    <3> QED
      BY <1>1, <1>2, <3>1, <3>2
  <2>2. Len(s) + 1 \in 1 .. Len(t) /\ 1 .. Len(s) \subseteq 1 .. Len(t)
    BY <1>1, <1>2
  <2>3. v \in Vals(t)
    BY <1>2, <2>2 DEF Vals
  <2>4. Vals(s) \subseteq Vals(t)
    BY <1>2, <2>2 DEF Vals
  <2>5. Vals(t) \subseteq Vals(s) \cup {v}
    BY <2>1 DEF Vals
  <2> QED
    BY <2>3, <2>4, <2>5
<1>4. ASSUME Distinct(s), v \notin Vals(s) PROVE Distinct(t)
  <2>1. \A n \in 1 .. Len(s) : s[n] # v
    BY <1>4 DEF Vals
  <2> QED
    BY <1>1, <1>2, <1>4, <2>1 DEF Distinct
<1> QED
  BY <1>3, <1>4 DEF t

(* Taking the head away leaves the other values.                           *)
LEMMA TailVals ==
  ASSUME NEW s \in Seq(Lines), s # <<>>
  PROVE  /\ Head(s) \in Lines /\ Tail(s) \in Seq(Lines)
         /\ Vals(s) = {Head(s)} \cup Vals(Tail(s))
         /\ Distinct(s) => Distinct(Tail(s)) /\ Head(s) \notin Vals(Tail(s))
<1>1. /\ Len(s) \in Nat \ {0} /\ Head(s) = s[1] /\ Head(s) \in Lines /\ Tail(s) \in Seq(Lines)
      /\ Len(Tail(s)) = Len(s) - 1
      /\ \A n \in 1 .. Len(s) - 1 : Tail(s)[n] = s[n + 1]
  OBVIOUS
<1> DEFINE t == Tail(s)
           h == Head(s)
<1> HIDE DEF t, h
<1>2. /\ Len(t) = Len(s) - 1 /\ h = s[1]
      /\ \A n \in 1 .. Len(s) - 1 : t[n] = s[n + 1]
  BY <1>1 DEF t, h
<1>3. Vals(s) = {h} \cup Vals(t)
  <2>1. ASSUME NEW n \in 1 .. Len(s) PROVE s[n] \in {h} \cup Vals(t)
    <3>1. CASE n = 1
      BY <1>2, <3>1
    <3>2. CASE n # 1
      <4>1. n - 1 \in 1 .. Len(s) - 1 /\ (n - 1) + 1 = n
        BY <1>1, <3>2
      <4>2. t[n - 1] = s[n]
        BY <1>2, <4>1
      <4> QED
        BY <1>2, <4>1, <4>2 DEF Vals
    <3> QED
      BY <3>1, <3>2
  <2>2. ASSUME NEW n \in 1 .. Len(t) PROVE t[n] \in Vals(s)
    <3>1. n + 1 \in 1 .. Len(s) /\ t[n] = s[n + 1]
      BY <1>1, <1>2
    <3> QED
      BY <3>1 DEF Vals
  <2>3. h \in Vals(s)
    BY <1>1, <1>2 DEF Vals
  <2> QED
    BY <2>1, <2>2, <2>3 DEF Vals
<1>4. ASSUME Distinct(s) PROVE Distinct(t) /\ h \notin Vals(t)
  <2>1. \A n \in 1 .. Len(t) : n + 1 \in 1 .. Len(s) /\ t[n] = s[n + 1] /\ n + 1 # 1 /\ 1 \in 1 .. Len(s)
    BY <1>1, <1>2
  <2>2. h \notin Vals(t)
    BY <1>2, <1>4, <2>1 DEF Vals, Distinct
  <2>3. \A a, b \in 1 .. Len(t) : a + 1 = b + 1 => a = b
    BY <1>1, <1>2
  <2>4. Distinct(t)
    BY <1>4, <2>1, <2>3 DEF Distinct
  <2> QED
    BY <2>2, <2>4
<1> QED
  BY <1>1, <1>3, <1>4 DEF t, h

(* An empty pipe holds nothing.                                            *)
LEMMA EmptyVals == Vals(<<>>) = {} /\ Distinct(<<>>)
BY DEF Vals, Distinct

(* A line is counted once in a sequence of distinct lines.                 *)
LEMMA CountDistinct ==
  ASSUME NEW s \in Seq(Lines), Distinct(s), NEW v
  PROVE  Count(s, v) = IF v \in Vals(s) THEN 1 ELSE 0
<1> DEFINE P == {n \in 1 .. Len(s) : s[n] = v}
<1>1. CASE v \in Vals(s)
  <2>1. PICK n \in 1 .. Len(s) : s[n] = v
    BY <1>1 DEF Vals
  <2>2. P = {n}
    BY <2>1 DEF Distinct
  <2> QED
    BY <1>1, <2>2, FS_Singleton DEF Count
<1>2. CASE v \notin Vals(s)
  <2>1. P = {}
    BY <1>2 DEF Vals
  <2> QED
    BY <1>2, <2>1, FS_EmptySet DEF Count
<1> QED
  BY <1>1, <1>2

-----------------------------------------------------------------------------
(* Without kills.                                                          *)

OneRun == \A k \in Keys : runs[k] = 1 /\ restart[k].pc = "none"
NoFailure == \A r \in reports : r.status = "Success"
EndsWell ==
  \A i \in Inst : task[i].replay = <<>> /\ (task[i].proc = "dead" => IsSuccess(i))

(* As long as no process was killed every task has one process, which ends *)
(* at the end of its stdin, and nothing is replayed or restarted.          *)
CalmInv == kills = 0 => OneRun /\ NoFailure /\ EndsWell

(* CalmInv holds initially.                                                *)
LEMMA InitCalmInv == Init => CalmInv
<1> SUFFICES ASSUME Init PROVE CalmInv
  OBVIOUS
<1>1. OneRun /\ NoFailure
  BY DEF Init, AllStarted, OneRun, NoFailure
<1>2. EndsWell
  BY NoTaskFields DEF Init, AllStarted, EndsWell, NewTask
<1> QED
  BY <1>1, <1>2 DEF CalmInv

(* Every step keeps CalmInv.                                               *)
LEMMA NextCalmInv ==
  ASSUME TypeOK, TypeOK', RunInv, EosInv, CalmInv, [Next]_vars
  PROVE  CalmInv'
<1> SUFFICES ASSUME kills' = 0 PROVE OneRun' /\ NoFailure' /\ EndsWell'
  BY DEF CalmInv
<1>k. kills = 0 /\ OneRun /\ NoFailure /\ EndsWell /\ kills + 1 # 0
  BY FaultsStay DEF CalmInv
<1>a. \A j \in Inst : Aged(j)
  BY NextRunInv
<1>s. ASSUME runs' = runs, restart' = restart,
             \A r \in reports' : r \in reports \/ r.status = "Success",
             \A j \in Inst : /\ task'[j].replay = task[j].replay
                             /\ task'[j].proc = "dead" => task[j].proc = "dead" \/ IsSuccess(j)
      PROVE  OneRun' /\ NoFailure' /\ EndsWell'
  <2>1. OneRun' /\ NoFailure'
    BY <1>k, <1>s DEF OneRun, NoFailure
  <2>2. EndsWell'
    BY <1>a, <1>k, <1>s, SuccessStays DEF EndsWell
  <2> QED
    BY <2>1, <2>2
<1>0. CASE UNCHANGED vars
  BY <1>0, <1>s DEF vars, nodeVars, leaderVars
<1>1. ASSUME NEW m \in pushes, PushStep(m) PROVE OneRun' /\ NoFailure' /\ EndsWell'
  BY <1>1, <1>s, PushIsQuiet DEF PushQuiet, PushFrame
<1>2. CASE SourceLine \/ SourceEOS \/ SourceDone
  BY <1>2, <1>s, SourceLineOp, SourceEOSOp, SourceDoneOp DEF SourceFrame
<1>3. ASSUME NEW i \in Inst, Operator(i) \/ OperatorExit(i) \/ HandleOutput(i)
      PROVE  OneRun' /\ NoFailure' /\ EndsWell'
  <2>1. UNCHANGED <<runs, restart, reports>>
    BY <1>3, InstQuiet
  <2>2. \A j \in Inst : task'[j].replay = task[j].replay
    BY <1>3, OperatorOp, OperatorExitOp, HandleOutputOp DEF TaskBecomes
  <2>3. \A j \in Inst : task'[j].proc = "dead" => task[j].proc = "dead" \/ IsSuccess(j)
    <3>1. CASE OperatorExit(i)
      <4>1. task[i].pipe = "closed"
        BY <3>1, OperatorExitOp
      <4>2. IsSuccess(i)
        BY <4>1 DEF EosInv, ClosedByCount, IsSuccess
      <4> QED
        BY <3>1, <4>2, OperatorExitOp DEF TaskBecomes
    <3>2. CASE Operator(i) \/ HandleOutput(i)
      BY <3>2, OperatorOp, HandleOutputOp DEF TaskBecomes
    <3> QED
      BY <1>3, <3>1, <3>2
  <2> QED
    BY <1>s, <2>1, <2>2, <2>3
<1>4. ASSUME NEW i \in Inst, HandleEOF(i) \/ HandleEOSSent(i)
      PROVE  OneRun' /\ NoFailure' /\ EndsWell'
  <2>1. /\ runs' = runs /\ restart' = restart /\ task[i].proc = "dead"
        /\ \A j \in Inst : task'[j].proc = task[j].proc
    BY <1>4, HandlerStep
  <2>2. IsSuccess(i)
    BY <1>k, <2>1 DEF EndsWell
  <2>3. \A r \in reports' : r \in reports \/ r.status = "Success"
    BY <1>4, <2>2, HandleEOFOp, HandleEOSSentOp
  <2>4. \A j \in Inst : task'[j].replay = task[j].replay
    BY <1>4, HandleEOFOp, HandleEOSSentOp DEF TaskBecomes
  <2> QED
    BY <1>s, <2>1, <2>3, <2>4
<1>5. ASSUME NEW i \in Inst, ReplayLock(i) \/ ReplayWrite(i) PROVE FALSE
  BY <1>5, <1>k, ReplayLockOp, ReplayWriteOp DEF EndsWell
<1>6. ASSUME NEW i \in Inst, Crash(i) \/ KillProcess(i) PROVE FALSE
  BY <1>6, <1>k, DieOp
<1>7. ASSUME NEW i \in Inst, KillCleanup(i) PROVE OneRun' /\ NoFailure' /\ EndsWell'
  BY <1>7, <1>s, KillCleanupOp
<1>8. ASSUME NEW r \in reports, TaskFinished(r) \/ ReportLost(r)
      PROVE  OneRun' /\ NoFailure' /\ EndsWell'
  <2>1. r.status = "Success"
    BY <1>k DEF NoFailure
  <2>2. /\ reports' \subseteq reports /\ runs' = runs /\ task' = task /\ restart' = restart
    BY <1>8, <2>1, TaskFinishedOp, ReportLostOp
  <2> QED
    BY <1>s, <2>2
<1>9. ASSUME NEW k \in Keys, LoadDedupLog(k) \/ StartTask(k) PROVE FALSE
  BY <1>9, <1>k, LoadDedupLogOp, StartTaskOp DEF OneRun
<1> QED
  BY <1>0, <1>1, <1>2, <1>3, <1>4, <1>5, <1>6, <1>7, <1>8, <1>9 DEF Next, InstStep, Finished

(* CalmInv is an invariant.                                                *)
LEMMA Calm == Spec => []CalmInv
BY TypeCorrect, RunsFollow, EOSsFollow, InitCalmInv, NextCalmInv, PTL DEF Spec

-----------------------------------------------------------------------------
(* The task lock.                                                          *)

InPush(m) == m.pc \in {"logging", "writing"}
LockHeld ==
  \A m \in pushes : InPush(m) =>
    m.id \notin task[Target(m)].ProcessedIDs /\ task[Target(m)].lock = "push"
LockAlone ==
  \A m, n \in pushes : InPush(m) /\ InPush(n) /\ Target(m) = Target(n) => m = n

(* A push between its duplicate check and its write holds the lock of the  *)
(* task, alone, and its id is still unprocessed.                           *)
LockInv == LockHeld /\ LockAlone

(* A step that starts no push in its critical section and leaves the tasks *)
(* of those that are in it keeps LockInv.                                  *)
LEMMA QuietLockInv ==
  ASSUME LockInv, \A n \in pushes' : InPush(n) =>
           /\ n \in pushes
           /\ task'[Target(n)].lock = task[Target(n)].lock
           /\ task'[Target(n)].ProcessedIDs = task[Target(n)].ProcessedIDs
  PROVE  LockInv'
<1>1. \A n \in pushes' : Target(n)' = Target(n) /\ InPush(n)' = InPush(n)
  BY DEF Target, InPush
<1>2. LockHeld'
  <2> SUFFICES ASSUME NEW n \in pushes', InPush(n)
               PROVE  n.id \notin task'[Target(n)].ProcessedIDs /\ task'[Target(n)].lock = "push"
    BY <1>1 DEF LockHeld
  <2> QED
    BY DEF LockInv, LockHeld
<1>3. LockAlone'
  <2> SUFFICES ASSUME NEW m \in pushes', NEW n \in pushes', InPush(m), InPush(n), Target(m) = Target(n)
               PROVE  m = n
    BY <1>1 DEF LockAlone
  <2> QED
    BY DEF LockInv, LockAlone
<1> QED
  BY <1>2, <1>3 DEF LockInv

(* A step of PushTuple keeps LockInv.                                      *)
LEMMA PushLockInv ==
  ASSUME TypeOK, RunInv, LockInv, NEW m \in pushes, PushStep(m)
  PROVE  LockInv'
<1>l. LockHeld /\ LockAlone
  BY DEF LockInv
<1>i. m.pc \in {"locking", "logging", "writing"} => Target(m) \in Inst
  BY PushFacts
<1>o. \A n \in pushes : InPush(n) => Target(n) \in Inst
  BY PushFacts DEF InPush
<1>s. ASSUME NEW p, NEW q, NEW n, Moved(m, p, q, n), p \notin {"logging", "writing"},
             \A o \in pushes : InPush(o) /\ o # m =>
               /\ task'[Target(o)].lock = task[Target(o)].lock
               /\ task'[Target(o)].ProcessedIDs = task[Target(o)].ProcessedIDs
      PROVE  LockInv'
  BY <1>s, QuietLockInv DEF Moved, InPush
<1>a. ASSUME Answered(m),
             \A o \in pushes : InPush(o) /\ o # m =>
               /\ task'[Target(o)].lock = task[Target(o)].lock
               /\ task'[Target(o)].ProcessedIDs = task[Target(o)].ProcessedIDs
      PROVE  LockInv'
  BY <1>a, <1>s DEF Answered
<1>h. ASSUME InPush(m), \A j \in Inst : j # Target(m) => task'[j] = task[j]
      PROVE  \A o \in pushes : InPush(o) /\ o # m =>
               /\ task'[Target(o)].lock = task[Target(o)].lock
               /\ task'[Target(o)].ProcessedIDs = task[Target(o)].ProcessedIDs
  BY <1>h, <1>l, <1>o DEF LockAlone
<1>1. CASE PushLookup(m)
  BY <1>1, <1>s, PushLookupOp
<1>2. CASE PushEOS(m)
  <2>1. \A j \in Inst : /\ task'[j].lock = task[j].lock
                        /\ task'[j].ProcessedIDs = task[j].ProcessedIDs
    BY <1>2, <1>i, PushEOSOp DEF TaskBecomes
  <2>2. Answered(m)
    BY <1>2, PushEOSOp
  <2> QED
    BY <1>a, <1>o, <2>1, <2>2
<1>3. CASE PushDuplicate(m)
  BY <1>3, <1>a, PushDuplicateOp
<1>4. CASE PushFresh(m)
  <2>1. /\ m.pc = "locking" /\ task[Target(m)].lock = "free" /\ LockBecomes(Target(m), "push")
        /\ m.id \notin task[Target(m)].ProcessedIDs
    BY <1>4, PushFreshOp
  <2>2. PICK n : Moved(m, "logging", m.run, n)
    BY <1>4, PushFreshOp
  <2>3. /\ task'[Target(m)].lock = "push"
        /\ task'[Target(m)].ProcessedIDs = task[Target(m)].ProcessedIDs
        /\ \A j \in Inst : j # Target(m) => task'[j] = task[j]
    BY <2>1 DEF LockBecomes, TaskBecomes
  <2>4. /\ pushes' = (pushes \ {m}) \cup {n} /\ n.id = m.id /\ Target(n) = Target(m)
        /\ ~InPush(m)
    BY <2>1, <2>2 DEF Moved, Target, InPush
  <2>5. \A o \in pushes : InPush(o) => Target(o) # Target(m)
    BY <1>l, <2>1 DEF LockHeld
  <2>6. LockHeld'
    <3> SUFFICES ASSUME NEW o \in pushes', InPush(o)
                 PROVE  o.id \notin task'[Target(o)].ProcessedIDs /\ task'[Target(o)].lock = "push"
      BY DEF LockHeld, Target, InPush
    <3> QED
      BY <1>l, <1>o, <2>1, <2>3, <2>4, <2>5 DEF LockHeld
  <2>7. LockAlone'
    <3> SUFFICES ASSUME NEW a \in pushes', NEW b \in pushes', InPush(a), InPush(b), Target(a) = Target(b)
                 PROVE  a = b
      BY DEF LockAlone, Target, InPush
    <3> QED
      BY <1>l, <2>4, <2>5 DEF LockAlone
  <2> QED
    BY <2>6, <2>7 DEF LockInv
<1>5. CASE PushLog(m)
  <2>1. task' = task /\ m.pc = "logging"
    BY <1>5, PushLogOp
  <2>2. PICK n : Moved(m, "writing", m.run, n)
    BY <1>5, PushLogOp
  <2>3. /\ pushes' = (pushes \ {m}) \cup {n} /\ n.id = m.id /\ Target(n) = Target(m)
        /\ InPush(m)
    BY <2>1, <2>2 DEF Moved, Target, InPush
  <2>4. LockHeld'
    <3> SUFFICES ASSUME NEW o \in pushes', InPush(o)
                 PROVE  o.id \notin task[Target(o)].ProcessedIDs /\ task[Target(o)].lock = "push"
      BY <2>1 DEF LockHeld, Target, InPush
    <3> QED
      BY <1>l, <2>3 DEF LockHeld
  <2>5. LockAlone'
    <3> SUFFICES ASSUME NEW a \in pushes', NEW b \in pushes', InPush(a), InPush(b), Target(a) = Target(b)
                 PROVE  a = b
      BY DEF LockAlone, Target, InPush
    <3> QED
      BY <1>l, <2>3 DEF LockAlone
  <2> QED
    BY <2>4, <2>5 DEF LockInv
<1>6. CASE PushLogFails(m) \/ PushWriteFails(m)
  <2>1. /\ InPush(m) /\ LockBecomes(Target(m), "free")
        /\ \E n : Moved(m, "send", 0, n)
    BY <1>6, PushLogFailsOp, PushWriteFailsOp DEF InPush
  <2>2. \A j \in Inst : j # Target(m) => task'[j] = task[j]
    BY <2>1 DEF LockBecomes, TaskBecomes
  <2> QED
    BY <1>h, <1>s, <2>1, <2>2
<1>7. CASE PushWrite(m)
  <2>1. InPush(m) /\ Answered(m)
    BY <1>7, PushWriteOp DEF InPush
  <2>2. \A j \in Inst : j # Target(m) => task'[j] = task[j]
    BY <1>7, PushWriteOp DEF TaskBecomes
  <2> QED
    BY <1>a, <1>h, <2>1, <2>2
<1> QED
  BY <1>1, <1>2, <1>3, <1>4, <1>5, <1>6, <1>7 DEF PushStep

(* Every step keeps LockInv.                                               *)
LEMMA NextLockInv ==
  ASSUME TypeOK, TypeOK', RunInv, LockInv, [Next]_vars
  PROVE  LockInv'
<1>l. LockHeld /\ LockAlone
  BY DEF LockInv
<1>o. \A n \in pushes : InPush(n) => /\ Target(n) \in Inst /\ KeyOf(Target(n)) = n.dest
                                     /\ Target(n)[3] = n.run
  BY PushFacts DEF InPush
<1>s. ASSUME \A n \in pushes' : n \in pushes \/ n.pc = "send",
             \A j \in Inst : \/ task[j].lock # "push"
                             \/ /\ task'[j].lock = task[j].lock
                                /\ task'[j].ProcessedIDs = task[j].ProcessedIDs
      PROVE  LockInv'
  BY <1>l, <1>o, <1>s, QuietLockInv DEF LockHeld, InPush
<1>0. CASE UNCHANGED vars
  BY <1>0, <1>s DEF vars
<1>1. ASSUME NEW m \in pushes, PushStep(m) PROVE LockInv'
  BY <1>1, PushLockInv
<1>2. CASE SourceLine \/ SourceEOS \/ SourceDone
  <2>1. SourceFrame
    BY <1>2, SourceLineOp, SourceEOSOp, SourceDoneOp
  <2>2. \A n \in pushes' : n \in pushes \/ n.pc = "send"
    BY <1>2 DEF SourceLine, SourceEOS, SourceDone, DataPush, EOSPushes
  <2> QED
    BY <1>s, <2>1, <2>2 DEF SourceFrame
<1>3. ASSUME NEW i \in Inst,
             \/ Operator(i) \/ OperatorExit(i) \/ ReplayLock(i) \/ ReplayWrite(i)
             \/ HandleOutput(i) \/ Crash(i) \/ KillProcess(i)
      PROVE  LockInv'
  <2>1. /\ \A n \in pushes' : n \in pushes \/ n.pc = "send"
        /\ \A j \in Inst : task'[j].ProcessedIDs = task[j].ProcessedIDs
    BY <1>3, InstQuiet
  <2>2. \A j \in Inst : task[j].lock # "push" \/ task'[j].lock = task[j].lock
    <3>1. CASE Operator(i) \/ OperatorExit(i) \/ HandleOutput(i) \/ Crash(i) \/ KillProcess(i)
      BY <3>1, OperatorOp, OperatorExitOp, HandleOutputOp, DieOp DEF TaskBecomes
    <3>2. CASE ReplayLock(i) \/ ReplayWrite(i)
      BY <3>2, ReplayLockOp, ReplayWriteOp DEF LockBecomes, TaskBecomes
    <3> QED
      BY <1>3, <3>1, <3>2
  <2> QED
    BY <1>s, <2>1, <2>2
<1>4. ASSUME NEW i \in Inst, HandleEOF(i) \/ HandleEOSSent(i) PROVE LockInv'
  <2>1. /\ \A n \in pushes' : n \in pushes \/ n.pc = "send"
        /\ \A j \in Inst : task'[j].ProcessedIDs = task[j].ProcessedIDs
    BY <1>4, HandlerStep
  <2>2. \A j \in Inst : task'[j].lock = task[j].lock
    BY <1>4, HandleEOFOp, HandleEOSSentOp DEF TaskBecomes
  <2> QED
    BY <1>s, <2>1, <2>2
<1>5. ASSUME NEW i \in Inst, KillCleanup(i) PROVE LockInv'
  BY <1>5, <1>s, KillCleanupOp
<1>6. ASSUME NEW r \in reports, TaskFinished(r) \/ ReportLost(r) PROVE LockInv'
  <2>1. task' = task /\ pushes' = pushes
    BY <1>6, TaskFinishedOp, ReportLostOp DEF LeaderFrame
  <2> QED
    BY <1>s, <2>1
<1>7. ASSUME NEW k \in Keys, LoadDedupLog(k) PROVE LockInv'
  BY <1>7, <1>s, LoadDedupLogOp DEF LeaderFrame
<1>8. ASSUME NEW k \in Keys, StartTask(k) PROVE LockInv'
  <2> DEFINE i == <<k[1], k[2], runs[k] + 1>>
  <2>1. task[i] = NoTask
    BY <1>8, StartStep
  <2>2. pushes' = pushes /\ \A j \in Inst : j # i => task'[j] = task[j]
    BY <1>8, StartTaskOp DEF TaskBecomes
  <2> QED
    BY <1>s, <2>1, <2>2, NoTaskFields
<1> QED
  BY <1>0, <1>1, <1>2, <1>3, <1>4, <1>5, <1>6, <1>7, <1>8 DEF Next, InstStep, Finished

(* LockInv is an invariant.                                                *)
LEMMA LocksHeld == Spec => []LockInv
<1>1. Init => LockInv
  BY DEF Init, LockInv, LockHeld, LockAlone
<1> QED
  BY <1>1, TypeCorrect, RunsFollow, NextLockInv, PTL DEF Spec

-----------------------------------------------------------------------------
(* The way of a tuple.                                                     *)

(* What a data push carries, wherever it stands.                           *)
SendOf(m) == [org |-> m.org, dest |-> m.dest, id |-> m.id, val |-> m.val]
DataPushes == {m \in pushes : m.kind = "data"}
Sends == {SendOf(m) : m \in DataPushes}

(* What a task has in its pipes.                                           *)
Held(i) == Vals(task[i].Stdin) \cup Vals(task[i].Stdout)

(* Task i has taken a tuple with value v.                                  *)
Consumed(i, v) ==
  \E a \in Sends : a.dest = KeyOf(i) /\ a.val = v /\ a.id \in task[i].ProcessedIDs

(* Every send has an origin, a destination in the next stage, an id and a  *)
(* line as its value.                                                      *)
LEMMA SendFacts ==
  ASSUME TypeOK, EosInv, NEW a \in Sends
  PROVE  /\ a.dest \in Keys /\ a.id \in MsgIds /\ a.val \in Lines /\ a.dest[1] \in Nat
         /\ \/ a.org = Source /\ a.org[1] = 0 /\ a.dest[1] = 1
            \/ a.org \in Inst /\ a.dest[1] = a.org[1] + 1
<1>1. PICK m \in DataPushes : a = SendOf(m)
  BY DEF Sends
<1>2. m \in pushes /\ m.kind = "data" /\ a.org = m.org /\ a.dest = m.dest /\ a.id = m.id /\ a.val = m.val
  BY <1>1 DEF DataPushes, SendOf
<1>3. /\ m.org \in Inst \cup {Source} /\ m.dest \in Keys /\ m.id \in MsgIds /\ m.val \in Lines
  BY <1>2, PushFacts
<1>4. (m.org = Source /\ m.dest[1] = 1) \/ (m.org \in Inst /\ m.dest[1] = m.org[1] + 1)
  BY <1>2 DEF EosInv, OriginsStarted
<1>5. Source[1] = 0 /\ m.dest[1] \in Nat
  BY <1>3, StreamAssumption DEF Source, Keys, Stages
<1> QED
  BY <1>2, <1>3, <1>4, <1>5

(* A push that moves carries what it carried.                              *)
LEMMA MoveKeepsSends ==
  ASSUME NEW m \in pushes, NEW p, NEW q, NEW n, Moved(m, p, q, n)
  PROVE  Sends' = Sends
<1>1. pushes' = (pushes \ {m}) \cup {n} /\ n.kind = m.kind /\ SendOf(n) = SendOf(m)
  BY DEF Moved, SendOf
<1>2. \A o : SendOf(o)' = SendOf(o)
  BY DEF SendOf
<1>3. ASSUME NEW o \in DataPushes' PROVE SendOf(o) \in Sends
  BY <1>1 DEF DataPushes, Sends
<1>4. ASSUME NEW o \in DataPushes PROVE \E c \in DataPushes' : SendOf(c) = SendOf(o)
  BY <1>1 DEF DataPushes
<1> QED
  BY <1>3, <1>4 DEF Sends, SendOf

(* A new data push adds one send.                                          *)
LEMMA CreateAddsSend ==
  ASSUME NEW n, NEW org, NEW dest, NEW id, NEW v, pushes' = pushes \cup {n},
         Created(n, org, dest, id, v)
  PROVE  \E a : /\ Sends' = Sends \cup {a} /\ a.org = org /\ a.dest = dest
                /\ a.id = id /\ a.val = v
<1>1. DataPushes' = DataPushes \cup {n}
  BY DEF DataPushes, Created
<1>2. Sends' = Sends \cup {SendOf(n)}
  BY <1>1 DEF Sends, SendOf
<1>3. SendOf(n).org = org /\ SendOf(n).dest = dest /\ SendOf(n).id = id /\ SendOf(n).val = v
  BY DEF Created, SendOf
<1> QED
  BY <1>2, <1>3

(* EOSs are not sends.                                                     *)
LEMMA EOSNoSend ==
  ASSUME NEW org \in Inst \cup {Source}, NEW s \in Stages, pushes' = pushes \cup EOSPushes(org, s)
  PROVE  Sends' = Sends
<1>1. DataPushes' = DataPushes
  BY EOSPushFacts DEF DataPushes
<1> QED
  BY <1>1 DEF Sends, SendOf

(* Task j keeps its pipes, its ids and its sequence number.                *)
SameFlow(j) ==
  /\ task'[j].Stdin = task[j].Stdin /\ task'[j].Stdout = task[j].Stdout
  /\ task'[j].ProcessedIDs = task[j].ProcessedIDs /\ task'[j].SeqNum = task[j].SeqNum
OnlyFlow(i) == \A j \in Inst : j # i => SameFlow(j)

(* The kinds of steps of a run without kills, as far as tuples go: nothing *)
(* moves; a task takes a tuple; its operator reads a line; the handler of  *)
(* the last stage writes a line; that of another stage sends it on; the    *)
(* source sends a line.                                                    *)
FlowStill ==
  /\ Sends' = Sends /\ output' = output /\ source'.seq = source.seq
  /\ \A j \in Inst : SameFlow(j)
FlowTakes(i, a) ==
  /\ Sends' = Sends /\ output' = output /\ source'.seq = source.seq
  /\ a \in Sends /\ a.dest = KeyOf(i) /\ a.id \notin task[i].ProcessedIDs
  /\ i[3] = 1 /\ Writable(i)
  /\ task'[i].Stdin = Append(task[i].Stdin, a.val) /\ task'[i].Stdout = task[i].Stdout
  /\ task'[i].ProcessedIDs = task[i].ProcessedIDs \cup {a.id}
  /\ task'[i].SeqNum = task[i].SeqNum
FlowWorks(i) ==
  /\ Sends' = Sends /\ output' = output /\ source'.seq = source.seq
  /\ task[i].Stdin # <<>> /\ task'[i].Stdin = Tail(task[i].Stdin)
  /\ task'[i].Stdout = IF <<i[1], Head(task[i].Stdin)>> \in Passes
                         THEN Append(task[i].Stdout, Head(task[i].Stdin)) ELSE task[i].Stdout
  /\ task'[i].ProcessedIDs = task[i].ProcessedIDs /\ task'[i].SeqNum = task[i].SeqNum
FlowReadsOut(i) ==
  /\ task[i].Stdout # <<>> /\ task'[i].Stdout = Tail(task[i].Stdout)
  /\ task'[i].Stdin = task[i].Stdin /\ task'[i].ProcessedIDs = task[i].ProcessedIDs
  /\ task'[i].SeqNum = task[i].SeqNum + 1 /\ task[i].handler = "scan"
  /\ source'.seq = source.seq
FlowWrites(i) ==
  /\ FlowReadsOut(i) /\ IsLastStage(i) /\ Sends' = Sends
  /\ \/ output' = Append(output, Head(task[i].Stdout))
     \/ output' = output /\ fails' = fails + 1
FlowSends(i, a) ==
  /\ FlowReadsOut(i) /\ ~IsLastStage(i) /\ output' = output
  /\ Sends' = Sends \cup {a} /\ a.org = i /\ a.dest[1] = i[1] + 1
  /\ a.id = <<i[1], i[2], task[i].SeqNum + 1>> /\ a.val = Head(task[i].Stdout)
FlowSource(a) ==
  /\ Sends' = Sends \cup {a} /\ output' = output /\ source'.seq = source.seq + 1
  /\ a.org = Source /\ a.dest[1] = 1 /\ a.id = <<0, 0, source.seq + 1>>
  /\ a.val = source.seq + 1 /\ source.seq + 1 \in Lines
  /\ \A j \in Inst : SameFlow(j)
FlowStep ==
  \/ FlowStill
  \/ \E i \in Inst : OnlyFlow(i) /\ \E a : FlowTakes(i, a)
  \/ \E i \in Inst : OnlyFlow(i) /\ FlowWorks(i)
  \/ \E i \in Inst : OnlyFlow(i) /\ FlowWrites(i)
  \/ \E i \in Inst : OnlyFlow(i) /\ \E a : FlowSends(i, a)
  \/ \E a : FlowSource(a)

(* A push in a run without kills moves nothing or has its tuple taken.     *)
LEMMA PushFlow ==
  ASSUME TypeOK, RunInv, CalmInv, LockInv, kills = 0, NEW m \in pushes, PushStep(m)
  PROVE  FlowStep
<1>q. PushQuiet(m)
  BY PushIsQuiet
<1>s. Sends' = Sends
  BY <1>q, MoveKeepsSends DEF PushQuiet
<1>f. output' = output /\ source'.seq = source.seq
  BY <1>q DEF PushQuiet, PushFrame
<1>i. m.pc \in {"locking", "logging", "writing"} => /\ Target(m) \in Inst
                                                   /\ KeyOf(Target(m)) = m.dest
                                                   /\ Target(m)[3] = m.run
  BY PushFacts
<1>u. ASSUME task' = task PROVE FlowStep
  BY <1>u, <1>s, <1>f DEF FlowStep, FlowStill, SameFlow
<1>l. ASSUME NEW l, LockBecomes(Target(m), l) PROVE FlowStep
  <2>1. \A j \in Inst : SameFlow(j)
    BY <1>l DEF LockBecomes, TaskBecomes, SameFlow
  <2> QED
    BY <1>s, <1>f, <2>1 DEF FlowStep, FlowStill
<1>1. CASE PushLookup(m) \/ PushDuplicate(m) \/ PushLog(m)
  BY <1>1, <1>u, PushLookupOp, PushDuplicateOp, PushLogOp
<1>2. CASE PushFresh(m) \/ PushLogFails(m) \/ PushWriteFails(m)
  BY <1>2, <1>l, PushFreshOp, PushLogFailsOp, PushWriteFailsOp
<1>3. CASE PushEOS(m)
  <2>1. \A j \in Inst : SameFlow(j)
    BY <1>3, PushEOSOp DEF TaskBecomes, SameFlow
  <2> QED
    BY <1>s, <1>f, <2>1 DEF FlowStep, FlowStill
<1>4. CASE PushWrite(m)
  <2> DEFINE i == Target(m)
             a == SendOf(m)
  <2>1. m.pc = "writing" /\ Writable(i)
    BY <1>4, PushWriteOp
  <2>2. i \in Inst /\ KeyOf(i) = m.dest /\ i[3] = m.run /\ m.kind = "data"
    BY <1>i, <2>1, PushFacts
  <2>3. a \in Sends /\ a.dest = m.dest /\ a.id = m.id /\ a.val = m.val
    BY <2>2 DEF Sends, DataPushes, SendOf
  <2>4. a.id \notin task[i].ProcessedIDs
    BY <2>1, <2>3 DEF LockInv, LockHeld, InPush
  <2>5. i[3] = 1
    <3>1. m.run # 0 /\ m.run <= runs[m.dest] /\ runs[m.dest] = 1 /\ m.run \in Nat
      BY <2>1, PushFacts, RunTypes DEF RunInv, BoundStarted, CalmInv, OneRun
    <3> QED
      BY <2>2, <3>1
  <2>6. TaskBecomes(i, task[i].proc, Append(task[i].Stdin, m.val), task[i].pipe,
                    task[i].Stdout, task[i].ProcessedIDs \cup {m.id}, task[i].SeqNum,
                    task[i].EOSCount, "free", task[i].replay, task[i].handler)
    BY <1>4, PushWriteOp
  <2> HIDE DEF i, a
  <2>7. OnlyFlow(i)
    BY <2>6 DEF TaskBecomes, OnlyFlow, SameFlow
  <2>8. FlowTakes(i, a)
    BY <1>s, <1>f, <2>1, <2>2, <2>3, <2>4, <2>5, <2>6 DEF FlowTakes, TaskBecomes
  <2> QED
    BY <2>2, <2>7, <2>8 DEF FlowStep
<1> QED
  BY <1>1, <1>2, <1>3, <1>4 DEF PushStep

(* Every step of a run without kills is of one of the kinds.               *)
LEMMA StepFlow ==
  ASSUME TypeOK, RunInv, CalmInv, LockInv, kills' = 0, [Next]_vars
  PROVE  FlowStep
<1>k. kills = 0 /\ OneRun /\ EndsWell /\ kills + 1 # 0
  BY FaultsStay DEF CalmInv
<1>s. ASSUME pushes' = pushes, task' = task, output' = output, source'.seq = source.seq
      PROVE  FlowStep
  BY <1>s DEF FlowStep, FlowStill, SameFlow, Sends, DataPushes, SendOf
<1>0. CASE UNCHANGED vars
  BY <1>0, <1>s DEF vars, files
<1>1. ASSUME NEW m \in pushes, PushStep(m) PROVE FlowStep
  BY <1>1, <1>k, PushFlow
<1>2. CASE SourceLine
  <2>1. PICK n : /\ pushes' = pushes \cup {n}
                 /\ Created(n, Source, <<1, (source.seq + 1) % NumTasks>>,
                            <<0, 0, source.seq + 1>>, source.seq + 1)
    BY <1>2, SourceLineOp
  <2>2. PICK a : /\ Sends' = Sends \cup {a} /\ a.org = Source
                 /\ a.dest = <<1, (source.seq + 1) % NumTasks>>
                 /\ a.id = <<0, 0, source.seq + 1>> /\ a.val = source.seq + 1
    BY <2>1, CreateAddsSend
  <2>3. FlowSource(a)
    BY <1>2, <2>2, SourceLineOp DEF SourceFrame, FlowSource, SameFlow
  <2> QED
    BY <2>3 DEF FlowStep
<1>3. CASE SourceEOS
  <2>1. 1 \in Stages
    BY StreamAssumption DEF Stages
  <2>2. Sends' = Sends
    BY <1>3, <2>1, SourceEOSOp, EOSNoSend
  <2> QED
    BY <1>3, <2>2, SourceEOSOp DEF SourceFrame, FlowStep, FlowStill, SameFlow
<1>4. CASE SourceDone
  BY <1>4, <1>s, SourceDoneOp DEF SourceFrame
<1>5. ASSUME NEW i \in Inst, Operator(i) PROVE FlowStep
  <2>1. PICK y \in Seq(Lines) :
          /\ y = IF <<i[1], Head(task[i].Stdin)>> \in Passes
                   THEN Append(task[i].Stdout, Head(task[i].Stdin)) ELSE task[i].Stdout
          /\ TaskBecomes(i, task[i].proc, Tail(task[i].Stdin), task[i].pipe, y,
                         task[i].ProcessedIDs, task[i].SeqNum, task[i].EOSCount,
                         task[i].lock, task[i].replay, task[i].handler)
    BY <1>5, OperatorOp
  <2>2. task[i].Stdin # <<>> /\ NodeFrame /\ UNCHANGED <<pushes, output>>
    BY <1>5, OperatorOp
  <2>3. OnlyFlow(i)
    BY <2>1 DEF TaskBecomes, OnlyFlow, SameFlow
  <2>4. Sends' = Sends
    BY <2>2 DEF Sends, DataPushes, SendOf
  <2>5. FlowWorks(i)
    BY <2>1, <2>2, <2>4 DEF FlowWorks, TaskBecomes, NodeFrame
  <2> QED
    BY <2>3, <2>5 DEF FlowStep
<1>6. ASSUME NEW i \in Inst, OperatorExit(i) \/ HandleEOSSent(i) PROVE FlowStep
  <2>1. \A j \in Inst : SameFlow(j)
    BY <1>6, OperatorExitOp, HandleEOSSentOp DEF TaskBecomes, SameFlow
  <2>2. NodeFrame /\ UNCHANGED <<pushes, output>>
    BY <1>6, OperatorExitOp, HandleEOSSentOp
  <2> QED
    BY <2>1, <2>2 DEF NodeFrame, FlowStep, FlowStill, Sends, DataPushes, SendOf
<1>7. ASSUME NEW i \in Inst, HandleEOF(i) PROVE FlowStep
  <2>1. \A j \in Inst : SameFlow(j)
    BY <1>7, HandleEOFOp DEF TaskBecomes, SameFlow
  <2>2. NodeFrame /\ UNCHANGED <<output>>
    BY <1>7, HandleEOFOp
  <2>3. \/ pushes' = pushes
        \/ i[1] + 1 \in Stages /\ pushes' = pushes \cup EOSPushes(i, i[1] + 1)
    BY <1>7, HandleEOFOp
  <2>4. Sends' = Sends
    BY <2>3, EOSNoSend DEF Sends, DataPushes, SendOf
  <2> QED
    BY <2>1, <2>2, <2>4 DEF NodeFrame, FlowStep, FlowStill
<1>8. ASSUME NEW i \in Inst, HandleOutput(i) PROVE FlowStep
  <2> DEFINE v == Head(task[i].Stdout)
             k == <<i[1] + 1, KeyHash[v] % NumTasks>>
             id == <<i[1], i[2], task[i].SeqNum + 1>>
  <2>1. /\ task[i].Stdout # <<>> /\ NodeFrame /\ task[i].handler = "scan"
        /\ TaskBecomes(i, task[i].proc, task[i].Stdin, task[i].pipe, Tail(task[i].Stdout),
                       task[i].ProcessedIDs, task[i].SeqNum + 1, task[i].EOSCount,
                       task[i].lock, task[i].replay, task[i].handler)
    BY <1>8, HandleOutputOp
  <2>2. \/ /\ IsLastStage(i) /\ pushes' = pushes
           /\ \/ output' = Append(output, v)
              \/ fails' = fails + 1 /\ output' \in {output, Append(output, v)}
        \/ /\ ~IsLastStage(i) /\ output' = output
           /\ \E n : pushes' = pushes \cup {n} /\ Created(n, i, k, id, v)
    BY <1>8, HandleOutputOp
  <2>3. OnlyFlow(i)
    BY <2>1 DEF TaskBecomes, OnlyFlow, SameFlow
  <2>4. FlowReadsOut(i)
    BY <2>1 DEF TaskBecomes, FlowReadsOut, NodeFrame
  <2>5. CASE IsLastStage(i)
    <3>1. FlowWrites(i)
      BY <2>2, <2>4, <2>5 DEF FlowWrites, Sends, DataPushes, SendOf
    <3> QED
      BY <2>3, <3>1 DEF FlowStep
  <2>6. CASE ~IsLastStage(i)
    <3>1. PICK n : pushes' = pushes \cup {n} /\ Created(n, i, k, id, v)
      BY <2>2, <2>6
    <3>2. PICK a : /\ Sends' = Sends \cup {a} /\ a.org = i /\ a.dest = k
                   /\ a.id = id /\ a.val = v
      BY <3>1, CreateAddsSend
    <3>3. a.dest[1] = i[1] + 1 /\ output' = output
      BY <2>2, <2>6, <3>2
    <3>4. FlowSends(i, a)
      BY <2>4, <2>6, <3>2, <3>3 DEF FlowSends
    <3> QED
      BY <2>3, <3>4 DEF FlowStep
  <2> QED
    BY <2>5, <2>6
<1>9. ASSUME NEW i \in Inst, \/ ReplayLock(i) \/ ReplayWrite(i) \/ Crash(i) \/ KillProcess(i)
      PROVE  FALSE
  BY <1>9, <1>k, ReplayLockOp, ReplayWriteOp, DieOp DEF EndsWell
<1>10. ASSUME NEW i \in Inst, KillCleanup(i) PROVE FlowStep
  BY <1>10, <1>s DEF KillCleanup, files
<1>11. ASSUME NEW r \in reports, TaskFinished(r) \/ ReportLost(r) PROVE FlowStep
  BY <1>11, <1>s DEF TaskFinished, ReportLost, files
<1>12. ASSUME NEW k \in Keys, LoadDedupLog(k) \/ StartTask(k) PROVE FALSE
  BY <1>12, <1>k, LoadDedupLogOp, StartTaskOp DEF OneRun
<1> QED
  BY <1>0, <1>1, <1>2, <1>3, <1>4, <1>5, <1>6, <1>7, <1>8, <1>9, <1>10, <1>11, <1>12
     DEF Next, InstStep, Finished

EntersOnce == \A a, b \in Sends : a.dest[1] = b.dest[1] /\ a.val = b.val => a = b
PipesApart ==
  \A i \in Inst : /\ Distinct(task[i].Stdin) /\ Distinct(task[i].Stdout)
                  /\ Vals(task[i].Stdin) \cap Vals(task[i].Stdout) = {}
HeldOnce ==
  \A i \in Inst : \A v \in Held(i) :
    /\ Consumed(i, v)
    /\ \A a \in Sends : ~(a.org[1] = i[1] /\ a.val = v)
    /\ IsLastStage(i) => v \notin Vals(output)
SentConsumed == \A a \in Sends : a.org # Source => Consumed(a.org, a.val)
WrittenConsumed ==
  \A v \in Vals(output) : \E i \in Inst : IsLastStage(i) /\ Consumed(i, v)
ReadBefore == \A a \in Sends : a.val <= source.seq

(* As long as no process was killed a line is at one place of a stage at   *)
(* most: it enters a stage once, one task takes it, and it is in a pipe of *)
(* that task or was sent on or written, never two of these.                *)
FlowInv ==
  kills = 0 => /\ EntersOnce /\ PipesApart /\ HeldOnce /\ SentConsumed /\ WrittenConsumed
               /\ Distinct(output) /\ ReadBefore

(* Only the first process of a task has taken tuples.                      *)
LEMMA ConsumerIsFirst ==
  ASSUME TypeOK, RunInv, CalmInv, kills = 0, NEW i \in Inst, NEW v, Consumed(i, v)
  PROVE  i[3] = 1
<1>1. task[i].ProcessedIDs # {}
  BY DEF Consumed
<1>2. ~(i[3] > runs[KeyOf(i)])
  BY <1>1, NoTaskFields DEF RunInv, Unstarted
<1>3. runs[KeyOf(i)] = 1 /\ i[3] \in Nat /\ i[3] # 0
  BY InstFacts, StreamAssumption DEF CalmInv, OneRun, Runs
<1> QED
  BY <1>2, <1>3

(* One task of a stage takes a line.                                       *)
LEMMA OneConsumer ==
  ASSUME TypeOK, RunInv, CalmInv, EntersOnce, kills = 0, NEW i \in Inst, NEW j \in Inst, NEW v,
         Consumed(i, v), Consumed(j, v), i[1] = j[1]
  PROVE  i = j
<1>1. PICK a \in Sends : a.dest = KeyOf(i) /\ a.val = v
  BY DEF Consumed
<1>2. PICK b \in Sends : b.dest = KeyOf(j) /\ b.val = v
  BY DEF Consumed
<1>3. KeyOf(i)[1] = i[1] /\ KeyOf(j)[1] = j[1]
  BY InstFacts
<1>4. a = b
  BY <1>1, <1>2, <1>3 DEF EntersOnce
<1>5. i[3] = 1 /\ j[3] = 1
  BY ConsumerIsFirst
<1> QED
  BY <1>1, <1>2, <1>4, <1>5, InstFacts DEF KeyOf

(* What was taken stays taken.                                             *)
LEMMA ConsumedStays ==
  ASSUME Sends \subseteq Sends', NEW i, task[i].ProcessedIDs \subseteq task'[i].ProcessedIDs, NEW v,
         Consumed(i, v)
  PROVE  Consumed(i, v)'
BY DEF Consumed, KeyOf

(* Pipes that do not change stay apart.                                    *)
LEMMA ApartStays ==
  ASSUME PipesApart, \A j \in Inst : SameFlow(j)
  PROVE  PipesApart'
<1> SUFFICES ASSUME NEW j \in Inst
             PROVE  /\ Distinct(task'[j].Stdin) /\ Distinct(task'[j].Stdout)
                    /\ Vals(task'[j].Stdin) \cap Vals(task'[j].Stdout) = {}
  BY DEF PipesApart, Distinct, Vals
<1> QED
  BY DEF PipesApart, SameFlow

(* A step that sends nothing, writes nothing and lets nothing be taken     *)
(* moves a line at most within the pipes of a task, or drops it.           *)
LEMMA QuietFlowInv ==
  ASSUME TypeOK, EosInv, FlowInv, kills = 0, Sends' = Sends, output' = output, source'.seq = source.seq,
         \A j \in Inst : /\ task[j].ProcessedIDs \subseteq task'[j].ProcessedIDs
                         /\ Held(j)' \subseteq Held(j),
         PipesApart'
  PROVE  FlowInv'
<1>k. /\ EntersOnce /\ PipesApart /\ HeldOnce /\ SentConsumed /\ WrittenConsumed
      /\ Distinct(output) /\ ReadBefore
  BY DEF FlowInv
<1>c. ASSUME NEW i \in Inst, NEW v, Consumed(i, v) PROVE Consumed(i, v)'
  BY <1>c, ConsumedStays
<1>1. EntersOnce' /\ Distinct(output)' /\ ReadBefore'
  BY <1>k DEF EntersOnce, Distinct, ReadBefore
<1>2. HeldOnce'
  <2> SUFFICES ASSUME NEW i \in Inst, NEW v \in Held(i)'
               PROVE  /\ Consumed(i, v)'
                      /\ \A a \in Sends : ~(a.org[1] = i[1] /\ a.val = v)
                      /\ IsLastStage(i) => v \notin Vals(output)
    BY DEF HeldOnce, IsLastStage, Vals
  <2> QED
    BY <1>k, <1>c DEF HeldOnce
<1>3. SentConsumed'
  <2> SUFFICES ASSUME NEW a \in Sends, a.org # Source PROVE Consumed(a.org, a.val)'
    BY DEF SentConsumed
  <2>1. a.org \in Inst
    BY SendFacts
  <2> QED
    BY <1>k, <1>c, <2>1 DEF SentConsumed
<1>4. WrittenConsumed'
  <2> SUFFICES ASSUME NEW v \in Vals(output)
               PROVE  \E i \in Inst : IsLastStage(i) /\ Consumed(i, v)'
    BY DEF WrittenConsumed, IsLastStage, Vals
  <2> QED
    BY <1>k, <1>c DEF WrittenConsumed
<1> QED
  BY <1>1, <1>2, <1>3, <1>4 DEF FlowInv

(* A tuple that is taken is new to every task of the stage.                *)
LEMMA TakesFlowInv ==
  ASSUME TypeOK, TypeOK', RunInv, EosInv, CalmInv, FlowInv, kills = 0, NEW i \in Inst, NEW a,
         OnlyFlow(i), FlowTakes(i, a)
  PROVE  FlowInv'
<1> DEFINE v == a.val
<1>k. /\ EntersOnce /\ PipesApart /\ HeldOnce /\ SentConsumed /\ WrittenConsumed
      /\ Distinct(output) /\ ReadBefore
  BY DEF FlowInv
<1>a. /\ a \in Sends /\ a.dest = KeyOf(i) /\ a.id \notin task[i].ProcessedIDs /\ i[3] = 1
      /\ Sends' = Sends /\ output' = output /\ source'.seq = source.seq /\ v \in Lines
      /\ KeyOf(i)[1] = i[1]
  BY SendFacts, InstFacts DEF FlowTakes
<1>p. \A j \in Inst : task[j].ProcessedIDs \subseteq task'[j].ProcessedIDs
  BY DEF FlowTakes, OnlyFlow, SameFlow
<1>c. ASSUME NEW j \in Inst, NEW w, Consumed(j, w) PROVE Consumed(j, w)'
  BY <1>a, <1>c, <1>p, ConsumedStays
<1>n. ASSUME NEW j \in Inst, j[1] = i[1], Consumed(j, v) PROVE FALSE
  <2>1. PICK b \in Sends : b.dest = KeyOf(j) /\ b.val = v /\ b.id \in task[j].ProcessedIDs
    BY <1>n DEF Consumed
  <2>2. KeyOf(j)[1] = j[1] /\ j[3] = 1
    BY <1>n, ConsumerIsFirst, InstFacts
  <2>3. a = b
    BY <1>a, <1>k, <1>n, <2>1, <2>2 DEF EntersOnce
  <2>4. i = j
    BY <1>a, <2>1, <2>2, <2>3, InstFacts DEF KeyOf
  <2> QED
    BY <1>a, <2>1, <2>3, <2>4
<1>t. task[i].Stdin \in Seq(Lines)
  BY FieldTypes DEF TypeOK
<1>v. v \notin Held(i)
  BY <1>k, <1>n DEF HeldOnce
<1>d. /\ Vals(task'[i].Stdin) = Vals(task[i].Stdin) \cup {v}
      /\ Distinct(task[i].Stdin) => Distinct(task'[i].Stdin)
      /\ task'[i].Stdout = task[i].Stdout
  <2>1. task'[i].Stdin = Append(task[i].Stdin, v) /\ task'[i].Stdout = task[i].Stdout
    BY DEF FlowTakes
  <2> QED
    BY <1>a, <1>t, <1>v, <2>1, AppendVals DEF Held
<1>h. Held(i)' = Held(i) \cup {v} /\ \A j \in Inst : j # i => Held(j)' = Held(j)
  <2>1. \A j \in Inst : Held(j)' = Vals(task'[j].Stdin) \cup Vals(task'[j].Stdout)
    BY DEF Held, Vals
  <2> QED
    BY <1>d, <2>1 DEF Held, OnlyFlow, SameFlow
<1>y. Consumed(i, v)'
  <2>1. a.id \in task'[i].ProcessedIDs
    BY DEF FlowTakes
  <2> QED
    BY <1>a, <2>1 DEF Consumed, KeyOf
<1>1. EntersOnce' /\ Distinct(output)' /\ ReadBefore'
  BY <1>a, <1>k DEF EntersOnce, Distinct, ReadBefore
<1>2. PipesApart'
  <2> SUFFICES ASSUME NEW j \in Inst
               PROVE  /\ Distinct(task'[j].Stdin) /\ Distinct(task'[j].Stdout)
                      /\ Vals(task'[j].Stdin) \cap Vals(task'[j].Stdout) = {}
    BY DEF PipesApart, Distinct, Vals
  <2>1. CASE j = i
    BY <1>d, <1>k, <1>v, <2>1 DEF PipesApart, Held
  <2>2. CASE j # i
    BY <1>k, <2>2 DEF PipesApart, OnlyFlow, SameFlow
  <2> QED
    BY <2>1, <2>2
<1>3. HeldOnce'
  <2> SUFFICES ASSUME NEW j \in Inst, NEW w \in Held(j)'
               PROVE  /\ Consumed(j, w)'
                      /\ \A b \in Sends : ~(b.org[1] = j[1] /\ b.val = w)
                      /\ IsLastStage(j) => w \notin Vals(output)
    BY <1>a DEF HeldOnce, IsLastStage, Vals
  <2>1. CASE w \in Held(j)
    BY <1>c, <1>k, <2>1 DEF HeldOnce
  <2>2. CASE w \notin Held(j)
    <3>1. j = i /\ w = v
      BY <1>h, <2>2
    <3>2. ASSUME NEW b \in Sends, b.org[1] = i[1], b.val = v PROVE FALSE
      <4>1. i[1] # 0
        BY InstFacts DEF Stages
      <4>2. b.org \in Inst /\ b.org # Source
        BY <3>2, <4>1, SendFacts, InstFacts
      <4> QED
        BY <1>k, <1>n, <3>2, <4>2 DEF SentConsumed
    <3>3. ASSUME IsLastStage(i), v \in Vals(output) PROVE FALSE
      <4>1. PICK o \in Inst : IsLastStage(o) /\ Consumed(o, v)
        BY <1>k, <3>3 DEF WrittenConsumed
      <4> QED
        BY <1>n, <3>3, <4>1 DEF IsLastStage
    <3> QED
      BY <1>y, <3>1, <3>2, <3>3
  <2> QED
    BY <2>1, <2>2
<1>4. SentConsumed'
  <2> SUFFICES ASSUME NEW b \in Sends, b.org # Source PROVE Consumed(b.org, b.val)'
    BY <1>a DEF SentConsumed
  <2>1. b.org \in Inst
    BY SendFacts
  <2> QED
    BY <1>k, <1>c, <2>1 DEF SentConsumed
<1>5. WrittenConsumed'
  <2> SUFFICES ASSUME NEW w \in Vals(output)
               PROVE  \E j \in Inst : IsLastStage(j) /\ Consumed(j, w)'
    BY <1>a DEF WrittenConsumed, IsLastStage, Vals
  <2> QED
    BY <1>k, <1>c DEF WrittenConsumed
<1> QED
  BY <1>1, <1>2, <1>3, <1>4, <1>5 DEF FlowInv

(* The operator takes a line from stdin and prints it or drops it.         *)
LEMMA WorksFlowInv ==
  ASSUME TypeOK, EosInv, FlowInv, kills = 0, NEW i \in Inst, OnlyFlow(i), FlowWorks(i)
  PROVE  FlowInv'
<1> DEFINE v == Head(task[i].Stdin)
           x == Tail(task[i].Stdin)
           y == task'[i].Stdout
<1>k. PipesApart
  BY DEF FlowInv
<1>t. task[i].Stdin \in Seq(Lines) /\ task[i].Stdout \in Seq(Lines) /\ task[i].Stdin # <<>>
  BY FieldTypes DEF TypeOK, FlowWorks
<1>1. /\ v \in Lines /\ x \in Seq(Lines) /\ Vals(task[i].Stdin) = {v} \cup Vals(x)
      /\ Distinct(x) /\ v \notin Vals(x)
  BY <1>k, <1>t, TailVals DEF PipesApart
<1>2. v \notin Vals(task[i].Stdout)
  BY <1>1, <1>k DEF PipesApart
<1>3. task'[i].Stdin = x /\ (y = task[i].Stdout \/ y = Append(task[i].Stdout, v))
  BY DEF FlowWorks
<1>4. Vals(y) \subseteq Vals(task[i].Stdout) \cup {v} /\ Distinct(y)
  <2>1. Distinct(task[i].Stdout)
    BY <1>k DEF PipesApart
  <2>2. Vals(Append(task[i].Stdout, v)) = Vals(task[i].Stdout) \cup {v} /\ Distinct(Append(task[i].Stdout, v))
    BY <1>1, <1>2, <1>t, <2>1, AppendVals
  <2> QED
    BY <1>3, <2>1, <2>2
<1> HIDE DEF v, x
<1>5. PipesApart'
  <2> SUFFICES ASSUME NEW j \in Inst
               PROVE  /\ Distinct(task'[j].Stdin) /\ Distinct(task'[j].Stdout)
                      /\ Vals(task'[j].Stdin) \cap Vals(task'[j].Stdout) = {}
    BY DEF PipesApart, Distinct, Vals
  <2>1. CASE j = i
    BY <1>1, <1>3, <1>4, <1>k, <2>1 DEF PipesApart
  <2>2. CASE j # i
    BY <1>k, <2>2 DEF PipesApart, OnlyFlow, SameFlow
  <2> QED
    BY <2>1, <2>2
<1>6. \A j \in Inst : Held(j)' \subseteq Held(j)
  <2> SUFFICES ASSUME NEW j \in Inst
               PROVE  Vals(task'[j].Stdin) \cup Vals(task'[j].Stdout) \subseteq Held(j)
    BY DEF Held, Vals
  <2>1. CASE j = i
    BY <1>1, <1>3, <1>4, <2>1 DEF Held
  <2>2. CASE j # i
    BY <2>2 DEF Held, OnlyFlow, SameFlow
  <2> QED
    BY <2>1, <2>2
<1>7. \A j \in Inst : task[j].ProcessedIDs \subseteq task'[j].ProcessedIDs
  BY DEF FlowWorks, OnlyFlow, SameFlow
<1>8. Sends' = Sends /\ output' = output /\ source'.seq = source.seq
  BY DEF FlowWorks
<1> QED
  BY <1>5, <1>6, <1>7, <1>8, QuietFlowInv

(* The handler takes the oldest line from stdout.                          *)
LEMMA ReadsOutFacts ==
  ASSUME TypeOK, PipesApart, NEW i \in Inst, OnlyFlow(i), FlowReadsOut(i)
  PROVE  /\ Head(task[i].Stdout) \in Lines /\ Head(task[i].Stdout) \in Held(i)
         /\ Held(i)' = Held(i) \ {Head(task[i].Stdout)}
         /\ Vals(task[i].Stdout)' = Vals(task[i].Stdout) \ {Head(task[i].Stdout)}
         /\ \A j \in Inst : j # i => Held(j)' = Held(j)
         /\ \A j \in Inst : task'[j].ProcessedIDs = task[j].ProcessedIDs
         /\ PipesApart'
<1> DEFINE v == Head(task[i].Stdout)
           x == Tail(task[i].Stdout)
<1>t. task[i].Stdout \in Seq(Lines) /\ task[i].Stdout # <<>>
  BY FieldTypes DEF TypeOK, FlowReadsOut
<1>1. /\ v \in Lines /\ x \in Seq(Lines) /\ Vals(task[i].Stdout) = {v} \cup Vals(x)
      /\ Distinct(x) /\ v \notin Vals(x)
  BY <1>t, TailVals DEF PipesApart
<1>2. task'[i].Stdout = x /\ task'[i].Stdin = task[i].Stdin
  BY DEF FlowReadsOut
<1> HIDE DEF v, x
<1>3. Held(i)' = Vals(task[i].Stdin) \cup Vals(x) /\ Vals(task[i].Stdout)' = Vals(x)
  BY <1>2 DEF Held, Vals
<1>4. v \notin Vals(task[i].Stdin)
  BY <1>1 DEF PipesApart
<1>5. Held(i)' = Held(i) \ {v} /\ v \in Held(i) /\ Vals(task[i].Stdout)' = Vals(task[i].Stdout) \ {v}
  BY <1>1, <1>3, <1>4 DEF Held
<1>6. \A j \in Inst : j # i => Held(j)' = Held(j)
  BY DEF Held, OnlyFlow, SameFlow, Vals
<1>7. \A j \in Inst : task'[j].ProcessedIDs = task[j].ProcessedIDs
  BY DEF FlowReadsOut, OnlyFlow, SameFlow
<1>8. PipesApart'
  <2> SUFFICES ASSUME NEW j \in Inst
               PROVE  /\ Distinct(task'[j].Stdin) /\ Distinct(task'[j].Stdout)
                      /\ Vals(task'[j].Stdin) \cap Vals(task'[j].Stdout) = {}
    BY DEF PipesApart, Distinct, Vals
  <2>1. CASE j = i
    BY <1>1, <1>2, <2>1 DEF PipesApart
  <2>2. CASE j # i
    BY <2>2 DEF PipesApart, OnlyFlow, SameFlow
  <2> QED
    BY <2>1, <2>2
<1> QED
  BY <1>1, <1>5, <1>6, <1>7, <1>8 DEF v

(* The last stage writes a line that it took and has not written before.   *)
LEMMA WritesFlowInv ==
  ASSUME TypeOK, TypeOK', RunInv, EosInv, CalmInv, FlowInv, kills = 0, NEW i \in Inst,
         OnlyFlow(i), FlowWrites(i)
  PROVE  FlowInv'
<1> DEFINE v == Head(task[i].Stdout)
<1>k. /\ EntersOnce /\ PipesApart /\ HeldOnce /\ SentConsumed /\ WrittenConsumed
      /\ Distinct(output) /\ ReadBefore
  BY DEF FlowInv
<1>r. FlowReadsOut(i) /\ IsLastStage(i) /\ Sends' = Sends /\ source'.seq = source.seq
      /\ (output' = Append(output, v) \/ output' = output)
  BY DEF FlowWrites, FlowReadsOut
<1>v. /\ v \in Lines /\ v \in Held(i) /\ Held(i)' = Held(i) \ {v}
      /\ \A j \in Inst : j # i => Held(j)' = Held(j)
      /\ \A j \in Inst : task'[j].ProcessedIDs = task[j].ProcessedIDs
      /\ PipesApart'
  BY <1>k, <1>r, ReadsOutFacts
<1> HIDE DEF v
<1>w. Consumed(i, v) /\ v \notin Vals(output)
  BY <1>k, <1>r, <1>v DEF HeldOnce
<1>o. Vals(output') \subseteq Vals(output) \cup {v} /\ Distinct(output')
  <2>1. output \in Seq(Lines)
    BY DEF TypeOK, FilesOK
  <2>2. Vals(Append(output, v)) = Vals(output) \cup {v} /\ Distinct(Append(output, v))
    BY <1>k, <1>v, <1>w, <2>1, AppendVals
  <2> QED
    BY <1>k, <1>r, <2>2
<1>c. ASSUME NEW j \in Inst, NEW w, Consumed(j, w) PROVE Consumed(j, w)'
  BY <1>c, <1>r, <1>v, ConsumedStays
<1>1. EntersOnce' /\ Distinct(output)' /\ ReadBefore'
  BY <1>k, <1>r, <1>o DEF EntersOnce, Distinct, ReadBefore
<1>2. HeldOnce'
  <2> SUFFICES ASSUME NEW j \in Inst, NEW w \in Held(j)'
               PROVE  /\ Consumed(j, w)'
                      /\ \A b \in Sends : ~(b.org[1] = j[1] /\ b.val = w)
                      /\ IsLastStage(j) => w \notin Vals(output')
    BY <1>r DEF HeldOnce, IsLastStage, Vals
  <2>1. w \in Held(j)
    BY <1>v
  <2>2. /\ Consumed(j, w) /\ \A b \in Sends : ~(b.org[1] = j[1] /\ b.val = w)
        /\ IsLastStage(j) => w \notin Vals(output)
    BY <1>k, <2>1 DEF HeldOnce
  <2>3. IsLastStage(j) => w # v
    <3>1. CASE j = i
      BY <1>v, <3>1
    <3>2. CASE j # i
      BY <1>k, <1>r, <1>w, <2>2, <3>2, OneConsumer DEF IsLastStage
    <3> QED
      BY <3>1, <3>2
  <2> QED
    BY <1>c, <1>o, <2>2, <2>3
<1>3. SentConsumed'
  <2> SUFFICES ASSUME NEW b \in Sends, b.org # Source PROVE Consumed(b.org, b.val)'
    BY <1>r DEF SentConsumed
  <2>1. b.org \in Inst
    BY SendFacts
  <2> QED
    BY <1>k, <1>c, <2>1 DEF SentConsumed
<1>4. WrittenConsumed'
  <2> SUFFICES ASSUME NEW w \in Vals(output')
               PROVE  \E j \in Inst : IsLastStage(j) /\ Consumed(j, w)'
    BY DEF WrittenConsumed, IsLastStage, Vals
  <2> QED
    BY <1>k, <1>c, <1>o, <1>r, <1>w DEF WrittenConsumed
<1> QED
  BY <1>1, <1>v, <1>2, <1>3, <1>4 DEF FlowInv

(* Another stage sends a line that it took and has not sent before.        *)
LEMMA SendsFlowInv ==
  ASSUME TypeOK, TypeOK', RunInv, EosInv, CalmInv, FlowInv, kills = 0, NEW i \in Inst, NEW a,
         OnlyFlow(i), FlowSends(i, a)
  PROVE  FlowInv'
<1> DEFINE v == Head(task[i].Stdout)
<1>k. /\ EntersOnce /\ PipesApart /\ HeldOnce /\ SentConsumed /\ WrittenConsumed
      /\ Distinct(output) /\ ReadBefore
  BY DEF FlowInv
<1>r. FlowReadsOut(i) /\ ~IsLastStage(i) /\ Sends' = Sends \cup {a} /\ source'.seq = source.seq
      /\ output' = output /\ a.org = i /\ a.dest[1] = i[1] + 1 /\ a.val = v
  BY DEF FlowSends, FlowReadsOut
<1>v. /\ v \in Lines /\ v \in Held(i) /\ Held(i)' = Held(i) \ {v}
      /\ \A j \in Inst : j # i => Held(j)' = Held(j)
      /\ \A j \in Inst : task'[j].ProcessedIDs = task[j].ProcessedIDs
      /\ PipesApart'
  BY <1>k, <1>r, ReadsOutFacts
<1> HIDE DEF v
<1>w. Consumed(i, v) /\ \A b \in Sends : ~(b.org[1] = i[1] /\ b.val = v)
  BY <1>k, <1>r, <1>v DEF HeldOnce
<1>n. i[1] \in Nat /\ i[1] # 0 /\ i[1] + 1 # 1
  BY InstFacts DEF Stages
<1>c. ASSUME NEW j \in Inst, NEW w, Consumed(j, w) PROVE Consumed(j, w)'
  BY <1>c, <1>r, <1>v, ConsumedStays
<1>1. EntersOnce'
  <2>1. ASSUME NEW b \in Sends, b.dest[1] = a.dest[1], b.val = a.val PROVE FALSE
    <3>1. b.dest[1] = i[1] + 1 /\ b.dest[1] # 1
      BY <1>n, <1>r, <2>1
    <3>2. b.org \in Inst /\ b.org[1] + 1 = i[1] + 1
      BY <3>1, SendFacts
    <3>3. b.org[1] = i[1]
      BY <1>n, <3>2, InstFacts DEF Stages
    <3> QED
      BY <1>r, <1>w, <2>1, <3>3
  <2> QED
    BY <1>k, <1>r, <2>1 DEF EntersOnce
<1>2. HeldOnce'
  <2> SUFFICES ASSUME NEW j \in Inst, NEW w \in Held(j)'
               PROVE  /\ Consumed(j, w)'
                      /\ \A b \in Sends' : ~(b.org[1] = j[1] /\ b.val = w)
                      /\ IsLastStage(j) => w \notin Vals(output)
    BY <1>r DEF HeldOnce, IsLastStage, Vals
  <2>1. w \in Held(j)
    BY <1>v
  <2>2. /\ Consumed(j, w) /\ \A b \in Sends : ~(b.org[1] = j[1] /\ b.val = w)
        /\ IsLastStage(j) => w \notin Vals(output)
    BY <1>k, <2>1 DEF HeldOnce
  <2>3. i[1] = j[1] => w # v
    <3>1. CASE j = i
      BY <1>v, <3>1
    <3>2. CASE j # i
      BY <1>k, <1>w, <2>2, <3>2, OneConsumer
    <3> QED
      BY <3>1, <3>2
  <2> QED
    BY <1>c, <1>r, <2>2, <2>3
<1>3. SentConsumed'
  <2> SUFFICES ASSUME NEW b \in Sends', b.org # Source PROVE Consumed(b.org, b.val)'
    BY DEF SentConsumed
  <2>1. b \in Sends => b.org \in Inst
    BY SendFacts
  <2> QED
    BY <1>k, <1>c, <1>r, <1>w, <2>1 DEF SentConsumed
<1>4. WrittenConsumed' /\ Distinct(output)'
  <2>1. ASSUME NEW w \in Vals(output)
        PROVE  \E j \in Inst : IsLastStage(j) /\ Consumed(j, w)'
    BY <1>k, <1>c DEF WrittenConsumed
  <2> QED
    BY <1>k, <1>r, <2>1 DEF WrittenConsumed, IsLastStage, Vals, Distinct
<1>5. ReadBefore'
  <2>1. PICK b \in Sends : b.val = v
    BY <1>w DEF Consumed
  <2> QED
    BY <1>k, <1>r, <2>1 DEF ReadBefore
<1> QED
  BY <1>1, <1>v, <1>2, <1>3, <1>4, <1>5 DEF FlowInv

(* The source sends a line that was not sent before.                       *)
LEMMA SourceFlowInv ==
  ASSUME TypeOK, TypeOK', EosInv, FlowInv, kills = 0, NEW a, FlowSource(a)
  PROVE  FlowInv'
<1>k. /\ EntersOnce /\ PipesApart /\ HeldOnce /\ SentConsumed /\ WrittenConsumed
      /\ Distinct(output) /\ ReadBefore
  BY DEF FlowInv
<1>r. Sends' = Sends \cup {a} /\ source'.seq = source.seq + 1 /\ output' = output
      /\ a.org = Source /\ a.dest[1] = 1 /\ a.val = source.seq + 1
  BY DEF FlowSource
<1>h. /\ \A j \in Inst : Held(j)' = Held(j)
      /\ \A j \in Inst : task'[j].ProcessedIDs = task[j].ProcessedIDs
  BY DEF Held, FlowSource, SameFlow, Vals
<1>c. ASSUME NEW j \in Inst, NEW w, Consumed(j, w) PROVE Consumed(j, w)'
  BY <1>c, <1>r, <1>h, ConsumedStays
<1>b. \A b \in Sends : b.val <= source.seq /\ b.val # source.seq + 1 /\ b.val <= source.seq + 1
  <2>1. source.seq \in Nat /\ \A b \in Sends : b.val \in Nat
    BY SendFacts, StreamAssumption DEF TypeOK, SourceOK, Lines
  <2> QED
    BY <1>k, <2>1 DEF ReadBefore
<1>1. EntersOnce'
  BY <1>b, <1>k, <1>r DEF EntersOnce
<1>2. HeldOnce'
  <2> SUFFICES ASSUME NEW j \in Inst, NEW w \in Held(j)
               PROVE  /\ Consumed(j, w)'
                      /\ \A b \in Sends' : ~(b.org[1] = j[1] /\ b.val = w)
                      /\ IsLastStage(j) => w \notin Vals(output)
    BY <1>h, <1>r DEF HeldOnce, IsLastStage, Vals
  <2>1. j[1] # 0 /\ Source[1] = 0
    BY InstFacts DEF Source, Stages
  <2> QED
    BY <1>c, <1>k, <1>r, <2>1 DEF HeldOnce
<1>3. SentConsumed'
  <2> SUFFICES ASSUME NEW b \in Sends', b.org # Source PROVE Consumed(b.org, b.val)'
    BY DEF SentConsumed
  <2>1. b \in Sends => b.org \in Inst
    BY SendFacts
  <2> QED
    BY <1>k, <1>c, <1>r, <2>1 DEF SentConsumed
<1>4. WrittenConsumed' /\ Distinct(output)'
  <2>1. ASSUME NEW w \in Vals(output)
        PROVE  \E j \in Inst : IsLastStage(j) /\ Consumed(j, w)'
    BY <1>k, <1>c DEF WrittenConsumed
  <2> QED
    BY <1>k, <1>r, <2>1 DEF WrittenConsumed, IsLastStage, Vals, Distinct
<1>5. ReadBefore'
  <2>1. source.seq + 1 <= source.seq + 1
    BY DEF TypeOK, SourceOK
  <2> QED
    BY <1>b, <1>r, <2>1 DEF ReadBefore
<1>6. PipesApart'
  BY <1>k, ApartStays DEF FlowSource
<1> QED
  BY <1>1, <1>2, <1>3, <1>4, <1>5, <1>6 DEF FlowInv

(* A line stays at one place of a stage.                                   *)
LEMMA NextFlowInv ==
  ASSUME TypeOK, TypeOK', RunInv, EosInv, CalmInv, LockInv, FlowInv, [Next]_vars
  PROVE  FlowInv'
<1> SUFFICES ASSUME kills' = 0 PROVE FlowInv'
  BY DEF FlowInv
<1>k. kills = 0 /\ FlowStep
  BY FaultsStay, StepFlow
<1>1. CASE FlowStill
  <2>1. PipesApart
    BY <1>k DEF FlowInv
  <2>2. PipesApart'
    BY <1>1, <2>1, ApartStays DEF FlowStill
  <2>3. \A j \in Inst : Held(j)' \subseteq Held(j)
    BY <1>1 DEF FlowStill, SameFlow, Held, Vals
  <2>4. /\ Sends' = Sends /\ output' = output /\ source'.seq = source.seq
        /\ \A j \in Inst : task[j].ProcessedIDs \subseteq task'[j].ProcessedIDs
    BY <1>1 DEF FlowStill, SameFlow
  <2> QED
    BY <1>k, <2>2, <2>3, <2>4, QuietFlowInv
<1> QED
  BY <1>k, <1>1, TakesFlowInv, WorksFlowInv, WritesFlowInv, SendsFlowInv, SourceFlowInv DEF FlowStep

(* Nothing has been sent in the beginning.                                 *)
LEMMA InitFlowInv == Init => FlowInv
<1> SUFFICES ASSUME Init PROVE FlowInv
  OBVIOUS
<1>1. Sends = {}
  BY DEF Init, Sends, DataPushes
<1>2. \A i \in Inst : task[i].Stdin = <<>> /\ task[i].Stdout = <<>>
  BY NoTaskFields DEF Init, AllStarted, NewTask
<1>3. \A i \in Inst : Held(i) = {}
  BY <1>2, EmptyVals DEF Held
<1>4. output = <<>>
  BY DEF Init
<1>5. EntersOnce /\ SentConsumed /\ ReadBefore
  BY <1>1 DEF EntersOnce, SentConsumed, ReadBefore
<1>6. PipesApart
  BY <1>2, EmptyVals DEF PipesApart
<1>7. HeldOnce
  BY <1>3 DEF HeldOnce
<1>8. WrittenConsumed /\ Distinct(output)
  BY <1>4, EmptyVals DEF WrittenConsumed
<1> QED
  BY <1>5, <1>6, <1>7, <1>8 DEF FlowInv

(* Lines are at one place of a stage in every reachable state.             *)
LEMMA LinesFlow == Spec => []FlowInv
BY TypeCorrect, RunsFollow, EOSsFollow, Calm, LocksHeld, InitFlowInv, NextFlowInv, PTL DEF Spec

(* As long as no process died no line is written twice to the output file, *)
(* whatever replies were lost and retried and whatever appends to a dedup  *)
(* log failed: the lock of a task is held from the duplicate check to the  *)
(* write, and a line is handed over, never copied, on its way.             *)
THEOREM OutputHasNoDuplicate == Spec => []NoDuplicateOutput
<1>1. TypeOK /\ FlowInv => NoDuplicateOutput
  <2> SUFFICES ASSUME TypeOK, FlowInv, kills = 0, NEW v \in Lines PROVE Count(output, v) <= 1
    BY DEF NoDuplicateOutput
  <2>1. output \in Seq(Lines) /\ Distinct(output)
    BY DEF TypeOK, FilesOK, FlowInv
  <2>2. Count(output, v) = 0 \/ Count(output, v) = 1
    BY <2>1, CountDistinct
  <2> QED
    BY <2>2
<1> QED
  BY <1>1, TypeCorrect, LinesFlow, PTL

-----------------------------------------------------------------------------
(* Message ids.                                                            *)

SourceIds == \A a \in Sends : a.org = Source => a.id = <<0, 0, a.val>>
TaskIds ==
  \A a \in Sends : a.org # Source =>
    \E n \in 1 .. task[a.org].SeqNum : a.id = <<a.org[1], a.org[2], n>>
IdsApart == \A a, b \in Sends : a.org = b.org /\ a.id = b.id => a = b

(* As long as no process was killed the tuples of a sender have different  *)
(* ids, up to its sequence number.                                         *)
IdInv == kills = 0 => SourceIds /\ TaskIds /\ IdsApart

(* An id stands for one tuple: a task numbers its tuples itself, and there *)
(* is one process of it.                                                   *)
LEMMA UniqueIds ==
  ASSUME TypeOK, RunInv, EosInv, CalmInv, FlowInv, IdInv, kills = 0,
         NEW a \in Sends, NEW b \in Sends, a.id = b.id
  PROVE  a = b
<1>k. SourceIds /\ TaskIds /\ IdsApart /\ SentConsumed
  BY DEF IdInv, FlowInv
<1>t. ASSUME NEW c \in Sends, c.org # Source
      PROVE  /\ c.org \in Inst /\ c.id[1] = c.org[1] /\ c.id[2] = c.org[2] /\ c.id[1] # 0
             /\ c.org[3] = 1
  <2>1. c.org \in Inst
    BY <1>t, SendFacts
  <2>2. PICK n \in 1 .. task[c.org].SeqNum : c.id = <<c.org[1], c.org[2], n>>
    BY <1>k, <1>t DEF TaskIds
  <2>3. c.org[1] # 0
    BY <2>1, InstFacts DEF Stages
  <2>4. c.org[3] = 1
    BY <1>k, <1>t, <2>1, ConsumerIsFirst DEF SentConsumed
  <2> QED
    BY <2>1, <2>2, <2>3, <2>4
<1>s. ASSUME NEW c \in Sends, c.org = Source PROVE c.id[1] = 0
  BY <1>k, <1>s DEF SourceIds
<1>1. a.org = b.org
  BY <1>s, <1>t, InstFacts
<1> QED
  BY <1>1, <1>k DEF IdsApart

(* Ids stay apart: a new tuple has a number that was not used.             *)
LEMMA NextIdInv ==
  ASSUME TypeOK, TypeOK', RunInv, EosInv, CalmInv, LockInv, FlowInv, IdInv, [Next]_vars
  PROVE  IdInv'
<1> SUFFICES ASSUME kills' = 0 PROVE SourceIds' /\ TaskIds' /\ IdsApart'
  BY DEF IdInv
<1>k. kills = 0 /\ FlowStep /\ SourceIds /\ TaskIds /\ IdsApart /\ ReadBefore
  BY FaultsStay, StepFlow DEF IdInv, FlowInv
<1>o. \A a \in Sends : a.org # Source => a.org \in Inst
  BY SendFacts
<1>n. \A j \in Inst : task[j].SeqNum \in Nat /\ task'[j].SeqNum \in Nat
  BY FieldTypes DEF TypeOK, TaskOK, TaskRec
<1>g. \A j \in Inst : task'[j].SeqNum = task[j].SeqNum \/ task'[j].SeqNum = task[j].SeqNum + 1
  BY <1>k DEF FlowStep, FlowStill, OnlyFlow, SameFlow, FlowTakes, FlowWorks, FlowWrites,
              FlowReadsOut, FlowSends, FlowSource
<1>m. ASSUME NEW a \in Sends, a.org # Source
      PROVE  \E n \in 1 .. task'[a.org].SeqNum : a.id = <<a.org[1], a.org[2], n>>
  <2>1. PICK n \in 1 .. task[a.org].SeqNum : a.id = <<a.org[1], a.org[2], n>>
    BY <1>k, <1>m DEF TaskIds
  <2>2. n \in 1 .. task'[a.org].SeqNum
    BY <1>m, <1>o, <1>n, <1>g
  <2> QED
    BY <2>1, <2>2
<1>1. CASE Sends' = Sends
  BY <1>1, <1>k, <1>m DEF SourceIds, TaskIds, IdsApart
<1>2. ASSUME NEW i \in Inst, NEW a, FlowSends(i, a) PROVE SourceIds' /\ TaskIds' /\ IdsApart'
  <2>1. /\ Sends' = Sends \cup {a} /\ a.org = i /\ a.id = <<i[1], i[2], task[i].SeqNum + 1>>
        /\ task'[i].SeqNum = task[i].SeqNum + 1 /\ i # Source
    BY <1>2, InstFacts DEF FlowSends, FlowReadsOut
  <2>2. ASSUME NEW b \in Sends, b.org = i PROVE b.id # a.id
    <3>1. PICK n \in 1 .. task[i].SeqNum : b.id = <<b.org[1], b.org[2], n>>
      BY <1>k, <2>1, <2>2 DEF TaskIds
    <3>2. n # task[i].SeqNum + 1
      BY <1>n
    <3> QED
      BY <2>1, <3>1, <3>2
  <2>3. task[i].SeqNum + 1 \in 1 .. task'[i].SeqNum
    BY <1>n, <2>1
  <2>4. SourceIds'
    BY <1>k, <2>1 DEF SourceIds
  <2>5. TaskIds'
    BY <1>m, <2>1, <2>3 DEF TaskIds
  <2>6. IdsApart'
    BY <1>k, <2>1, <2>2 DEF IdsApart
  <2> QED
    BY <2>4, <2>5, <2>6
<1>3. ASSUME NEW a, FlowSource(a) PROVE SourceIds' /\ TaskIds' /\ IdsApart'
  <2>1. /\ Sends' = Sends \cup {a} /\ a.org = Source /\ a.id = <<0, 0, a.val>>
        /\ a.val = source.seq + 1
    BY <1>3 DEF FlowSource
  <2>2. ASSUME NEW b \in Sends, b.org = Source PROVE b.id # a.id
    <3>1. b.id = <<0, 0, b.val>> /\ b.val <= source.seq
      BY <1>k, <2>2 DEF SourceIds, ReadBefore
    <3>2. b.val \in Nat /\ source.seq \in Nat
      BY SendFacts DEF TypeOK, SourceOK, Lines
    <3>3. b.val # source.seq + 1
      BY <3>1, <3>2
    <3> QED
      BY <2>1, <3>1, <3>3
  <2>4. SourceIds'
    BY <1>k, <2>1 DEF SourceIds
  <2>5. TaskIds'
    BY <1>m, <2>1 DEF TaskIds
  <2>6. IdsApart'
    BY <1>k, <2>1, <2>2 DEF IdsApart
  <2> QED
    BY <2>4, <2>5, <2>6
<1> QED
  BY <1>k, <1>1, <1>2, <1>3 DEF FlowStep, FlowStill, FlowTakes, FlowWorks, FlowWrites

(* Ids are unique in every reachable state of a run without kills.         *)
LEMMA IdsFollow == Spec => []IdInv
<1>1. Init => IdInv
  BY DEF Init, IdInv, Sends, DataPushes, SourceIds, TaskIds, IdsApart
<1> QED
  BY <1>1, TypeCorrect, RunsFollow, EOSsFollow, Calm, LocksHeld, LinesFlow, NextIdInv, PTL DEF Spec

-----------------------------------------------------------------------------
(* Operators.                                                              *)

PrintedPass == \A i \in Inst : \A v \in Vals(task[i].Stdout) : <<i[1], v>> \in Passes
SentPass == \A a \in Sends : \A s \in Stages : s < a.dest[1] => <<s, a.val>> \in Passes
WrittenPass == Vals(output) \subseteq Expected

(* As long as no process was killed a line that is printed, sent on or     *)
(* written has passed the operators of all stages up to there.             *)
PassInv == kills = 0 => PrintedPass /\ SentPass /\ WrittenPass

(* What a handler reads has passed all stages up to its own.               *)
LEMMA ReadHasPassed ==
  ASSUME TypeOK, EosInv, FlowInv, PassInv, kills = 0, NEW i \in Inst, OnlyFlow(i), FlowReadsOut(i)
  PROVE  /\ Head(task[i].Stdout) \in Lines
         /\ \A s \in Stages : s < i[1] + 1 => <<s, Head(task[i].Stdout)>> \in Passes
<1> DEFINE v == Head(task[i].Stdout)
<1>k. PrintedPass /\ SentPass /\ PipesApart /\ HeldOnce
  BY DEF PassInv, FlowInv
<1>1. v \in Lines /\ v \in Held(i)
  BY <1>k, ReadsOutFacts
<1>2. v \in Vals(task[i].Stdout)
  <2>1. task[i].Stdout \in Seq(Lines) /\ task[i].Stdout # <<>>
    BY FieldTypes DEF TypeOK, FlowReadsOut
  <2> QED
    BY <2>1, TailVals
<1> HIDE DEF v
<1>3. PICK a \in Sends : a.dest = KeyOf(i) /\ a.val = v
  BY <1>1, <1>k DEF HeldOnce, Consumed
<1>4. a.dest[1] = i[1] /\ i[1] \in Stages
  BY <1>3, InstFacts
<1>5. ASSUME NEW s \in Stages, s < i[1] + 1 PROVE <<s, v>> \in Passes
  <2>1. s < i[1] \/ s = i[1]
    BY <1>4, <1>5 DEF Stages
  <2>2. CASE s < i[1]
    BY <1>k, <1>3, <1>4, <2>2 DEF SentPass
  <2>3. CASE s = i[1]
    BY <1>k, <1>2, <2>3 DEF PrintedPass
  <2> QED
    BY <2>1, <2>2, <2>3
<1> QED
  BY <1>1, <1>5 DEF v

(* A step lets through what the operators let through.                     *)
LEMMA NextPassInv ==
  ASSUME TypeOK, TypeOK', RunInv, EosInv, CalmInv, LockInv, FlowInv, PassInv, [Next]_vars
  PROVE  PassInv'
<1> SUFFICES ASSUME kills' = 0 PROVE PrintedPass' /\ SentPass' /\ WrittenPass'
  BY DEF PassInv
<1>k. kills = 0 /\ FlowStep /\ PrintedPass /\ SentPass /\ WrittenPass /\ PipesApart
  BY FaultsStay, StepFlow DEF PassInv, FlowInv
<1>p. ASSUME \A j \in Inst : \A v \in Vals(task'[j].Stdout) :
               v \in Vals(task[j].Stdout) \/ <<j[1], v>> \in Passes
      PROVE  PrintedPass'
  BY <1>k, <1>p DEF PrintedPass, Vals
<1>q. ASSUME Sends' = Sends PROVE SentPass'
  BY <1>k, <1>q DEF SentPass
<1>w. ASSUME output' = output PROVE WrittenPass'
  BY <1>k, <1>w DEF WrittenPass, Vals, Expected
<1>1. CASE FlowStill
  BY <1>1, <1>p, <1>q, <1>w DEF FlowStill, SameFlow
<1>2. ASSUME NEW i \in Inst, NEW a, OnlyFlow(i), FlowTakes(i, a)
      PROVE  PrintedPass' /\ SentPass' /\ WrittenPass'
  BY <1>2, <1>p, <1>q, <1>w DEF FlowTakes, OnlyFlow, SameFlow
<1>3. ASSUME NEW i \in Inst, OnlyFlow(i), FlowWorks(i)
      PROVE  PrintedPass' /\ SentPass' /\ WrittenPass'
  <2>1. Sends' = Sends /\ output' = output
    BY <1>3 DEF FlowWorks
  <2>2. /\ task[i].Stdin \in Seq(Lines) /\ task[i].Stdin # <<>> /\ task[i].Stdout \in Seq(Lines)
    BY <1>3, FieldTypes DEF TypeOK, FlowWorks
  <2>3. Head(task[i].Stdin) \in Lines
    BY <2>2, TailVals
  <2>4. Vals(Append(task[i].Stdout, Head(task[i].Stdin))) = Vals(task[i].Stdout) \cup {Head(task[i].Stdin)}
    BY <2>2, <2>3, AppendVals
  <2>5. \A v \in Vals(task'[i].Stdout) : v \in Vals(task[i].Stdout) \/ <<i[1], v>> \in Passes
    BY <1>3, <2>4 DEF FlowWorks
  <2>6. PrintedPass'
    BY <1>3, <1>p, <2>5 DEF OnlyFlow, SameFlow
  <2> QED
    BY <1>q, <1>w, <2>1, <2>6
<1>4. ASSUME NEW i \in Inst, OnlyFlow(i), FlowReadsOut(i) PROVE PrintedPass'
  <2>1. Vals(task'[i].Stdout) \subseteq Vals(task[i].Stdout)
    <3>1. Vals(task[i].Stdout)' \subseteq Vals(task[i].Stdout)
      BY <1>4, <1>k, ReadsOutFacts
    <3> QED
      BY <3>1 DEF Vals
  <2> QED
    BY <1>4, <1>p, <2>1 DEF OnlyFlow, SameFlow
<1>5. ASSUME NEW i \in Inst, OnlyFlow(i), FlowWrites(i)
      PROVE  PrintedPass' /\ SentPass' /\ WrittenPass'
  <2> DEFINE v == Head(task[i].Stdout)
  <2>1. FlowReadsOut(i) /\ IsLastStage(i) /\ Sends' = Sends /\ (output' = output \/ output' = Append(output, v))
    BY <1>5 DEF FlowWrites
  <2>2. v \in Lines /\ \A s \in Stages : s < i[1] + 1 => <<s, v>> \in Passes
    BY <1>5, <1>k, <2>1, ReadHasPassed
  <2> HIDE DEF v
  <2>3. \A s \in Stages : s < i[1] + 1
    BY <2>1, StreamAssumption DEF IsLastStage, Stages
  <2>4. v \in Expected
    BY <2>2, <2>3 DEF Expected
  <2>5. output \in Seq(Lines)
    BY DEF TypeOK, FilesOK
  <2>6. Vals(Append(output, v)) = Vals(output) \cup {v}
    BY <2>2, <2>5, AppendVals
  <2>7. Vals(output') \subseteq Expected
    BY <1>k, <2>1, <2>4, <2>6 DEF WrittenPass
  <2>8. WrittenPass'
    BY <2>7 DEF WrittenPass, Vals, Expected
  <2> QED
    BY <1>4, <1>5, <1>q, <2>1, <2>8
<1>6. ASSUME NEW i \in Inst, NEW a, OnlyFlow(i), FlowSends(i, a)
      PROVE  PrintedPass' /\ SentPass' /\ WrittenPass'
  <2>1. /\ FlowReadsOut(i) /\ Sends' = Sends \cup {a} /\ output' = output
        /\ a.dest[1] = i[1] + 1 /\ a.val = Head(task[i].Stdout)
    BY <1>6 DEF FlowSends
  <2>2. \A s \in Stages : s < i[1] + 1 => <<s, Head(task[i].Stdout)>> \in Passes
    BY <1>6, <1>k, <2>1, ReadHasPassed
  <2>3. SentPass'
    BY <1>k, <2>1, <2>2 DEF SentPass
  <2> QED
    BY <1>4, <1>6, <1>w, <2>1, <2>3
<1>7. ASSUME NEW a, FlowSource(a) PROVE PrintedPass' /\ SentPass' /\ WrittenPass'
  <2>1. Sends' = Sends \cup {a} /\ a.dest[1] = 1 /\ output' = output
    BY <1>7 DEF FlowSource
  <2>2. \A s \in Stages : ~(s < 1)
    BY DEF Stages
  <2>3. SentPass'
    BY <1>k, <2>1, <2>2 DEF SentPass
  <2> QED
    BY <1>7, <1>p, <1>w, <2>1, <2>3 DEF FlowSource, SameFlow
<1> QED
  BY <1>k, <1>1, <1>2, <1>3, <1>5, <1>6, <1>7 DEF FlowStep

(* Only lines that pass are written, in every state of a run without kills. *)
LEMMA PassesFollow == Spec => []PassInv
<1>1. Init => PassInv
  <2> SUFFICES ASSUME Init PROVE PrintedPass /\ SentPass /\ WrittenPass
    BY DEF PassInv
  <2>1. SentPass
    BY DEF Init, Sends, DataPushes, SentPass
  <2>2. \A i \in Inst : task[i].Stdout = <<>>
    BY NoTaskFields DEF Init, AllStarted, NewTask
  <2>3. PrintedPass
    BY <2>2, EmptyVals DEF PrintedPass
  <2>4. WrittenPass
    BY EmptyVals DEF Init, WrittenPass
  <2> QED
    BY <2>1, <2>3, <2>4
<1> QED
  BY <1>1, TypeCorrect, RunsFollow, EOSsFollow, Calm, LocksHeld, LinesFlow, NextPassInv, PTL DEF Spec

-----------------------------------------------------------------------------
(* Nothing is lost.                                                        *)

OneTuplePerId == kills = 0 => \A a, b \in Sends : a.id = b.id => a = b

(* An id stands for one tuple in every state of a run without kills.       *)
LEMMA IdsAreUnique == Spec => []OneTuplePerId
<1>1. TypeOK /\ RunInv /\ EosInv /\ CalmInv /\ FlowInv /\ IdInv => OneTuplePerId
  BY UniqueIds DEF OneTuplePerId
<1> QED
  BY <1>1, TypeCorrect, RunsFollow, EOSsFollow, Calm, LinesFlow, IdsFollow, PTL

(* The operator of i filtered v out, or i has sent it on or written it.    *)
Onward(i, v) ==
  \/ <<i[1], v>> \notin Passes
  \/ ~IsLastStage(i) /\ \E b \in Sends : b.dest[1] = i[1] + 1 /\ b.val = v
  \/ IsLastStage(i) /\ v \in Vals(output)
ProcessedSent ==
  \A i \in Inst : \A d \in task[i].ProcessedIDs : \E b \in Sends : b.id = d
NothingLost ==
  \A i \in Inst : \A a \in Sends :
    a.dest = KeyOf(i) /\ a.id \in task[i].ProcessedIDs => a.val \in Held(i) \/ Onward(i, a.val)

(* As long as no process was killed and no HyDFS call failed, a line that  *)
(* a task took is in its pipes, was filtered out, sent on or written.      *)
KeepInv == kills = 0 => ProcessedSent /\ (fails = 0 => NothingLost)

(* A line that moved on stays there.                                       *)
LEMMA OnwardStays ==
  ASSUME Sends \subseteq Sends', Vals(output) \subseteq Vals(output'), NEW i, NEW v, Onward(i, v)
  PROVE  Onward(i, v)'
<1>1. Vals(output)' = Vals(output')
  BY DEF Vals
<1> QED
  BY <1>1 DEF Onward, IsLastStage

(* No step loses a line that was taken.                                    *)
LEMMA NextKeepInv ==
  ASSUME TypeOK, TypeOK', RunInv, EosInv, CalmInv, LockInv, FlowInv, OneTuplePerId,
         OneTuplePerId', KeepInv, [Next]_vars
  PROVE  KeepInv'
<1> SUFFICES ASSUME kills' = 0 PROVE ProcessedSent' /\ (fails' = 0 => NothingLost')
  BY DEF KeepInv
<1>k. kills = 0 /\ FlowStep /\ ProcessedSent /\ (fails = 0 => NothingLost) /\ PipesApart
  BY FaultsStay, StepFlow DEF KeepInv, FlowInv
<1>f. fails' = 0 => fails = 0 /\ fails' # fails + 1
  BY FaultsStay
<1>g. Sends \subseteq Sends'
  BY <1>k DEF FlowStep, FlowStill, FlowTakes, FlowWorks, FlowWrites, FlowSends, FlowSource
<1>o. output \in Seq(Lines) /\ \A i \in Inst : task[i].Stdin \in Seq(Lines) /\ task[i].Stdout \in Seq(Lines)
  BY FieldTypes DEF TypeOK, FilesOK
<1>h. \A j \in Inst : Held(j)' = Vals(task'[j].Stdin) \cup Vals(task'[j].Stdout)
  BY DEF Held, Vals
<1>q. \A j \in Inst : OnlyFlow(j) => \A c \in Inst : c # j => Held(c)' = Held(c) /\ task'[c].ProcessedIDs = task[c].ProcessedIDs
  BY <1>h DEF OnlyFlow, SameFlow, Held
<1>s. ASSUME \A j \in Inst : task'[j].ProcessedIDs = task[j].ProcessedIDs,
             Vals(output) \subseteq Vals(output'),
             \A j \in Inst : \A w \in Held(j) : w \in Held(j)' \/ fails' # 0 \/ Onward(j, w)'
      PROVE  ProcessedSent' /\ (fails' = 0 => NothingLost')
  <2>1. ProcessedSent'
    BY <1>g, <1>k, <1>s DEF ProcessedSent
  <2>2. ASSUME fails' = 0, NEW i \in Inst, NEW a \in Sends', a.dest = KeyOf(i),
               a.id \in task'[i].ProcessedIDs
        PROVE  a.val \in Held(i)' \/ Onward(i, a.val)'
    <3>1. a.id \in task[i].ProcessedIDs
      BY <1>s, <2>2
    <3>2. PICK b \in Sends : b.id = a.id
      BY <1>k, <3>1 DEF ProcessedSent
    <3>3. a \in Sends
      BY <1>g, <2>2, <3>2 DEF OneTuplePerId
    <3>4. a.val \in Held(i) \/ Onward(i, a.val)
      BY <1>f, <1>k, <2>2, <3>1, <3>3 DEF NothingLost
    <3> QED
      BY <1>g, <1>s, <2>2, <3>4, OnwardStays
  <2>3. fails' = 0 => NothingLost'
    BY <2>2 DEF NothingLost, KeyOf
  <2> QED
    BY <2>1, <2>3
<1>1. CASE FlowStill
  <2>1. /\ \A j \in Inst : task'[j].ProcessedIDs = task[j].ProcessedIDs /\ Held(j)' = Held(j)
        /\ output' = output
    BY <1>1, <1>h DEF FlowStill, SameFlow, Held
  <2> QED
    BY <1>s, <2>1
<1>2. ASSUME NEW i \in Inst, NEW a, OnlyFlow(i), FlowTakes(i, a)
      PROVE  ProcessedSent' /\ (fails' = 0 => NothingLost')
  <2>1. /\ a \in Sends /\ Sends' = Sends /\ output' = output
        /\ task'[i].ProcessedIDs = task[i].ProcessedIDs \cup {a.id}
        /\ task'[i].Stdin = Append(task[i].Stdin, a.val) /\ task'[i].Stdout = task[i].Stdout
    BY <1>2 DEF FlowTakes
  <2>2. a.val \in Lines
    BY <2>1, SendFacts
  <2>3. Held(i)' = Held(i) \cup {a.val}
    <3>1. Vals(task'[i].Stdin) = Vals(task[i].Stdin) \cup {a.val}
      BY <1>o, <2>1, <2>2, AppendVals
    <3> QED
      BY <1>h, <2>1, <3>1 DEF Held
  <2>4. \A j \in Inst : Held(j) \subseteq Held(j)'
    BY <1>2, <1>q, <2>3
  <2>5. ProcessedSent'
    BY <1>2, <1>k, <1>q, <2>1 DEF ProcessedSent
  <2>6. ASSUME fails' = 0, NEW j \in Inst, NEW b \in Sends, b.dest = KeyOf(j),
               b.id \in task'[j].ProcessedIDs
        PROVE  b.val \in Held(j)' \/ Onward(j, b.val)'
    <3>1. CASE b.id \in task[j].ProcessedIDs
      <4>1. b.val \in Held(j) \/ Onward(j, b.val)
        BY <1>f, <1>k, <2>6, <3>1 DEF NothingLost
      <4> QED
        BY <1>g, <2>1, <2>4, <4>1, OnwardStays
    <3>2. CASE b.id \notin task[j].ProcessedIDs
      <4>1. j = i /\ b.id = a.id
        BY <1>2, <1>q, <2>1, <2>6, <3>2
      <4>2. b = a
        BY <1>k, <2>1, <4>1 DEF OneTuplePerId
      <4> QED
        BY <2>3, <4>1, <4>2
    <3> QED
      BY <3>1, <3>2
  <2>7. fails' = 0 => NothingLost'
    BY <2>1, <2>6 DEF NothingLost, KeyOf
  <2> QED
    BY <2>5, <2>7
<1>3. ASSUME NEW i \in Inst, OnlyFlow(i), FlowWorks(i)
      PROVE  ProcessedSent' /\ (fails' = 0 => NothingLost')
  <2> DEFINE v == Head(task[i].Stdin)
             x == Tail(task[i].Stdin)
  <2>1. /\ Sends' = Sends /\ output' = output /\ task[i].Stdin # <<>> /\ task'[i].Stdin = x
        /\ task'[i].ProcessedIDs = task[i].ProcessedIDs
        /\ task'[i].Stdout = IF <<i[1], v>> \in Passes THEN Append(task[i].Stdout, v) ELSE task[i].Stdout
    BY <1>3 DEF FlowWorks
  <2>2. v \in Lines /\ Vals(task[i].Stdin) = {v} \cup Vals(x)
    BY <1>o, <2>1, TailVals
  <2> HIDE DEF v, x
  <2>3. Vals(Append(task[i].Stdout, v)) = Vals(task[i].Stdout) \cup {v}
    BY <1>o, <2>2, AppendVals
  <2>4. \A w \in Held(i) : w \in Held(i)' \/ <<i[1], w>> \notin Passes
    <3>1. Vals(task[i].Stdout) \subseteq Vals(task'[i].Stdout)
      BY <2>1, <2>3
    <3>2. <<i[1], v>> \in Passes => v \in Vals(task'[i].Stdout)
      BY <2>1, <2>3
    <3> QED
      BY <1>h, <2>1, <2>2, <3>1, <3>2 DEF Held
  <2>5. \A w \in Held(i) : w \in Held(i)' \/ Onward(i, w)'
    BY <2>4 DEF Onward
  <2>6. \A j \in Inst : \A w \in Held(j) : w \in Held(j)' \/ Onward(j, w)'
    BY <1>3, <1>q, <2>5
  <2>7. \A j \in Inst : task'[j].ProcessedIDs = task[j].ProcessedIDs
    BY <1>3, <1>q, <2>1
  <2> QED
    BY <1>s, <2>1, <2>6, <2>7
<1>4. ASSUME NEW i \in Inst, OnlyFlow(i), FlowReadsOut(i), Vals(output) \subseteq Vals(output'),
             NEW v, v = Head(task[i].Stdout), fails' # 0 \/ Onward(i, v)'
      PROVE  ProcessedSent' /\ (fails' = 0 => NothingLost')
  <2>1. /\ Held(i)' = Held(i) \ {v} /\ \A j \in Inst : j # i => Held(j)' = Held(j)
        /\ \A j \in Inst : task'[j].ProcessedIDs = task[j].ProcessedIDs
    BY <1>4, <1>k, ReadsOutFacts
  <2> QED
    BY <1>4, <1>s, <2>1
<1>5. ASSUME NEW i \in Inst, OnlyFlow(i), FlowWrites(i)
      PROVE  ProcessedSent' /\ (fails' = 0 => NothingLost')
  <2>0. PICK v : v = Head(task[i].Stdout)
    OBVIOUS
  <2>1. /\ FlowReadsOut(i) /\ IsLastStage(i)
        /\ output' = Append(output, v) \/ (output' = output /\ fails' = fails + 1)
    BY <1>5, <2>0 DEF FlowWrites
  <2>2. v \in Lines
    BY <1>5, <1>k, <2>0, <2>1, ReadsOutFacts
  <2>3. Vals(Append(output, v)) = Vals(output) \cup {v}
    BY <1>o, <2>2, AppendVals
  <2>4. fails' # 0 \/ v \in Vals(output')
    BY <1>f, <2>1, <2>3
  <2>5. v \in Vals(output') => Onward(i, v)'
    <3>1. Vals(output)' = Vals(output')
      BY DEF Vals
    <3> QED
      BY <2>1, <3>1 DEF Onward, IsLastStage
  <2>6. Vals(output) \subseteq Vals(output')
    BY <2>1, <2>3
  <2> QED
    BY <1>4, <1>5, <2>0, <2>1, <2>4, <2>5, <2>6
<1>6. ASSUME NEW i \in Inst, NEW a, OnlyFlow(i), FlowSends(i, a)
      PROVE  ProcessedSent' /\ (fails' = 0 => NothingLost')
  <2>0. PICK v : v = Head(task[i].Stdout)
    OBVIOUS
  <2>1. /\ FlowReadsOut(i) /\ ~IsLastStage(i) /\ output' = output /\ Sends' = Sends \cup {a}
        /\ a.dest[1] = i[1] + 1 /\ a.val = v
    BY <1>6, <2>0 DEF FlowSends
  <2>2. Onward(i, v)'
    BY <2>1 DEF Onward, IsLastStage
  <2>3. Vals(output) \subseteq Vals(output')
    BY <2>1
  <2> QED
    BY <1>4, <1>6, <2>0, <2>1, <2>2, <2>3
<1>7. ASSUME NEW a, FlowSource(a) PROVE ProcessedSent' /\ (fails' = 0 => NothingLost')
  <2>1. /\ \A j \in Inst : task'[j].ProcessedIDs = task[j].ProcessedIDs /\ Held(j)' = Held(j)
        /\ output' = output
    BY <1>7, <1>h DEF FlowSource, SameFlow, Held
  <2> QED
    BY <1>s, <2>1
<1> QED
  BY <1>k, <1>1, <1>2, <1>3, <1>5, <1>6, <1>7 DEF FlowStep

(* Nothing that was taken is lost in a run without failures.               *)
LEMMA LinesKept == Spec => []KeepInv
<1>1. Init => KeepInv
  <2> SUFFICES ASSUME Init PROVE ProcessedSent /\ NothingLost
    BY DEF KeepInv
  <2>1. Sends = {}
    BY DEF Init, Sends, DataPushes
  <2>2. \A i \in Inst : task[i].ProcessedIDs = {}
    BY NoTaskFields, IdsOfEmpty DEF Init, AllStarted, NewTask
  <2> QED
    BY <2>1, <2>2 DEF ProcessedSent, NothingLost
<1> QED
  BY <1>1, TypeCorrect, RunsFollow, EOSsFollow, Calm, LocksHeld, LinesFlow, IdsAreUnique,
     NextKeepInv, PTL DEF Spec

-----------------------------------------------------------------------------
(* Pipes are drained.                                                      *)

DrainedIn == \A i \in Inst : task[i].proc = "dead" => task[i].Stdin = <<>>
DrainedOut == \A i \in Inst : task[i].handler # "scan" => task[i].Stdout = <<>>

(* A process that ended, and nobody restarted, has nothing left to read,   *)
(* and its handler goes on to the EOSs when it has read everything.        *)
DrainInv == DrainedIn /\ DrainedOut

(* A step leaves drained pipes drained.                                    *)
LEMMA NextDrainInv ==
  ASSUME TypeOK, TypeOK', RunInv, DrainInv, [Next]_vars
  PROVE  DrainInv'
<1>d. DrainedIn /\ DrainedOut /\ HandlerDead
  BY DEF DrainInv, RunInv
<1>s. ASSUME \A j \in Inst :
               /\ task'[j].proc = "dead" => task'[j].Stdin = <<>> \/ (task[j].proc = "dead" /\ task'[j].Stdin = task[j].Stdin)
               /\ task'[j].handler # "scan" => task'[j].Stdout = <<>> \/ (task[j].handler # "scan" /\ task'[j].Stdout = task[j].Stdout)
      PROVE  DrainInv'
  BY <1>d, <1>s DEF DrainInv, DrainedIn, DrainedOut
<1>t. ASSUME task' = task PROVE DrainInv'
  BY <1>d, <1>t DEF DrainInv, DrainedIn, DrainedOut
<1>0. CASE UNCHANGED vars
  BY <1>0, <1>t DEF vars
<1>1. ASSUME NEW m \in pushes, PushStep(m) PROVE DrainInv'
  <2>1. \A j \in Inst : /\ task'[j].handler = task[j].handler /\ task'[j].proc = task[j].proc
                        /\ task'[j].Stdout = task[j].Stdout
    BY <1>1, PushIsQuiet DEF PushQuiet
  <2>2. \A j \in Inst : task[j].proc = "dead" => task'[j].Stdin = task[j].Stdin
    <3>1. CASE PushWrite(m)
      <4>1. Writable(Target(m)) /\ \A j \in Inst : j # Target(m) => task'[j] = task[j]
        BY <3>1, PushWriteOp DEF TaskBecomes
      <4> QED
        BY <4>1 DEF Writable
    <3>2. CASE PushLookup(m) \/ PushDuplicate(m) \/ PushLog(m)
      BY <3>2, PushLookupOp, PushDuplicateOp, PushLogOp
    <3>3. CASE PushFresh(m) \/ PushLogFails(m) \/ PushWriteFails(m)
      BY <3>3, PushFreshOp, PushLogFailsOp, PushWriteFailsOp DEF LockBecomes, TaskBecomes
    <3>4. CASE PushEOS(m)
      BY <3>4, PushEOSOp DEF TaskBecomes
    <3> QED
      BY <1>1, <3>1, <3>2, <3>3, <3>4 DEF PushStep
  <2> QED
    BY <1>s, <2>1, <2>2
<1>2. CASE SourceLine \/ SourceEOS \/ SourceDone
  BY <1>2, <1>t, SourceLineOp, SourceEOSOp, SourceDoneOp DEF SourceFrame
<1>3. ASSUME NEW i \in Inst, Operator(i) PROVE DrainInv'
  <2>1. task[i].proc = "running" /\ task'[i].proc = task[i].proc
        /\ task'[i].handler = task[i].handler /\ \A j \in Inst : j # i => task'[j] = task[j]
    BY <1>3, OperatorOp DEF TaskBecomes
  <2>2. task[i].handler = "scan"
    BY <1>d, <2>1 DEF HandlerDead
  <2> QED
    BY <1>s, <2>1, <2>2
<1>4. ASSUME NEW i \in Inst, OperatorExit(i) PROVE DrainInv'
  <2>1. task[i].Stdin = <<>> /\ task'[i].Stdin = task[i].Stdin /\ task'[i].Stdout = task[i].Stdout
        /\ task'[i].handler = task[i].handler /\ \A j \in Inst : j # i => task'[j] = task[j]
    BY <1>4, OperatorExitOp DEF TaskBecomes
  <2> QED
    BY <1>s, <2>1
<1>5. ASSUME NEW i \in Inst, ReplayLock(i) PROVE DrainInv'
  <2>1. LockBecomes(i, "replay")
    BY <1>5, ReplayLockOp
  <2> QED
    BY <1>s, <2>1 DEF LockBecomes, TaskBecomes
<1>6. ASSUME NEW i \in Inst, ReplayWrite(i) PROVE DrainInv'
  <2>1. /\ ~Writable(i) => task'[i].Stdin = task[i].Stdin
        /\ task'[i].proc = task[i].proc /\ task'[i].Stdout = task[i].Stdout
        /\ task'[i].handler = task[i].handler /\ \A j \in Inst : j # i => task'[j] = task[j]
    BY <1>6, ReplayWriteOp DEF TaskBecomes
  <2> QED
    BY <1>s, <2>1 DEF Writable
<1>7. ASSUME NEW i \in Inst, HandleOutput(i) PROVE DrainInv'
  <2>1. /\ task[i].handler = "scan" /\ task'[i].proc = task[i].proc /\ task'[i].Stdin = task[i].Stdin
        /\ task'[i].handler = task[i].handler /\ \A j \in Inst : j # i => task'[j] = task[j]
    BY <1>7, HandleOutputOp DEF TaskBecomes
  <2> QED
    BY <1>s, <2>1
<1>8. ASSUME NEW i \in Inst, HandleEOF(i) PROVE DrainInv'
  <2>1. /\ AtEOF(i) /\ task'[i].proc = task[i].proc /\ task'[i].Stdin = task[i].Stdin
        /\ task'[i].Stdout = task[i].Stdout /\ \A j \in Inst : j # i => task'[j] = task[j]
    BY <1>8, HandleEOFOp DEF TaskBecomes
  <2> QED
    BY <1>s, <2>1 DEF AtEOF
<1>9. ASSUME NEW i \in Inst, HandleEOSSent(i) PROVE DrainInv'
  <2>1. /\ task[i].handler = "eos" /\ task'[i].proc = task[i].proc /\ task'[i].Stdin = task[i].Stdin
        /\ task'[i].Stdout = task[i].Stdout /\ \A j \in Inst : j # i => task'[j] = task[j]
    BY <1>9, HandleEOSSentOp DEF TaskBecomes
  <2> QED
    BY <1>s, <2>1
<1>10. ASSUME NEW i \in Inst, Crash(i) \/ KillProcess(i) PROVE DrainInv'
  <2>1. /\ task'[i].Stdin = <<>> /\ task'[i].Stdout = task[i].Stdout
        /\ task'[i].handler = task[i].handler /\ \A j \in Inst : j # i => task'[j] = task[j]
    BY <1>10, DieOp DEF TaskBecomes
  <2> QED
    BY <1>s, <2>1
<1>11. ASSUME NEW i \in Inst, KillCleanup(i) PROVE DrainInv'
  BY <1>11, <1>t DEF KillCleanup
<1>12. ASSUME NEW r \in reports, TaskFinished(r) \/ ReportLost(r) PROVE DrainInv'
  BY <1>12, <1>t DEF TaskFinished, ReportLost
<1>13. ASSUME NEW k \in Keys, LoadDedupLog(k) PROVE DrainInv'
  BY <1>13, <1>t DEF LoadDedupLog
<1>14. ASSUME NEW k \in Keys, StartTask(k) PROVE DrainInv'
  <2> DEFINE i == <<k[1], k[2], runs[k] + 1>>
  <2>1. /\ \A j \in Inst : j # i => task'[j] = task[j]
        /\ task'[i].Stdin = <<>> /\ task'[i].Stdout = <<>>
    BY <1>14, StartTaskOp DEF TaskBecomes
  <2> QED
    BY <1>s, <2>1
<1> QED
  BY <1>0, <1>1, <1>2, <1>3, <1>4, <1>5, <1>6, <1>7, <1>8, <1>9, <1>10, <1>11, <1>12, <1>13, <1>14
     DEF Next, InstStep, Finished

(* The pipes of a task that ended are drained in every reachable state.    *)
LEMMA PipesDrained == Spec => []DrainInv
<1>1. Init => DrainInv
  <2>1. ASSUME Init PROVE \A i \in Inst : task[i].Stdin = <<>> /\ task[i].Stdout = <<>>
    BY <2>1, NoTaskFields DEF Init, AllStarted, NewTask
  <2> QED
    BY <2>1 DEF DrainInv, DrainedIn, DrainedOut
<1> QED
  BY <1>1, TypeCorrect, RunsFollow, NextDrainInv, PTL DEF Spec

-----------------------------------------------------------------------------
(* The output of a completed job.                                          *)

(* Induction over the stages, for a set instead of a predicate: a set of   *)
(* stages that holds the first one and the successor of each is all.       *)
LEMMA StageInduction ==
  ASSUME NEW G, 1 \in G, \A s \in Stages : s \in G /\ s # NumStages => s + 1 \in G
  PROVE  \A s \in Stages : s \in G
<1> DEFINE Bad == {s \in Nat : s \in Stages /\ s \notin G}
<1> SUFFICES ASSUME Bad # {} PROVE FALSE
  BY DEF Stages
<1>1. PICK x \in Bad : \A y \in Bad : <<y, x>> \notin OpToRel(<, Nat)
  <2>1. Bad \subseteq Nat
    OBVIOUS
  <2> HIDE DEF Bad
  <2> QED
    BY <2>1, WFMin, NatLessThanWellFounded
<1>2. \A y \in Bad : ~(y < x)
  BY <1>1 DEF OpToRel
<1>3. x \in Stages /\ x \notin G /\ x # 1
  BY <1>1
<1>4. x - 1 \in Stages /\ x - 1 # NumStages /\ x - 1 < x /\ (x - 1) + 1 = x
  BY <1>3, StreamAssumption DEF Stages
<1>5. x - 1 \in G
  BY <1>2, <1>4 DEF Stages
<1> QED
  BY <1>3, <1>4, <1>5

(* What all these invariants say of a completed job without failures.      *)
LEMMA CompleteOutput ==
  ASSUME TypeOK, RunInv, RemInv, EosInv, DoneInv, CompletionSound, CalmInv, FlowInv, IdInv,
         PassInv, KeepInv, DrainInv, kills = 0, fails = 0, Completed
  PROVE  Vals(output) = Expected /\ source.seq = NumLines
<1>k. /\ OneRun /\ SourceIds /\ NothingLost /\ Vals(output) \subseteq Expected /\ AckedKnown
  BY DEF CalmInv, IdInv, KeepInv, PassInv, WrittenPass, RemInv
<1>c. /\ Settled = Keys /\ source.seq = NumLines
      /\ \A m \in pushes : m.kind = "EOS" \/ m.pc = "acked"
  BY CompletedSettled DEF CompletionSound
<1>1. ASSUME NEW k \in Keys PROVE Cur(k) \in Inst /\ KeyOf(Cur(k)) = k /\ Held(Cur(k)) = {}
  <2>1. Cur(k) \in Inst /\ KeyOf(Cur(k)) = k
    BY <1>1, CurFacts
  <2>2. task[Cur(k)].handler = "done"
    BY <1>c DEF Settled
  <2>3. task[Cur(k)].proc = "dead"
    BY <2>1, <2>2 DEF RunInv, HandlerDead
  <2>4. task[Cur(k)].Stdin = <<>> /\ task[Cur(k)].Stdout = <<>>
    BY <2>1, <2>2, <2>3 DEF DrainInv, DrainedIn, DrainedOut
  <2> QED
    BY <2>1, <2>4, EmptyVals DEF Held
<1>2. ASSUME NEW a \in Sends PROVE Onward(Cur(a.dest), a.val) /\ Cur(a.dest)[1] = a.dest[1]
  <2>1. PICK m \in DataPushes : a = SendOf(m)
    BY DEF Sends
  <2>2. m \in pushes /\ m.kind = "data" /\ a.dest = m.dest /\ a.id = m.id
    BY <2>1 DEF DataPushes, SendOf
  <2>3. m.pc = "acked"
    BY <1>c, <2>2
  <2>4. a.dest \in Keys /\ a.id \in task[Cur(a.dest)].ProcessedIDs
    BY <1>k, <2>2, <2>3, SendFacts DEF AckedKnown
  <2>5. Cur(a.dest) \in Inst /\ KeyOf(Cur(a.dest)) = a.dest /\ Held(Cur(a.dest)) = {}
    BY <1>1, <2>4
  <2>6. Cur(a.dest)[1] = a.dest[1]
    BY <2>4, CurFacts
  <2> QED
    BY <1>k, <2>4, <2>5, <2>6 DEF NothingLost
<1>3. ASSUME NEW v \in Expected PROVE v \in Vals(output)
  <2> DEFINE G == {s \in Stages : \E a \in Sends : a.dest[1] = s /\ a.val = v}
  <2>p. \A s \in Stages : <<s, v>> \in Passes
    BY <1>3 DEF Expected
  <2>1. 1 \in G
    <3>1. v \in 1 .. source.seq /\ 1 \in Stages
      BY <1>3, <1>c, StreamAssumption DEF Expected, Lines, Stages
    <3>2. PICK m \in pushes : /\ m.kind = "data" /\ m.org = Source /\ m.id = <<0, 0, v>>
                              /\ m.dest = <<1, v % NumTasks>>
      BY <3>1 DEF DoneInv, LinesPushed
    <3>3. SendOf(m) \in Sends /\ SendOf(m).org = Source /\ SendOf(m).id = <<0, 0, v>>
          /\ SendOf(m).dest[1] = 1
      BY <3>2 DEF Sends, DataPushes, SendOf
    <3>4. <<0, 0, v>> = <<0, 0, SendOf(m).val>>
      BY <1>k, <3>3 DEF SourceIds
    <3>5. SendOf(m).val = v
      BY <3>4
    <3> QED
      BY <3>1, <3>3, <3>5
  <2>2. ASSUME NEW s \in Stages, s \in G, s # NumStages PROVE s + 1 \in G
    <3>1. PICK a \in Sends : a.dest[1] = s /\ a.val = v
      BY <2>2
    <3>2. Onward(Cur(a.dest), v) /\ Cur(a.dest)[1] = s
      BY <1>2, <3>1
    <3>3. \E b \in Sends : b.dest[1] = s + 1 /\ b.val = v
      BY <2>2, <2>p, <3>2 DEF Onward, IsLastStage
    <3>4. s + 1 \in Stages
      BY <2>2, StreamAssumption DEF Stages
    <3> QED
      BY <3>3, <3>4
  <2> HIDE DEF G
  <2>3. \A s \in Stages : s \in G
    BY <2>1, <2>2, StageInduction
  <2>4. NumStages \in Stages
    BY StreamAssumption DEF Stages
  <2>5. PICK a \in Sends : a.dest[1] = NumStages /\ a.val = v
    BY <2>3, <2>4 DEF G
  <2>6. Onward(Cur(a.dest), v) /\ Cur(a.dest)[1] = NumStages
    BY <1>2, <2>5
  <2> QED
    BY <2>4, <2>6, <2>p DEF Onward, IsLastStage
<1> QED
  BY <1>3, <1>c, <1>k

(* What is known of the pipeline in every reachable state.                 *)
AllInv ==
  /\ TypeOK /\ RunInv /\ RemInv /\ EosInv /\ DoneInv /\ CompletionSound /\ CalmInv /\ LockInv
  /\ FlowInv /\ IdInv /\ PassInv /\ KeepInv /\ DrainInv

(* It is.                                                                  *)
LEMMA AllFollows == Spec => []AllInv
<1>1. /\ TypeOK /\ RunInv /\ RemInv /\ EosInv /\ DoneInv /\ CompletionSound /\ CalmInv /\ LockInv
      /\ FlowInv /\ IdInv /\ PassInv /\ KeepInv /\ DrainInv
      => AllInv
  BY DEF AllInv
<1> QED
  BY <1>1, TypeCorrect, RunsFollow, RemembersFollow, EOSsFollow, CompletionsFollow, CompletionIsSound, Calm,
     LocksHeld, LinesFlow, IdsFollow, PassesFollow, LinesKept, PipesDrained, PTL

(* A completed job without kills and failed HyDFS calls has read all lines *)
(* and written those that pass.                                            *)
ExactInv ==
  kills = 0 /\ fails = 0 /\ Completed => Vals(output) = Expected /\ source.seq = NumLines

(* It has, in every reachable state.                                       *)
LEMMA ExactFollows == Spec => []ExactInv
<1>1. AllInv => ExactInv
  BY CompleteOutput DEF AllInv, ExactInv
<1> QED
  BY <1>1, AllFollows, PTL

(* When the job is reported complete, and no process was killed and no     *)
(* HyDFS call failed, the output file holds every line that passes all     *)
(* operators exactly once, and no other, whatever replies were lost.       *)
THEOREM OutputIsExact == Spec => [](kills = 0 /\ fails = 0 => ExactlyOnce)
<1>1. AllInv /\ ExactInv => (kills = 0 /\ fails = 0 => ExactlyOnce)
  <2> SUFFICES ASSUME AllInv, ExactInv, kills = 0, fails = 0, Completed, NEW v \in Lines
               PROVE  Count(output, v) = IF v \in Expected THEN 1 ELSE 0
    BY DEF ExactlyOnce
  <2>1. Vals(output) = Expected
    BY DEF ExactInv
  <2>2. output \in Seq(Lines) /\ Distinct(output)
    BY DEF AllInv, TypeOK, FilesOK, FlowInv
  <2> QED
    BY <2>1, <2>2, CountDistinct
<1> QED
  BY <1>1, AllFollows, ExactFollows, PTL

-----------------------------------------------------------------------------
(* The pipeline as its user sees it.                                       *)

(* The leader's count changes in TaskFinished only.                        *)
LEMMA CountChanges ==
  ASSUME TypeOK, RunInv, [Next]_vars
  PROVE  \/ FinishedTasks' = FinishedTasks
         \/ /\ FinishedTasks' = FinishedTasks + 1
            /\ output' = output /\ source' = source
<1>0. CASE UNCHANGED vars
  BY <1>0 DEF vars, leaderVars
<1>1. ASSUME NEW m \in pushes, PushStep(m) PROVE FinishedTasks' = FinishedTasks
  BY <1>1, PushIsQuiet DEF PushQuiet, PushFrame
<1>2. CASE SourceLine \/ SourceEOS \/ SourceDone
  BY <1>2 DEF SourceLine, SourceEOS, SourceDone, leaderVars
<1>3. ASSUME NEW i \in Inst, InstStep(i) \/ Crash(i) \/ KillProcess(i) \/ KillCleanup(i)
      PROVE  FinishedTasks' = FinishedTasks
  BY <1>3 DEF InstStep, Operator, OperatorExit, ReplayLock, ReplayWrite, HandleOutput,
       HandleEOF, HandleEOSSent, Crash, KillProcess, KillCleanup, leaderVars
<1>4. ASSUME NEW r \in reports, TaskFinished(r)
      PROVE  \/ FinishedTasks' = FinishedTasks
             \/ FinishedTasks' = FinishedTasks + 1 /\ output' = output /\ source' = source
  BY <1>4 DEF TaskFinished, files
<1>5. ASSUME NEW r \in reports, ReportLost(r) PROVE FinishedTasks' = FinishedTasks
  BY <1>5 DEF ReportLost
<1>6. ASSUME NEW k \in Keys, LoadDedupLog(k) \/ StartTask(k) PROVE FinishedTasks' = FinishedTasks
  BY <1>6 DEF LoadDedupLog, StartTask
<1> QED
  BY <1>0, <1>1, <1>2, <1>3, <1>4, <1>5, <1>6 DEF Next, Finished

(* A line is written while the job is not complete, once, after it was     *)
(* read, and only if it passes.                                            *)
LEMMA WriteRefines ==
  ASSUME AllInv, AllInv', kills' = 0, fails' = 0, [Next]_vars, FinishedTasks' = FinishedTasks,
         NEW i \in Inst, OnlyFlow(i), FlowWrites(i)
  PROVE  \E v \in Expected : Abstract!Write(v)
<1> USE DEF AllInv
<1>0. PICK v : v = Head(task[i].Stdout)
  OBVIOUS
<1>k. kills = 0 /\ HeldOnce /\ PipesApart /\ ReadBefore /\ Vals(output)' \subseteq Expected
  BY FaultsStay DEF FlowInv, PassInv, WrittenPass, Expected
<1>1. FlowReadsOut(i) /\ IsLastStage(i) /\ source'.seq = source.seq
      /\ (output' = Append(output, v) \/ fails' = fails + 1)
  BY <1>0 DEF FlowWrites, FlowReadsOut
<1>2. output' = Append(output, v)
  BY <1>1, FaultsStay
<1>3. v \in Lines /\ v \in Held(i)
  BY <1>0, <1>1, <1>k, ReadsOutFacts
<1>4. v \notin Vals(output) /\ Consumed(i, v)
  BY <1>1, <1>3, <1>k DEF HeldOnce
<1>5. v <= source.seq
  BY <1>4, <1>k DEF Consumed, ReadBefore
<1>6. v \in Expected
  <2>1. Vals(Append(output, v)) = Vals(output) \cup {v}
    BY <1>3, AppendVals DEF TypeOK, FilesOK
  <2>2. Vals(output') \subseteq Expected
    BY <1>k DEF Vals
  <2> QED
    BY <1>2, <2>1, <2>2
<1>7. ~Completed
  <2> SUFFICES ASSUME Completed PROVE FALSE
    OBVIOUS
  <2>1. KeyOf(i) \in Keys /\ KeyOf(i)[1] = i[1] /\ KeyOf(i)[2] = i[2] /\ i[3] = 1
    BY <1>4, <1>k, ConsumerIsFirst, InstFacts
  <2>2. runs[KeyOf(i)] = 1
    BY <1>k, <2>1 DEF CalmInv, OneRun
  <2>3. i = <<i[1], i[2], 1>>
    BY <2>1, InstFacts
  <2>4. task[i].handler = "done"
    BY <2>1, <2>2, <2>3 DEF CompletionSound
  <2> QED
    BY <1>1, <2>4 DEF FlowReadsOut
<1>8. Completed' = Completed
  BY DEF Completed
<1>9. v \notin Abstract!Written
  BY <1>4 DEF Abstract!Written, Vals
<1> QED
  BY <1>1, <1>2, <1>5, <1>6, <1>7, <1>8, <1>9 DEF Abstract!Write

(* The completion is announced when everything is read and written.        *)
LEMMA CompleteRefines ==
  ASSUME ExactInv', kills' = 0, fails' = 0, ~Completed, Completed', output' = output,
         source' = source
  PROVE  Abstract!Complete
<1>1. Vals(output) = Expected /\ source.seq = NumLines
  BY DEF ExactInv, Vals, Expected
<1>2. Abstract!Written = Expected
  BY <1>1 DEF Abstract!Written, Vals
<1> QED
  BY <1>1, <1>2 DEF Abstract!Complete

(* Every step of a run without kills and failed HyDFS calls is a step of   *)
(* the abstract pipeline or changes nothing of it.                         *)
LEMMA StepRefines ==
  ASSUME AllInv, AllInv', ExactInv', kills' = 0, fails' = 0, [Next]_vars
  PROVE  [Abstract!Next]_(Abstract!vars)
<1>k. TypeOK /\ RunInv /\ CalmInv /\ LockInv /\ kills = 0
  BY FaultsStay DEF AllInv
<1>f. FlowStep
  BY <1>k, StepFlow
<1>s. ASSUME output' = output, source'.seq = source.seq, FinishedTasks' = FinishedTasks
      PROVE  [Abstract!Next]_(Abstract!vars)
  BY <1>s DEF Abstract!vars, Completed
<1>1. CASE FinishedTasks' = FinishedTasks
  <2>1. CASE \/ FlowStill
             \/ \E i \in Inst : OnlyFlow(i) /\ \E a : FlowTakes(i, a)
             \/ \E i \in Inst : OnlyFlow(i) /\ FlowWorks(i)
             \/ \E i \in Inst : OnlyFlow(i) /\ \E a : FlowSends(i, a)
    BY <1>1, <1>s, <2>1 DEF FlowStill, FlowTakes, FlowWorks, FlowSends, FlowReadsOut
  <2>2. ASSUME NEW i \in Inst, OnlyFlow(i), FlowWrites(i) PROVE [Abstract!Next]_(Abstract!vars)
    BY <1>1, <1>k, <2>2, WriteRefines DEF Abstract!Next
  <2>3. ASSUME NEW a, FlowSource(a) PROVE [Abstract!Next]_(Abstract!vars)
    <3>1. source.seq + 1 \in Lines /\ source'.seq = source.seq + 1 /\ output' = output
      BY <2>3 DEF FlowSource
    <3>2. source.seq < NumLines
      BY <1>k, <3>1, StreamAssumption DEF Lines, TypeOK, SourceOK
    <3>3. Completed' = Completed
      BY <1>1 DEF Completed
    <3> QED
      BY <3>1, <3>2, <3>3 DEF Abstract!Next, Abstract!Read
  <2> QED
    BY <1>f, <2>1, <2>2, <2>3 DEF FlowStep
<1>2. CASE FinishedTasks' = FinishedTasks + 1 /\ output' = output /\ source' = source
  <2>1. FinishedTasks \in Nat /\ TotalTasks \in Nat
    BY <1>k, KeysFinite DEF TypeOK, LeaderOK
  <2>2. Completed => Completed'
    BY <1>2, <2>1 DEF Completed
  <2>3. CASE ~Completed /\ Completed'
    BY <1>2, <2>3, CompleteRefines DEF Abstract!Next
  <2>4. CASE Completed' = Completed
    BY <1>2, <2>4 DEF Abstract!vars
  <2>5. Completed \in BOOLEAN /\ Completed' \in BOOLEAN
    BY DEF Completed
  <2> QED
    BY <2>2, <2>3, <2>4, <2>5
<1> QED
  BY <1>k, <1>1, <1>2, CountChanges

(* Without kills and failed HyDFS calls, whatever replies and reports are  *)
(* lost, the tasks, pushes, logs and EOSs together do nothing that the     *)
(* abstract pipeline does not do: the safety part of ImplementsPipeline,   *)
(* for every job.                                                          *)
THEOREM PipelineRefined ==
  Spec /\ [](kills = 0 /\ fails = 0) => Abstract!Init /\ [][Abstract!Next]_(Abstract!vars)
<1>1. Init => Abstract!Init
  <2>1. ASSUME Init PROVE ~Completed
    <3>1. TotalTasks \in Nat /\ TotalTasks # 0
      BY KeysFinite, StreamAssumption DEF TotalTasks
    <3> QED
      BY <2>1, <3>1 DEF Init, Completed
  <2> QED
    BY <2>1 DEF Init, Abstract!Init
<1>2. AllInv /\ AllInv' /\ ExactInv' /\ (kills = 0 /\ fails = 0)' /\ [Next]_vars
        => [Abstract!Next]_(Abstract!vars)
  BY StepRefines
<1> QED
  BY <1>1, <1>2, AllFollows, ExactFollows, PTL DEF Spec
=============================================================================
