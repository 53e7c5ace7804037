---------------------------- MODULE StreamProofs ----------------------------
(***************************************************************************)
(* Proofs about the tuple pipeline, for every number of stages, tasks and  *)
(* lines and every bound on failures.                                      *)
(***************************************************************************)
EXTENDS Stream, TLAPS

-----------------------------------------------------------------------------
(* Helpers.                                                                *)

(* A log that grows keeps the ids it had and gains the one appended.       *)
LEMMA IdsOfAppend ==
  ASSUME NEW log \in Seq(Entries), NEW e \in Entries
  PROVE  IdsOf(Append(log, e)) = IdsOf(log) \cup {e[1]}
<1>1. Len(Append(log, e)) = Len(log) + 1
  OBVIOUS
<1>2. \A n \in 1 .. Len(log) : Append(log, e)[n] = log[n]
  OBVIOUS
<1>3. Append(log, e)[Len(log) + 1] = e
  OBVIOUS
<1>4. Len(log) \in Nat
  OBVIOUS
<1>5. IdsOf(log) \cup {e[1]} \subseteq IdsOf(Append(log, e))
  BY <1>1, <1>2, <1>3, <1>4 DEF IdsOf
<1>6. IdsOf(Append(log, e)) \subseteq IdsOf(log) \cup {e[1]}
  <2> SUFFICES ASSUME NEW n \in 1 .. Len(Append(log, e))
               PROVE  Append(log, e)[n][1] \in IdsOf(log) \cup {e[1]}
    BY DEF IdsOf
  <2>1. CASE n = Len(log) + 1
    BY <1>3, <2>1
  <2>2. CASE n \in 1 .. Len(log)
    BY <1>2, <2>2 DEF IdsOf
  <2> QED BY <1>1, <1>4, <2>1, <2>2
<1> QED BY <1>5, <1>6

(* The ids of a log are message ids.                                       *)
LEMMA IdsOfType ==
  ASSUME NEW log \in Seq(Entries)
  PROVE  IdsOf(log) \subseteq MsgIds
BY DEF IdsOf, Entries

(* An empty log has no ids.                                                *)
LEMMA IdsOfEmpty == IdsOf(<<>>) = {}
BY DEF IdsOf

(* A freshly started task has the type of a task.                          *)
LEMMA NewTaskType ==
  ASSUME NEW log \in Seq(Entries)
  PROVE  /\ NewTask(log) \in TaskRec
         /\ NewTask(log).ProcessedIDs = IdsOf(log)
<1>1. IdsOf(log) \in SUBSET MsgIds
  BY IdsOfType
<1>2. <<>> \in Seq(Lines) /\ 0 \in Nat
  OBVIOUS
<1> QED BY <1>1, <1>2 DEF TaskRec, NewTask

(* So has one that is not started yet.                                     *)
LEMMA NoTaskType == NoTask \in TaskRec /\ NoTask.ProcessedIDs = {}
<1>1. <<>> \in Seq(Entries)
  OBVIOUS
<1>2. NewTask(<<>>) \in TaskRec /\ NewTask(<<>>).ProcessedIDs = {}
  BY <1>1, NewTaskType, IdsOfEmpty
<1> QED BY <1>2 DEF NoTask, TaskRec

(* The target of a push that found its task is an instance of its key.     *)
LEMMA TargetType ==
  ASSUME NEW m \in PushRec, m.run # 0
  PROVE  Target(m) \in Inst /\ KeyOf(Target(m)) = m.dest
BY DEF PushRec, Target, Inst, Keys, KeyOf

(* Well-typed updates of the fields of a task, as the actions combine them.*)
LEMMA FieldUpdates ==
  ASSUME NEW t \in TaskRec
  PROVE  /\ \A l \in {"free", "push", "replay"} : [t EXCEPT !.lock = l] \in TaskRec
         /\ \A n \in Nat, c \in {"open", "closed"} :
              [t EXCEPT !.EOSCount = n, !.pipe = c] \in TaskRec
         /\ \A x \in Seq(Lines), s \in SUBSET MsgIds :
              [t EXCEPT !.Stdin = x, !.ProcessedIDs = s, !.lock = "free"] \in TaskRec
         /\ \A x, y \in Seq(Lines) : [t EXCEPT !.Stdin = x, !.Stdout = y] \in TaskRec
         /\ \A x \in Seq(Lines), r \in Seq(Entries) :
              [t EXCEPT !.Stdin = x, !.replay = r, !.lock = "free"] \in TaskRec
         /\ \A x \in Seq(Lines), n \in Nat :
              [t EXCEPT !.Stdout = x, !.SeqNum = n] \in TaskRec
         /\ \A h \in {"scan", "eos", "done"} : [t EXCEPT !.handler = h] \in TaskRec
         /\ [t EXCEPT !.proc = "dead"] \in TaskRec
         /\ \A x \in Seq(Lines) : [t EXCEPT !.proc = "dead", !.Stdin = x] \in TaskRec
BY DEF TaskRec

(* Replacing one task by a well-typed one keeps the type of task.          *)
LEMMA TaskUpdate ==
  ASSUME TaskOK, NEW i \in Inst, NEW r \in TaskRec, task' = [task EXCEPT ![i] = r]
  PROVE  TaskOK'
BY DEF TaskOK

(* The types of the fields of a task.                                      *)
LEMMA FieldTypes ==
  ASSUME TaskOK, NEW i \in Inst
  PROVE  /\ task[i] \in TaskRec
         /\ task[i].Stdin \in Seq(Lines) /\ task[i].Stdout \in Seq(Lines)
         /\ task[i].replay \in Seq(Entries)
         /\ task[i].ProcessedIDs \in SUBSET MsgIds
         /\ task[i].SeqNum \in Nat /\ task[i].EOSCount \in Nat
         /\ task[i].pipe \in {"open", "closed"}
<1>1. task[i] \in TaskRec
  BY DEF TaskOK
<1> QED BY <1>1 DEF TaskRec

-----------------------------------------------------------------------------
(* Type correctness.                                                       *)

(* The initial state, as StartRainStorm leaves it, has the types.          *)
LEMMA InitTypeOK == Init => TypeOK
<1> SUFFICES ASSUME Init PROVE TypeOK
  OBVIOUS
<1> USE StreamAssumption
<1>1. <<>> \in Seq(Entries) /\ <<>> \in Seq(Lines)
  OBVIOUS
<1>2. task \in [Inst -> TaskRec]
  BY <1>1, NewTaskType, NoTaskType DEF Init, AllStarted
<1>3. 1 \in Runs
  BY DEF Runs
<1>4. /\ rsTasks \in [Keys -> Runs \cup {0}]
      /\ pids \subseteq Inst
      /\ runs \in [Keys -> Runs]
  BY <1>3 DEF Init, AllStarted
<1>5. /\ dedup \in [Keys -> Seq(Entries)]
      /\ output \in Seq(Lines)
      /\ restart \in [Keys -> [pc: {"none", "load", "start"}, log: Seq(Entries)]]
  BY <1>1 DEF Init, AllStarted
<1>6. /\ source \in [seq: 0 .. NumLines, pc: {"stream", "eos", "done"}]
      /\ reports \subseteq [inst: Inst, status: {"Success", "Failure"}]
      /\ killing \subseteq Inst
      /\ FinishedTasks \in Nat
      /\ kills \in 0 .. MaxKills /\ losses \in 0 .. MaxLosses
      /\ fails \in 0 .. MaxFails
  BY DEF Init, AllStarted
<1>7. PushesOK
  BY DEF Init, PushesOK
<1> QED
  BY <1>2, <1>4, <1>5, <1>6, <1>7
  DEF TypeOK, TaskOK, NodeOK, FilesOK, SourceOK, LeaderOK, FaultsOK

(* Moving a push to another control point keeps the type of pushes.        *)
LEMMA MovePush ==
  ASSUME PushesOK, NEW m \in pushes, NEW q \in Runs \cup {0},
         NEW p \in {"send", "locking", "logging", "writing", "acked"},
         p \in {"logging", "writing"} => m.kind = "data",
         p \in {"locking", "logging", "writing"} => q # 0,
         Move(m, p, q)
  PROVE  PushesOK'
<1> DEFINE n == [m EXCEPT !.pc = p, !.run = q]
<1>1. m \in PushRec /\ (m.kind = "data" => m.val \in Lines)
  BY DEF PushesOK
<1>2. /\ n \in PushRec
      /\ n.kind = m.kind /\ n.val = m.val /\ n.pc = p /\ n.run = q
  BY <1>1 DEF PushRec
<1>3. pushes' = (pushes \ {m}) \cup {n}
  BY DEF Move
<1> HIDE DEF n
<1> QED BY <1>1, <1>2, <1>3 DEF PushesOK

(* An answer leaves the pushes and the count of losses in their types.     *)
LEMMA AnswerType ==
  ASSUME PushesOK, FaultsOK, NEW m \in pushes, Answer(m),
         kills' = kills, fails' = fails
  PROVE  PushesOK' /\ FaultsOK'
<1>1. m.run \in Runs \cup {0}
  BY DEF PushesOK, PushRec
<1>2. CASE Move(m, "acked", m.run) /\ UNCHANGED losses
  BY <1>1, <1>2, MovePush DEF FaultsOK
<1>3. CASE losses < MaxLosses /\ losses' = losses + 1 /\ Move(m, "send", 0)
  <2>1. PushesOK'
    BY <1>3, MovePush
  <2>2. FaultsOK'
    BY <1>3, StreamAssumption DEF FaultsOK
  <2> QED BY <2>1, <2>2
<1> QED BY <1>2, <1>3 DEF Answer

(* The steps of a push keep the types.                                     *)
LEMMA PushTypeOK ==
  ASSUME TypeOK, NEW m \in pushes, PushStep(m)
  PROVE  TypeOK'
<1> USE StreamAssumption
<1>m. /\ m \in PushRec
      /\ m.kind = "data" => m.val \in Lines
      /\ m.pc \in {"logging", "writing"} => m.kind = "data"
      /\ m.pc \in {"locking", "logging", "writing"} => m.run # 0
  BY DEF TypeOK, PushesOK
<1>t. /\ TaskOK /\ NodeOK /\ FilesOK /\ PushesOK /\ SourceOK /\ LeaderOK /\ FaultsOK
      /\ m.run \in Runs \cup {0}
  BY <1>m DEF TypeOK, PushRec
<1> DEFINE i == Target(m)
<1>i. ASSUME m.pc \in {"locking", "logging", "writing"}
      PROVE  i \in Inst
  BY <1>i, <1>m, TargetType
<1>l. ASSUME m.pc \in {"locking", "logging", "writing"},
             NEW l \in {"free", "push", "replay"}, task' = [task EXCEPT ![i].lock = l]
      PROVE  TaskOK'
  <2>1. [task[i] EXCEPT !.lock = l] \in TaskRec
    BY <1>i, <1>l, <1>t, FieldTypes, FieldUpdates
  <2> QED BY <1>i, <1>l, <1>t, <2>1, TaskUpdate
<1> HIDE DEF i
<1>d. ASSUME AppendDedup(m), m.kind = "data", output' = output
      PROVE  FilesOK'
  <2>1. <<m.id, m.val>> \in Entries /\ m.dest \in Keys
    BY <1>d, <1>m DEF Entries, PushRec
  <2> QED BY <1>d, <1>t, <2>1 DEF AppendDedup, FilesOK
<1>1. CASE PushLookup(m)
  <2>1. rsTasks[m.dest] \in Runs \cup {0} /\ rsTasks[m.dest] # 0
    BY <1>1, <1>m, <1>t DEF PushLookup, NodeOK, PushRec
  <2>2. PushesOK'
    BY <1>1, <1>t, <2>1, MovePush DEF PushLookup
  <2> QED BY <1>1, <1>t, <2>2
        DEF PushLookup, TypeOK, TaskOK, NodeOK, FilesOK, SourceOK, LeaderOK, FaultsOK,
            nodeVars, files, leaderVars, faults
<1>2. CASE PushEOS(m)
  <2>1. TaskOK'
    <3> DEFINE n == task[i].EOSCount + 1
               c == IF n >= NumUpstream(i) THEN "closed" ELSE task[i].pipe
               r == [task[i] EXCEPT !.EOSCount = n, !.pipe = c]
    <3>1. i \in Inst
      BY <1>2, <1>i DEF PushEOS
    <3>2. n \in Nat /\ c \in {"open", "closed"} /\ task[i] \in TaskRec
      BY <3>1, <1>t, FieldTypes
    <3>3. task' = [task EXCEPT ![i] = r]
      BY <1>2 DEF PushEOS, i
    <3>4. r \in TaskRec
      BY <3>2, FieldUpdates
    <3> QED BY <1>t, <3>1, <3>3, <3>4, TaskUpdate
  <2>2. PushesOK' /\ FaultsOK'
    BY <1>2, <1>t, AnswerType DEF PushEOS
  <2> QED BY <1>2, <1>t, <2>1, <2>2
        DEF PushEOS, TypeOK, NodeOK, FilesOK, SourceOK, LeaderOK, nodeVars, files, leaderVars
<1>3. CASE PushDuplicate(m)
  <2>1. PushesOK' /\ FaultsOK'
    BY <1>3, <1>t, AnswerType DEF PushDuplicate
  <2> QED BY <1>3, <1>t, <2>1
        DEF PushDuplicate, TypeOK, TaskOK, NodeOK, FilesOK, SourceOK, LeaderOK,
            nodeVars, files, leaderVars
<1>4. CASE PushFresh(m)
  <2>1. TaskOK'
    BY <1>4, <1>l DEF PushFresh, i
  <2>2. PushesOK'
    BY <1>4, <1>m, <1>t, MovePush DEF PushFresh
  <2> QED BY <1>4, <1>t, <2>1, <2>2
        DEF PushFresh, TypeOK, NodeOK, FilesOK, SourceOK, LeaderOK, FaultsOK,
            nodeVars, files, leaderVars, faults
<1>5. CASE PushLog(m)
  <2>1. PushesOK'
    BY <1>5, <1>m, <1>t, MovePush DEF PushLog
  <2>2. FilesOK'
    BY <1>5, <1>m, <1>d DEF PushLog
  <2> QED BY <1>5, <1>t, <2>1, <2>2
        DEF PushLog, TypeOK, TaskOK, NodeOK, SourceOK, LeaderOK, FaultsOK,
            nodeVars, leaderVars, faults
<1>6. CASE PushLogFails(m)
  <2>1. TaskOK'
    BY <1>6, <1>l DEF PushLogFails, i
  <2>2. PushesOK'
    BY <1>6, <1>m, <1>t, MovePush DEF PushLogFails, Refuse
  <2>3. FilesOK'
    BY <1>6, <1>m, <1>t, <1>d DEF PushLogFails, FilesOK
  <2>4. FaultsOK'
    BY <1>6, <1>t DEF PushLogFails, FaultsOK
  <2> QED BY <1>6, <1>t, <2>1, <2>2, <2>3, <2>4
        DEF PushLogFails, TypeOK, NodeOK, SourceOK, LeaderOK, nodeVars, leaderVars
<1>7. CASE PushWrite(m)
  <2>1. TaskOK'
    <3> DEFINE x == Append(task[i].Stdin, m.val)
               s == task[i].ProcessedIDs \cup {m.id}
               r == [task[i] EXCEPT !.Stdin = x, !.ProcessedIDs = s, !.lock = "free"]
    <3>1. i \in Inst /\ m.val \in Lines /\ m.id \in MsgIds
      BY <1>7, <1>i, <1>m DEF PushWrite, PushRec
    <3>2. x \in Seq(Lines) /\ s \in SUBSET MsgIds /\ task[i] \in TaskRec
      BY <3>1, <1>t, FieldTypes
    <3>3. task' = [task EXCEPT ![i] = r]
      BY <1>7 DEF PushWrite, i
    <3>4. r \in TaskRec
      BY <3>2, FieldUpdates
    <3> QED BY <1>t, <3>1, <3>3, <3>4, TaskUpdate
  <2>2. PushesOK' /\ FaultsOK'
    BY <1>7, <1>t, AnswerType DEF PushWrite
  <2> QED BY <1>7, <1>t, <2>1, <2>2
        DEF PushWrite, TypeOK, NodeOK, FilesOK, SourceOK, LeaderOK,
            nodeVars, files, leaderVars
<1>8. CASE PushWriteFails(m)
  <2>1. TaskOK'
    BY <1>8, <1>l DEF PushWriteFails, i
  <2>2. PushesOK'
    BY <1>8, <1>m, <1>t, MovePush DEF PushWriteFails, Refuse
  <2> QED BY <1>8, <1>t, <2>1, <2>2
        DEF PushWriteFails, TypeOK, NodeOK, FilesOK, SourceOK, LeaderOK, FaultsOK,
            nodeVars, files, leaderVars, faults
<1> QED BY <1>1, <1>2, <1>3, <1>4, <1>5, <1>6, <1>7, <1>8 DEF PushStep
(* Creating a data push keeps the type of pushes.                          *)
LEMMA NewDataPush ==
  ASSUME PushesOK, NEW org \in Inst \cup {Source},
         NEW dest \in Keys, NEW id \in MsgIds, NEW v \in Lines,
         pushes' = pushes \cup {DataPush(org, dest, id, v)}
  PROVE  PushesOK'
<1> DEFINE d == DataPush(org, dest, id, v)
<1>1. d \in PushRec /\ d.kind = "data" /\ d.val \in Lines /\ d.pc = "send"
  BY StreamAssumption DEF DataPush, PushRec, Lines
<1>2. pushes' = pushes \cup {d}
  OBVIOUS
<1> HIDE DEF d
<1> QED BY <1>1, <1>2 DEF PushesOK

(* So does creating the EOS pushes to a stage.                             *)
LEMMA NewEOSPushes ==
  ASSUME PushesOK, NEW org \in Inst \cup {Source}, NEW s \in Stages,
         pushes' = pushes \cup EOSPushes(org, s)
  PROVE  PushesOK'
<1> USE StreamAssumption
<1>1. EOSId \in MsgIds
  BY DEF EOSId, MsgIds, Tasks
<1>2. \A t \in Tasks : <<s, t>> \in Keys
  BY DEF Keys
<1>3. \A e \in EOSPushes(org, s) : e \in PushRec /\ e.kind = "EOS" /\ e.pc = "send"
  BY <1>1, <1>2 DEF EOSPushes, PushRec
<1> QED BY <1>3 DEF PushesOK

(* The steps of the source keep the types.                                 *)
LEMMA SourceTypeOK ==
  ASSUME TypeOK, SourceLine \/ SourceEOS \/ SourceDone
  PROVE  TypeOK'
<1> USE StreamAssumption
<1>t. TaskOK /\ NodeOK /\ FilesOK /\ PushesOK /\ SourceOK /\ LeaderOK /\ FaultsOK
  BY DEF TypeOK
<1>1. CASE SourceLine
  <2> DEFINE seq == source.seq + 1
  <2>1. seq \in Lines /\ seq \in 0 .. NumLines
    BY <1>1, <1>t DEF SourceLine, SourceOK, Lines
  <2>2. <<1, seq % NumTasks>> \in Keys /\ <<0, 0, seq>> \in MsgIds
    BY <2>1 DEF Keys, Stages, Tasks, MsgIds, Lines
  <2>3. PushesOK'
    BY <1>1, <1>t, <2>1, <2>2, NewDataPush DEF SourceLine
  <2>4. SourceOK'
    BY <1>1, <1>t, <2>1 DEF SourceLine, SourceOK
  <2> QED BY <1>1, <1>t, <2>3, <2>4
        DEF SourceLine, TypeOK, TaskOK, NodeOK, FilesOK, LeaderOK, FaultsOK,
            nodeVars, files, leaderVars, faults
<1>2. CASE SourceEOS
  <2>1. 1 \in Stages
    BY DEF Stages
  <2>2. PushesOK'
    BY <1>2, <1>t, <2>1, NewEOSPushes DEF SourceEOS
  <2>3. SourceOK'
    BY <1>2, <1>t DEF SourceEOS, SourceOK
  <2> QED BY <1>2, <1>t, <2>2, <2>3
        DEF SourceEOS, TypeOK, TaskOK, NodeOK, FilesOK, LeaderOK, FaultsOK,
            nodeVars, files, leaderVars, faults
<1>3. CASE SourceDone
  <2>1. SourceOK'
    BY <1>3, <1>t DEF SourceDone, SourceOK
  <2>2. PushesOK'
    BY <1>3, <1>t DEF SourceDone, PushesOK
  <2> QED BY <1>3, <1>t, <2>1, <2>2
        DEF SourceDone, TypeOK, TaskOK, NodeOK, FilesOK, LeaderOK, FaultsOK,
            nodeVars, files, leaderVars, faults
<1> QED BY <1>1, <1>2, <1>3
(* The steps of an operator process and of its two goroutines keep the     *)
(* types.                                                                  *)
LEMMA InstTypeOK ==
  ASSUME TypeOK, NEW i \in Inst, InstStep(i)
  PROVE  TypeOK'
<1> USE StreamAssumption
<1>t. TaskOK /\ NodeOK /\ FilesOK /\ PushesOK /\ SourceOK /\ LeaderOK /\ FaultsOK
  BY DEF TypeOK
<1>f. /\ task[i] \in TaskRec
      /\ task[i].Stdin \in Seq(Lines) /\ task[i].Stdout \in Seq(Lines)
      /\ task[i].replay \in Seq(Entries) /\ task[i].SeqNum \in Nat
  BY <1>t, FieldTypes
<1>k. KeyOf(i) \in Keys /\ i[1] \in Stages /\ i[2] \in Tasks /\ i[3] \in Runs
  BY DEF Inst, Keys, KeyOf
<1>1. CASE Operator(i)
  <2> DEFINE v == Head(task[i].Stdin)
             x == Tail(task[i].Stdin)
             y == IF <<i[1], v>> \in Passes THEN Append(task[i].Stdout, v)
                                            ELSE task[i].Stdout
             r == [task[i] EXCEPT !.Stdin = x, !.Stdout = y]
  <2>1. v \in Lines /\ x \in Seq(Lines)
    BY <1>1, <1>f DEF Operator
  <2>2. y \in Seq(Lines)
    <3> HIDE DEF v
    <3>1. Append(task[i].Stdout, v) \in Seq(Lines)
      BY <1>f, <2>1
    <3> QED
      BY <1>f, <3>1
  <2>3. task' = [task EXCEPT ![i] = r]
    BY <1>1 DEF Operator
  <2>4. r \in TaskRec
    BY <1>f, <2>1, <2>2, FieldUpdates
  <2>5. TaskOK'
    BY <1>t, <2>3, <2>4, TaskUpdate
  <2> QED BY <1>1, <1>t, <2>5
        DEF Operator, TypeOK, NodeOK, FilesOK, PushesOK, SourceOK, LeaderOK, FaultsOK,
            nodeVars, files, leaderVars, faults
<1>2. CASE OperatorExit(i)
  <2>1. [task[i] EXCEPT !.proc = "dead"] \in TaskRec
    BY <1>f, FieldUpdates
  <2>2. TaskOK'
    BY <1>2, <1>t, <2>1, TaskUpdate DEF OperatorExit
  <2> QED BY <1>2, <1>t, <2>2
        DEF OperatorExit, TypeOK, NodeOK, FilesOK, PushesOK, SourceOK, LeaderOK,
            FaultsOK, nodeVars, files, leaderVars, faults
<1>3. CASE ReplayLock(i)
  <2>1. [task[i] EXCEPT !.lock = "replay"] \in TaskRec
    BY <1>f, FieldUpdates
  <2>2. TaskOK'
    BY <1>3, <1>t, <2>1, TaskUpdate DEF ReplayLock
  <2> QED BY <1>3, <1>t, <2>2
        DEF ReplayLock, TypeOK, NodeOK, FilesOK, PushesOK, SourceOK, LeaderOK,
            FaultsOK, nodeVars, files, leaderVars, faults
<1>4. CASE ReplayWrite(i)
  <2> DEFINE v == Head(task[i].replay)[2]
             x == IF Writable(i) THEN Append(task[i].Stdin, v) ELSE task[i].Stdin
             y == Tail(task[i].replay)
             r == [task[i] EXCEPT !.Stdin = x, !.replay = y, !.lock = "free"]
  <2>1. task[i].replay # <<>>
    BY <1>4 DEF ReplayWrite
  <2>2. Head(task[i].replay) \in Entries /\ y \in Seq(Entries)
    BY <1>f, <2>1
  <2>3. v \in Lines
    BY <2>2 DEF Entries
  <2>4. x \in Seq(Lines)
    BY <1>f, <2>3
  <2>5. task' = [task EXCEPT ![i] = r]
    BY <1>4 DEF ReplayWrite
  <2>6. r \in TaskRec
    BY <1>f, <2>2, <2>4, FieldUpdates
  <2>7. TaskOK'
    BY <1>t, <2>5, <2>6, TaskUpdate
  <2> QED BY <1>4, <1>t, <2>7
        DEF ReplayWrite, TypeOK, NodeOK, FilesOK, PushesOK, SourceOK, LeaderOK,
            FaultsOK, nodeVars, files, leaderVars, faults
<1>5. CASE HandleOutput(i)
  <2> DEFINE v == Head(task[i].Stdout)
             n == task[i].SeqNum + 1
             x == Tail(task[i].Stdout)
             r == [task[i] EXCEPT !.Stdout = x, !.SeqNum = n]
  <2>0. task[i].Stdout # <<>>
    BY <1>5 DEF HandleOutput
  <2>1. v \in Lines /\ x \in Seq(Lines) /\ n \in Nat
    BY <1>f, <2>0
  <2>2. task' = [task EXCEPT ![i] = r]
    BY <1>5 DEF HandleOutput
  <2>3. r \in TaskRec
    BY <1>f, <2>1, FieldUpdates
  <2>4. TaskOK'
    BY <1>t, <2>2, <2>3, TaskUpdate
  <2>5. CASE IsLastStage(i)
    <3>1. FilesOK'
      <4>1. dedup' = dedup /\ (output' = Append(output, v) \/ output' = output)
        BY <1>5, <2>5 DEF HandleOutput
      <4>2. Append(output, v) \in Seq(Lines)
        BY <1>t, <2>1 DEF FilesOK
      <4> HIDE DEF v
      <4> QED BY <1>t, <4>1, <4>2 DEF FilesOK
    <3>2. FaultsOK'
      BY <1>5, <1>t, <2>5 DEF HandleOutput, FaultsOK
    <3>3. pushes' = pushes
      BY <1>5, <2>5 DEF HandleOutput
    <3>4. PushesOK'
      BY <1>t, <3>3 DEF PushesOK
    <3> QED BY <1>5, <1>t, <2>4, <3>1, <3>2, <3>4
          DEF HandleOutput, TypeOK, NodeOK, SourceOK, LeaderOK, nodeVars, leaderVars
  <2>6. CASE ~IsLastStage(i)
    <3>1. KeyHash[v] % NumTasks \in Tasks
      BY <2>1 DEF Tasks
    <3>2. i[1] + 1 \in Stages
      BY <1>k, <2>6 DEF Stages, IsLastStage
    <3>3. /\ <<i[1] + 1, KeyHash[v] % NumTasks>> \in Keys
          /\ <<i[1], i[2], n>> \in MsgIds
      BY <1>k, <2>1, <3>1, <3>2 DEF Keys, MsgIds, Stages
    <3>4. PushesOK'
      BY <1>5, <1>t, <2>1, <2>6, <3>3, NewDataPush DEF HandleOutput
    <3>5. output' = output /\ fails' = fails
      BY <1>5, <2>6 DEF HandleOutput
    <3> QED BY <1>5, <1>t, <2>4, <3>4, <3>5
          DEF HandleOutput, TypeOK, NodeOK, FilesOK, SourceOK, LeaderOK, FaultsOK,
              nodeVars, leaderVars
  <2> QED BY <2>5, <2>6
<1>6. CASE HandleEOF(i)
  <2> DEFINE sendEOS == IsSuccess(i) /\ ~IsLastStage(i)
             h == IF sendEOS THEN "eos" ELSE "done"
  <2>1. [task[i] EXCEPT !.handler = h] \in TaskRec
    BY <1>f, FieldUpdates
  <2>2. TaskOK'
    BY <1>6, <1>t, <2>1, TaskUpdate DEF HandleEOF
  <2>3. CASE sendEOS
    <3>1. i[1] + 1 \in Stages
      BY <1>k, <2>3 DEF Stages, IsLastStage
    <3>2. pushes' = pushes \cup EOSPushes(i, i[1] + 1) /\ reports' = reports
      BY <1>6, <2>3 DEF HandleEOF
    <3>3. PushesOK'
      BY <1>t, <3>1, <3>2, NewEOSPushes
    <3> QED BY <1>6, <1>t, <2>2, <3>2, <3>3
          DEF HandleEOF, TypeOK, NodeOK, FilesOK, SourceOK, LeaderOK, FaultsOK,
              nodeVars, files, faults
  <2>4. CASE ~sendEOS
    <3>1. pushes' = pushes
      BY <1>6, <2>4 DEF HandleEOF
    <3>2. reports' \subseteq [inst: Inst, status: {"Success", "Failure"}]
      BY <1>6, <1>t, <2>4 DEF HandleEOF, Report, LeaderOK
    <3>3. PushesOK'
      BY <1>t, <3>1 DEF PushesOK
    <3> QED BY <1>6, <1>t, <2>2, <3>2, <3>3
          DEF HandleEOF, TypeOK, NodeOK, FilesOK, SourceOK, LeaderOK, FaultsOK,
              nodeVars, files, faults
  <2> QED BY <2>3, <2>4
<1>7. CASE HandleEOSSent(i)
  <2>1. [task[i] EXCEPT !.handler = "done"] \in TaskRec
    BY <1>f, FieldUpdates
  <2>2. TaskOK'
    BY <1>7, <1>t, <2>1, TaskUpdate DEF HandleEOSSent
  <2>3. reports' \subseteq [inst: Inst, status: {"Success", "Failure"}]
    BY <1>7, <1>t DEF HandleEOSSent, Report, LeaderOK
  <2> QED BY <1>7, <1>t, <2>2, <2>3
        DEF HandleEOSSent, TypeOK, NodeOK, FilesOK, PushesOK, SourceOK, LeaderOK,
            FaultsOK, nodeVars, files, faults
<1> QED BY <1>1, <1>2, <1>3, <1>4, <1>5, <1>6, <1>7 DEF InstStep
(* So do the steps of the leader and the failures of processes.            *)
LEMMA LeaderTypeOK ==
  ASSUME TypeOK,
         \/ \E r \in reports : TaskFinished(r) \/ ReportLost(r)
         \/ \E k \in Keys : LoadDedupLog(k) \/ StartTask(k)
  PROVE  TypeOK'
<1> USE StreamAssumption
<1>t. TaskOK /\ NodeOK /\ FilesOK /\ PushesOK /\ SourceOK /\ LeaderOK /\ FaultsOK
  BY DEF TypeOK
<1>1. ASSUME NEW r \in reports, TaskFinished(r) PROVE TypeOK'
  <2>1. KeyOf(r.inst) \in Keys
    BY <1>t DEF LeaderOK, KeyOf, Inst, Keys
  <2>2. [pc |-> "load", log |-> <<>>]
          \in [pc: {"none", "load", "start"}, log: Seq(Entries)]
    OBVIOUS
  <2>3. restart' \in [Keys -> [pc: {"none", "load", "start"}, log: Seq(Entries)]]
    BY <1>1, <1>t, <2>1, <2>2 DEF TaskFinished, LeaderOK
  <2>4. LeaderOK'
    BY <1>1, <1>t, <2>3 DEF TaskFinished, LeaderOK
  <2> QED BY <1>1, <1>t, <2>4
        DEF TaskFinished, TypeOK, TaskOK, NodeOK, FilesOK, PushesOK, SourceOK, FaultsOK,
            nodeVars, files, faults
<1>2. ASSUME NEW r \in reports, ReportLost(r) PROVE TypeOK'
  <2>1. LeaderOK'
    BY <1>2, <1>t DEF ReportLost, LeaderOK
  <2>2. FaultsOK'
    BY <1>2, <1>t DEF ReportLost, FaultsOK
  <2> QED BY <1>2, <1>t, <2>1, <2>2
        DEF ReportLost, TypeOK, TaskOK, NodeOK, FilesOK, PushesOK, SourceOK,
            nodeVars, files
<1>3. ASSUME NEW k \in Keys, LoadDedupLog(k) PROVE TypeOK'
  <2>0. \A log \in Seq(Entries) : [pc |-> "start", log |-> log]
          \in [pc: {"none", "load", "start"}, log: Seq(Entries)]
    OBVIOUS
  <2>1. LeaderOK'
    <3>1. dedup[k] \in Seq(Entries) /\ <<>> \in Seq(Entries)
      BY <1>t DEF FilesOK
    <3>2. \E log \in Seq(Entries) :
            restart' = [restart EXCEPT ![k] = [pc |-> "start", log |-> log]]
      BY <1>3, <3>1 DEF LoadDedupLog
    <3> QED BY <1>3, <1>t, <2>0, <3>2 DEF LoadDedupLog, LeaderOK
  <2>2. FaultsOK'
    BY <1>3, <1>t DEF LoadDedupLog, FaultsOK
  <2> QED BY <1>3, <1>t, <2>1, <2>2
        DEF LoadDedupLog, TypeOK, TaskOK, NodeOK, FilesOK, PushesOK, SourceOK,
            nodeVars, files
<1>4. ASSUME NEW k \in Keys, StartTask(k) PROVE TypeOK'
  <2> DEFINE r == runs[k] + 1
             i == <<k[1], k[2], r>>
  <2>1. r \in Runs /\ i \in Inst
    BY <1>4 DEF StartTask, Inst, Keys
  <2>2. restart[k].log \in Seq(Entries)
    BY <1>t DEF LeaderOK
  <2>3. NewTask(restart[k].log) \in TaskRec
    BY <2>2, NewTaskType
  <2>4. task' = [task EXCEPT ![i] = NewTask(restart[k].log)]
    BY <1>4 DEF StartTask
  <2>5. TaskOK'
    BY <1>t, <2>1, <2>3, <2>4, TaskUpdate
  <2>6. NodeOK'
    BY <1>4, <1>t, <2>1 DEF StartTask, NodeOK
  <2>7. LeaderOK'
    BY <1>4, <1>t DEF StartTask, LeaderOK
  <2> QED BY <1>4, <1>t, <2>5, <2>6, <2>7
        DEF StartTask, TypeOK, FilesOK, PushesOK, SourceOK, FaultsOK, files, faults
<1> QED BY <1>1, <1>2, <1>3, <1>4

(* Neither does a crash or a KillTask break them.                          *)
LEMMA FailureTypeOK ==
  ASSUME TypeOK, NEW i \in Inst, Crash(i) \/ KillProcess(i) \/ KillCleanup(i)
  PROVE  TypeOK'
<1> USE StreamAssumption
<1>t. TaskOK /\ NodeOK /\ FilesOK /\ PushesOK /\ SourceOK /\ LeaderOK /\ FaultsOK
  BY DEF TypeOK
<1>d. ASSUME Die(i), losses' = losses, fails' = fails PROVE TaskOK' /\ FaultsOK'
  <2>1. <<>> \in Seq(Lines) /\ task[i] \in TaskRec
    BY <1>t, FieldTypes
  <2>2. [task[i] EXCEPT !.proc = "dead", !.Stdin = <<>>] \in TaskRec
    BY <2>1, FieldUpdates
  <2>3. TaskOK'
    BY <1>d, <1>t, <2>2, TaskUpdate DEF Die
  <2> QED BY <1>d, <1>t, <2>3 DEF Die, FaultsOK
<1>1. CASE Crash(i)
  BY <1>1, <1>t, <1>d
  DEF Crash, TypeOK, NodeOK, FilesOK, PushesOK, SourceOK, LeaderOK,
      nodeVars, files, leaderVars
<1>2. CASE KillProcess(i)
  BY <1>2, <1>t, <1>d
  DEF KillProcess, TypeOK, NodeOK, FilesOK, PushesOK, SourceOK, LeaderOK,
      nodeVars, files, leaderVars
<1>3. CASE KillCleanup(i)
  <2>1. KeyOf(i) \in Keys
    BY DEF KeyOf, Inst, Keys
  <2>2. NodeOK'
    BY <1>3, <1>t, <2>1 DEF KillCleanup, NodeOK
  <2> QED BY <1>3, <1>t, <2>2
        DEF KillCleanup, TypeOK, TaskOK, FilesOK, PushesOK, SourceOK, LeaderOK,
            FaultsOK, files, leaderVars, faults
<1> QED BY <1>1, <1>2, <1>3

(* All steps together, stuttering included.                                *)
LEMMA NextTypeOK == TypeOK /\ [Next]_vars => TypeOK'
<1> SUFFICES ASSUME TypeOK, [Next]_vars PROVE TypeOK'
  OBVIOUS
<1>1. CASE UNCHANGED vars
  BY <1>1
  DEF vars, nodeVars, files, leaderVars, faults, TypeOK, TaskOK, NodeOK, FilesOK,
      PushesOK, SourceOK, LeaderOK, FaultsOK
<1>2. CASE Next
  BY <1>1, <1>2, PushTypeOK, SourceTypeOK, InstTypeOK, LeaderTypeOK, FailureTypeOK
  DEF Next, Finished
<1> QED BY <1>1, <1>2

(* Type correctness: in every reachable state, for any number of stages,   *)
(* tasks and lines and any bounds, every structure has its type, and a     *)
(* push inside PushTuple is bound to a process of the task it is sent to.  *)
THEOREM TypeCorrect == Spec => []TypeOK
BY InitTypeOK, NextTypeOK, PTL DEF Spec
-----------------------------------------------------------------------------
(* The write-ahead invariant.                                              *)

(* At the start nothing is pushed, processed or recovered.                 *)
LEMMA InitWriteAhead == Init => WriteAhead
<1> SUFFICES ASSUME Init PROVE WriteAhead
  OBVIOUS
<1>1. <<>> \in Seq(Entries)
  OBVIOUS
<1>2. ProcessedLogged
  BY <1>1, NewTaskType, NoTaskType, IdsOfEmpty DEF Init, AllStarted, ProcessedLogged, NewTask
<1>3. RecoveredLogged
  BY IdsOfEmpty DEF Init, RecoveredLogged
<1>4. LoggedPushes
  BY DEF Init, LoggedPushes
<1> QED BY <1>2, <1>3, <1>4 DEF WriteAhead

(* The dedup logs only grow.                                               *)
LogsGrow == \A k \in Keys : IdsOf(dedup[k]) \subseteq IdsOf(dedup'[k])

(* A step that appends at most one entry lets every log grow.              *)
LEMMA AppendGrows ==
  ASSUME TypeOK, NEW m \in pushes, m.kind = "data", AppendDedup(m)
  PROVE  LogsGrow /\ m.id \in IdsOf(dedup'[m.dest])
<1>1. /\ m \in PushRec /\ m.val \in Lines
      /\ dedup \in [Keys -> Seq(Entries)]
  BY DEF TypeOK, PushesOK, FilesOK
<1>2. m.dest \in Keys /\ <<m.id, m.val>> \in Entries /\ dedup[m.dest] \in Seq(Entries)
  BY <1>1 DEF PushRec, Entries
<1>3. dedup' = [dedup EXCEPT ![m.dest] = Append(dedup[m.dest], <<m.id, m.val>>)]
  BY DEF AppendDedup
<1>4. IdsOf(Append(dedup[m.dest], <<m.id, m.val>>)) = IdsOf(dedup[m.dest]) \cup {m.id}
  <2>1. <<m.id, m.val>>[1] = m.id
    OBVIOUS
  <2> QED BY <1>2, <2>1, IdsOfAppend
<1>5. dedup'[m.dest] = Append(dedup[m.dest], <<m.id, m.val>>)
  BY <1>1, <1>2, <1>3
<1>6. \A k \in Keys : k # m.dest => dedup'[k] = dedup[k]
  BY <1>1, <1>3
<1> QED BY <1>4, <1>5, <1>6 DEF LogsGrow

(* What was recovered stays logged when logs grow and restart is left.     *)
LEMMA RecoveredStays ==
  ASSUME RecoveredLogged, LogsGrow, restart' = restart
  PROVE  RecoveredLogged'
BY DEF RecoveredLogged, LogsGrow

(* What was processed stays logged when no task marks more as processed.   *)
LEMMA ProcessedStays ==
  ASSUME ProcessedLogged, LogsGrow,
         \A i \in Inst : task'[i].ProcessedIDs = task[i].ProcessedIDs
  PROVE  ProcessedLogged'
BY DEF ProcessedLogged, LogsGrow, KeyOf, Inst, Keys

(* Pushes that were logged stay logged; the one that moves must be logged  *)
(* where it moves to.                                                      *)
LEMMA LoggedStays ==
  ASSUME PushesOK, LoggedPushes, LogsGrow, NEW m \in pushes,
         NEW p, NEW q, Move(m, p, q),
         m.kind = "data" /\ p \in {"writing", "acked"} => m.id \in IdsOf(dedup'[m.dest])
  PROVE  LoggedPushes'
<1> DEFINE n == [m EXCEPT !.pc = p, !.run = q]
<1>1. m \in PushRec /\ \A o \in pushes : o.dest \in Keys
  BY DEF PushesOK, PushRec
<1>2. n.kind = m.kind /\ n.id = m.id /\ n.dest = m.dest /\ n.pc = p
  BY <1>1 DEF PushRec
<1>3. pushes' = (pushes \ {m}) \cup {n}
  BY DEF Move
<1> HIDE DEF n
<1> SUFFICES ASSUME NEW o \in pushes', o.kind = "data", o.pc \in {"writing", "acked"}
             PROVE  o.id \in IdsOf(dedup'[o.dest])
  BY DEF LoggedPushes
<1>4. CASE o = n
  BY <1>2, <1>4
<1>5. CASE o \in pushes
  <2>1. o.id \in IdsOf(dedup[o.dest]) /\ o.dest \in Keys
    BY <1>1, <1>5 DEF LoggedPushes
  <2> QED BY <2>1 DEF LogsGrow
<1> QED BY <1>3, <1>4, <1>5
(* The steps of a push keep the invariant: an id is marked as processed,   *)
(* and a push acknowledged, only after the append.                         *)
LEMMA PushWriteAhead ==
  ASSUME TypeOK, WriteAhead, NEW m \in pushes, PushStep(m)
  PROVE  WriteAhead'
<1>m. /\ m \in PushRec
      /\ m.pc \in {"logging", "writing"} => m.kind = "data"
      /\ m.pc \in {"locking", "logging", "writing"} => m.run # 0
      /\ PushesOK /\ TaskOK
  BY DEF TypeOK, PushesOK
<1>w. LoggedPushes /\ ProcessedLogged /\ RecoveredLogged
  BY DEF WriteAhead
<1> DEFINE i == Target(m)
<1>i. ASSUME m.pc \in {"locking", "logging", "writing"}
      PROVE  i \in Inst /\ KeyOf(i) = m.dest
  BY <1>i, <1>m, TargetType
<1> HIDE DEF i
<1>g. dedup' = dedup => LogsGrow
  BY DEF LogsGrow
<1>a. ASSUME LogsGrow, Answer(m), m.kind = "data" => m.id \in IdsOf(dedup'[m.dest])
      PROVE  LoggedPushes'
  BY <1>a, <1>m, <1>w, LoggedStays DEF Answer
<1>1. CASE PushLookup(m)
  <2>1. LogsGrow /\ restart' = restart /\ task' = task /\ Move(m, "locking", rsTasks[m.dest])
    BY <1>1, <1>g DEF PushLookup, files, leaderVars
  <2>2. LoggedPushes'
    BY <1>m, <1>w, <2>1, LoggedStays
  <2> QED BY <1>w, <2>1, <2>2, RecoveredStays, ProcessedStays DEF WriteAhead
<1>2. CASE PushEOS(m)
  <2>1. LogsGrow /\ restart' = restart /\ m.kind = "EOS"
    BY <1>2, <1>g DEF PushEOS, files, leaderVars
  <2>2. LoggedPushes'
    BY <1>2, <1>a, <2>1 DEF PushEOS
  <2>3. \A j \in Inst : task'[j].ProcessedIDs = task[j].ProcessedIDs
    BY <1>2, <1>m DEF PushEOS, TaskOK, TaskRec
  <2> QED BY <1>w, <2>1, <2>2, <2>3, RecoveredStays, ProcessedStays DEF WriteAhead
<1>3. CASE PushDuplicate(m)
  <2>1. LogsGrow /\ restart' = restart /\ task' = task /\ dedup' = dedup
    BY <1>3, <1>g DEF PushDuplicate, files, leaderVars
  <2>2. m.id \in IdsOf(dedup[m.dest])
    BY <1>3, <1>i, <1>w DEF PushDuplicate, ProcessedLogged, i
  <2>3. LoggedPushes'
    BY <1>3, <1>a, <2>1, <2>2 DEF PushDuplicate
  <2> QED BY <1>w, <2>1, <2>3, RecoveredStays, ProcessedStays DEF WriteAhead
<1>4. CASE PushFresh(m)
  <2>1. LogsGrow /\ restart' = restart /\ Move(m, "logging", m.run)
    BY <1>4, <1>g DEF PushFresh, files, leaderVars
  <2>2. LoggedPushes'
    BY <1>m, <1>w, <2>1, LoggedStays
  <2>3. \A j \in Inst : task'[j].ProcessedIDs = task[j].ProcessedIDs
    BY <1>4, <1>m DEF PushFresh, TaskOK, TaskRec
  <2> QED BY <1>w, <2>1, <2>2, <2>3, RecoveredStays, ProcessedStays DEF WriteAhead
<1>5. CASE PushLog(m)
  <2>1. restart' = restart /\ task' = task /\ Move(m, "writing", m.run) /\ m.kind = "data"
    BY <1>5, <1>m DEF PushLog, leaderVars
  <2>2. LogsGrow /\ m.id \in IdsOf(dedup'[m.dest])
    BY <1>5, <2>1, AppendGrows DEF PushLog
  <2>3. LoggedPushes'
    BY <1>m, <1>w, <2>1, <2>2, LoggedStays
  <2> QED BY <1>w, <2>1, <2>2, <2>3, RecoveredStays, ProcessedStays DEF WriteAhead
<1>6. CASE PushLogFails(m)
  <2>1. restart' = restart /\ Move(m, "send", 0) /\ m.kind = "data"
    BY <1>6, <1>m DEF PushLogFails, Refuse, leaderVars
  <2>2. LogsGrow
    BY <1>6, <1>g, <2>1, AppendGrows DEF PushLogFails
  <2>3. LoggedPushes'
    BY <1>m, <1>w, <2>1, <2>2, LoggedStays
  <2>4. \A j \in Inst : task'[j].ProcessedIDs = task[j].ProcessedIDs
    BY <1>6, <1>m DEF PushLogFails, TaskOK, TaskRec
  <2> QED BY <1>w, <2>1, <2>2, <2>3, <2>4, RecoveredStays, ProcessedStays DEF WriteAhead
<1>7. CASE PushWrite(m)
  <2>1. LogsGrow /\ restart' = restart /\ dedup' = dedup
    BY <1>7, <1>g DEF PushWrite, files, leaderVars
  <2>2. m.id \in IdsOf(dedup[m.dest])
    BY <1>7, <1>m, <1>w DEF PushWrite, LoggedPushes
  <2>3. LoggedPushes'
    BY <1>7, <1>a, <2>1, <2>2 DEF PushWrite
  <2>4. ProcessedLogged'
    <3>1. i \in Inst /\ KeyOf(i) = m.dest
      BY <1>7, <1>i DEF PushWrite
    <3>2. /\ task'[i].ProcessedIDs = task[i].ProcessedIDs \cup {m.id}
          /\ \A j \in Inst : j # i => task'[j] = task[j]
      BY <1>7, <1>m, <3>1 DEF PushWrite, TaskOK, TaskRec, i
    <3> QED BY <1>w, <2>1, <2>2, <3>1, <3>2 DEF ProcessedLogged
  <2> QED BY <1>w, <2>1, <2>3, <2>4, RecoveredStays DEF WriteAhead
<1>8. CASE PushWriteFails(m)
  <2>1. LogsGrow /\ restart' = restart /\ Move(m, "send", 0)
    BY <1>8, <1>g DEF PushWriteFails, Refuse, files, leaderVars
  <2>2. LoggedPushes'
    BY <1>m, <1>w, <2>1, LoggedStays
  <2>3. \A j \in Inst : task'[j].ProcessedIDs = task[j].ProcessedIDs
    BY <1>8, <1>m DEF PushWriteFails, TaskOK, TaskRec
  <2> QED BY <1>w, <2>1, <2>2, <2>3, RecoveredStays, ProcessedStays DEF WriteAhead
<1> QED BY <1>1, <1>2, <1>3, <1>4, <1>5, <1>6, <1>7, <1>8 DEF PushStep
(* A step that leaves the logs and the recovered ids alone, marks nothing  *)
(* as processed and only creates pushes that are still to be sent.         *)
LEMMA OtherWriteAhead ==
  ASSUME WriteAhead, dedup' = dedup, restart' = restart,
         \A i \in Inst : task'[i].ProcessedIDs = task[i].ProcessedIDs,
         \A m \in pushes' : m \in pushes \/ m.pc = "send"
  PROVE  WriteAhead'
<1>1. LoggedPushes'
  BY DEF WriteAhead, LoggedPushes
<1>2. ProcessedLogged'
  BY DEF WriteAhead, ProcessedLogged
<1>3. RecoveredLogged'
  BY DEF WriteAhead, RecoveredLogged
<1> QED BY <1>1, <1>2, <1>3 DEF WriteAhead

(* The steps of an instance log nothing and acknowledge nothing.           *)
LEMMA InstWriteAhead ==
  ASSUME TypeOK, WriteAhead, NEW i \in Inst,
         InstStep(i) \/ Crash(i) \/ KillProcess(i) \/ KillCleanup(i)
  PROVE  WriteAhead'
<1>t. TaskOK
  BY DEF TypeOK
<1>1. CASE Operator(i)
  BY <1>1, <1>t, OtherWriteAhead DEF Operator, files, leaderVars, TaskOK, TaskRec
<1>2. CASE OperatorExit(i)
  BY <1>2, <1>t, OtherWriteAhead DEF OperatorExit, files, leaderVars, TaskOK, TaskRec
<1>3. CASE ReplayLock(i)
  BY <1>3, <1>t, OtherWriteAhead DEF ReplayLock, files, leaderVars, TaskOK, TaskRec
<1>4. CASE ReplayWrite(i)
  BY <1>4, <1>t, OtherWriteAhead DEF ReplayWrite, files, leaderVars, TaskOK, TaskRec
<1>5. CASE HandleOutput(i)
  <2>1. \A j \in Inst : task'[j].ProcessedIDs = task[j].ProcessedIDs
    BY <1>5, <1>t DEF HandleOutput, TaskOK, TaskRec
  <2>2. \A m \in pushes' : m \in pushes \/ m.pc = "send"
    BY <1>5 DEF HandleOutput, DataPush
  <2>3. dedup' = dedup /\ restart' = restart
    BY <1>5 DEF HandleOutput, leaderVars
  <2> QED BY <2>1, <2>2, <2>3, OtherWriteAhead
<1>6. CASE HandleEOF(i)
  <2>1. \A j \in Inst : task'[j].ProcessedIDs = task[j].ProcessedIDs
    BY <1>6, <1>t DEF HandleEOF, TaskOK, TaskRec
  <2>2. \A m \in pushes' : m \in pushes \/ m.pc = "send"
    BY <1>6 DEF HandleEOF, EOSPushes
  <2>3. dedup' = dedup /\ restart' = restart
    BY <1>6 DEF HandleEOF, files
  <2> QED BY <2>1, <2>2, <2>3, OtherWriteAhead
<1>7. CASE HandleEOSSent(i)
  BY <1>7, <1>t, OtherWriteAhead DEF HandleEOSSent, files, TaskOK, TaskRec
<1>8. CASE Crash(i) \/ KillProcess(i)
  <2>1. Die(i) /\ pushes' = pushes /\ dedup' = dedup /\ restart' = restart
    BY <1>8 DEF Crash, KillProcess, files, leaderVars
  <2>2. \A j \in Inst : task'[j].ProcessedIDs = task[j].ProcessedIDs
    BY <2>1, <1>t DEF Die, TaskOK, TaskRec
  <2> QED BY <2>1, <2>2, OtherWriteAhead
<1>9. CASE KillCleanup(i)
  BY <1>9, OtherWriteAhead DEF KillCleanup, files, leaderVars
<1> QED BY <1>1, <1>2, <1>3, <1>4, <1>5, <1>6, <1>7, <1>8, <1>9 DEF InstStep

(* The source only adds pushes that are still to be sent.                  *)
LEMMA SourceWriteAhead ==
  ASSUME WriteAhead, SourceLine \/ SourceEOS \/ SourceDone
  PROVE  WriteAhead'
BY OtherWriteAhead
DEF SourceLine, SourceEOS, SourceDone, DataPush, EOSPushes, files, leaderVars

(* A restart recovers a part of the log and marks only that.               *)
LEMMA LeaderWriteAhead ==
  ASSUME TypeOK, WriteAhead,
         \/ \E r \in reports : TaskFinished(r) \/ ReportLost(r)
         \/ \E k \in Keys : LoadDedupLog(k) \/ StartTask(k)
  PROVE  WriteAhead'
<1>w. LoggedPushes /\ ProcessedLogged /\ RecoveredLogged
  BY DEF WriteAhead
<1>t. TaskOK /\ FilesOK /\ LeaderOK /\ NodeOK
  BY DEF TypeOK
<1>l. ASSUME pushes' = pushes, dedup' = dedup PROVE LoggedPushes'
  BY <1>l, <1>w DEF LoggedPushes
<1>p. ASSUME task' = task, dedup' = dedup PROVE ProcessedLogged'
  BY <1>p, <1>w DEF ProcessedLogged
<1>1. ASSUME NEW r \in reports, TaskFinished(r) PROVE WriteAhead'
  <2>1. task' = task /\ pushes' = pushes /\ dedup' = dedup
    BY <1>1 DEF TaskFinished, files
  <2>2. \A k \in Keys : restart'[k] = restart[k] \/ restart'[k].log = <<>>
    BY <1>1, <1>t DEF TaskFinished, LeaderOK
  <2>3. RecoveredLogged'
    BY <1>w, <2>1, <2>2, IdsOfEmpty DEF RecoveredLogged
  <2> QED BY <1>l, <1>p, <2>1, <2>3 DEF WriteAhead
<1>2. ASSUME NEW r \in reports, ReportLost(r) PROVE WriteAhead'
  BY <1>2, OtherWriteAhead DEF ReportLost, files
<1>3. ASSUME NEW k \in Keys, LoadDedupLog(k) PROVE WriteAhead'
  <2>1. task' = task /\ pushes' = pushes /\ dedup' = dedup
    BY <1>3 DEF LoadDedupLog, files
  <2>2. \A j \in Keys : \/ restart'[j] = restart[j]
                        \/ restart'[j].log = <<>>
                        \/ restart'[j].log = dedup[j]
    BY <1>3, <1>t DEF LoadDedupLog, LeaderOK
  <2>3. RecoveredLogged'
    BY <1>w, <2>1, <2>2, IdsOfEmpty DEF RecoveredLogged
  <2> QED BY <1>l, <1>p, <2>1, <2>3 DEF WriteAhead
<1>4. ASSUME NEW k \in Keys, StartTask(k) PROVE WriteAhead'
  <2> DEFINE i == <<k[1], k[2], runs[k] + 1>>
  <2>1. pushes' = pushes /\ dedup' = dedup
    BY <1>4 DEF StartTask, files
  <2>2. i \in Inst /\ KeyOf(i) = k
    BY <1>4 DEF StartTask, Inst, Keys, KeyOf
  <2>3. task' = [task EXCEPT ![i] = NewTask(restart[k].log)]
    BY <1>4 DEF StartTask
  <2>4. NewTask(restart[k].log).ProcessedIDs = IdsOf(restart[k].log)
    BY DEF NewTask
  <2>5. \A j \in Inst : j # i => task'[j] = task[j]
    BY <1>t, <2>3 DEF TaskOK
  <2>6. task'[i].ProcessedIDs = IdsOf(restart[k].log)
    BY <1>t, <2>2, <2>3, <2>4 DEF TaskOK
  <2>7. ProcessedLogged'
    BY <1>w, <2>1, <2>2, <2>5, <2>6 DEF ProcessedLogged, RecoveredLogged
  <2>8. \A j \in Keys : restart'[j] = restart[j] \/ restart'[j].log = <<>>
    BY <1>4, <1>t DEF StartTask, LeaderOK
  <2>9. RecoveredLogged'
    BY <1>w, <2>1, <2>8, IdsOfEmpty DEF RecoveredLogged
  <2> QED BY <1>l, <2>1, <2>7, <2>9 DEF WriteAhead
<1> QED BY <1>1, <1>2, <1>3, <1>4

(* All steps together, stuttering included.                                *)
LEMMA NextWriteAhead == TypeOK /\ WriteAhead /\ [Next]_vars => WriteAhead'
<1> SUFFICES ASSUME TypeOK, WriteAhead, [Next]_vars PROVE WriteAhead'
  OBVIOUS
<1>1. CASE UNCHANGED vars
  BY <1>1, OtherWriteAhead DEF vars, files, leaderVars
<1>2. CASE Next
  BY <1>1, <1>2, PushWriteAhead, SourceWriteAhead, InstWriteAhead, LeaderWriteAhead
  DEF Next, Finished
<1> QED BY <1>1, <1>2

(* A tuple whose PushTuple was acknowledged is in the dedup log of its     *)
(* task: with any number of stages, tasks, kills, crashes, lost replies    *)
(* and failed appends.                                                     *)
THEOREM AckedLogged == Spec => []AckedIsLogged
<1>1. Spec => []WriteAhead
  BY TypeCorrect, InitWriteAhead, NextWriteAhead, PTL DEF Spec
<1>2. WriteAhead => AckedIsLogged
  BY DEF WriteAhead, LoggedPushes, AckedIsLogged, Acked
<1> QED BY <1>1, <1>2, PTL
=============================================================================
