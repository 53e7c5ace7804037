------------------------------- MODULE Stream -------------------------------
(***************************************************************************)
(* The RainStorm tuple pipeline (node/node_stream.go): a source and        *)
(* NumStages stages of NumTasks operator tasks.  Every tuple is pushed by  *)
(* a goroutine of its own that retries until it is acknowledged; a task    *)
(* logs the id of a tuple in its HyDFS dedup log before it feeds it to the *)
(* operator process; a task whose process dies is restarted by the leader  *)
(* and replays its dedup log.                                              *)
(*                                                                         *)
(* The initial state is the one startAllTasks leaves when it succeeds.     *)
(* The number of tasks of a stage is constant here: changing it is the     *)
(* autoscaler's work.                                                      *)
(***************************************************************************)
EXTENDS Integers, Sequences, FiniteSets

CONSTANTS
  NumStages,    \* stages of the job
  NumTasks,     \* tasks of every stage
  NumLines,     \* lines of the source file; a tuple's value is its line number
  KeyHash,      \* HashFunc of the key of each line
  Passes,       \* the <<stage, line>> pairs that the stage's operator lets through
  PipeCap,      \* lines that a stdin or a stdout pipe holds
  Killable,     \* stages whose processes may be killed
  MaxKills,     \* bound: operator processes killed or crashed
  MaxLosses,    \* bound: PushTuple replies and TaskFinished reports lost
  MaxFails,     \* bound: HyDFS calls that fail
  MaxLog        \* bound: length of a dedup log from which a sender no longer
                \* retries while the task cannot take the tuple anyway

Stages == 1 .. NumStages
Tasks == 0 .. NumTasks - 1
Lines == 1 .. NumLines
Keys == Stages \X Tasks            \* getTaskKey(stageID, taskID)
Runs == 1 .. MaxKills + 1          \* the successive processes of one task
Inst == Stages \X Tasks \X Runs    \* *RainStormTask objects

ASSUME StreamAssumption ==
  /\ NumStages \in Nat \ {0} /\ NumTasks \in Nat \ {0} /\ NumLines \in Nat
  /\ KeyHash \in [Lines -> Nat]
  /\ Passes \subseteq Stages \X Lines
  /\ PipeCap \in Nat \ {0} /\ Killable \subseteq Stages
  /\ MaxKills \in Nat /\ MaxLosses \in Nat /\ MaxFails \in Nat /\ MaxLog \in Nat

KeyOf(i) == <<i[1], i[2]>>
IsLastStage(i) == i[1] = NumStages
NumUpstream(i) == IF i[1] = 1 THEN 1 ELSE NumTasks

Source == <<0, 0, 1>>              \* the origin of the source's pushes
EOSId == <<0, 0, 0>>               \* MessageID "EOS"
MsgIds == (0 .. NumStages) \X Tasks \X Nat   \* "StageID-TaskID-SeqNum"
Entries == MsgIds \X Lines         \* one line of a dedup log: id, value

VARIABLES
  task,        \* Inst -> the RainStormTask object and its operator process
  rsTasks,     \* Keys -> the registered run, 0 when the key is absent
  pids,        \* TaskPidMap: the instances whose PID it holds
  runs,        \* Keys -> number of processes started
  dedup,       \* Keys -> contents of the task's dedup log in HyDFS
  output,      \* contents of the output file in HyDFS
  pushes,      \* the goroutines that push a tuple or an EOS
  source,      \* the goroutine of StartSource
  reports,     \* TaskFinished calls on their way to the leader
  restart,     \* Keys -> the leader's restart of that task
  killing,     \* KillTask calls between the kill and the clean-up
  FinishedTasks,
  kills, losses, fails

nodeVars == <<rsTasks, pids, runs>>
files == <<dedup, output>>
leaderVars == <<reports, restart, FinishedTasks>>
faults == <<kills, losses, fails>>
vars == <<task, nodeVars, files, pushes, source, leaderVars, killing, faults>>

TaskRec ==
  [ proc: {"none", "running", "dead"},   \* operator process
    Stdin: Seq(Lines), pipe: {"open", "closed"}, Stdout: Seq(Lines),
    ProcessedIDs: SUBSET MsgIds, SeqNum: Nat, EOSCount: Nat,
    lock: {"free", "push", "replay"},    \* task.Lock
    replay: Seq(Entries),                \* what replayLogData has left
    handler: {"scan", "eos", "done"} ]   \* handleTaskOutput

PushRec ==
  [ org: Inst \cup {Source}, kind: {"data", "EOS"}, dest: Keys, id: MsgIds,
    val: 0 .. NumLines, run: Runs \cup {0},
    pc: {"send", "locking", "logging", "writing", "acked"} ]

IdsOf(log) == {log[n][1] : n \in 1 .. Len(log)}
TotalTasks == NumStages * NumTasks
Completed == FinishedTasks >= TotalTasks   \* "RAINSTORM JOB COMPLETED"

-----------------------------------------------------------------------------
(* Mutant: the recovered ids are not put into ProcessedIDs.                *)
NewTaskForgetful(log) ==
  [ proc |-> "running", Stdin |-> <<>>, pipe |-> "open", Stdout |-> <<>>,
    ProcessedIDs |-> {}, SeqNum |-> 0, EOSCount |-> 0, lock |-> "free",
    replay |-> log, handler |-> "scan" ]

(* newTask of StartTask: the object that is registered, with the recovered *)
(* ids; EOSCount and SeqNum start at zero, the log is left to be replayed. *)
NewTask(log) ==
  [ proc |-> "running", Stdin |-> <<>>, pipe |-> "open", Stdout |-> <<>>,
    ProcessedIDs |-> IdsOf(log), SeqNum |-> 0, EOSCount |-> 0, lock |-> "free",
    replay |-> log, handler |-> "scan" ]

(* A process that has not been started yet.                                *)
NoTask == [NewTask(<<>>) EXCEPT !.proc = "none"]

(* startAllTasks: every task was started once and registered.              *)
AllStarted ==
  /\ task = [i \in Inst |-> IF i[3] = 1 THEN NewTask(<<>>) ELSE NoTask]
  /\ rsTasks = [k \in Keys |-> 1]
  /\ pids = {i \in Inst : i[3] = 1}
  /\ runs = [k \in Keys |-> 1]

(* StartRainStorm: leader state reset, logs and output created, all tasks  *)
(* started, the source triggered.                                          *)
Init ==
  /\ AllStarted
  /\ dedup = [k \in Keys |-> <<>>]
  /\ output = <<>>
  /\ pushes = {}
  /\ source = [seq |-> 0, pc |-> "stream"]
  /\ reports = {}
  /\ restart = [k \in Keys |-> [pc |-> "none", log |-> <<>>]]
  /\ killing = {}
  /\ FinishedTasks = 0
  /\ kills = 0
  /\ losses = 0
  /\ fails = 0

-----------------------------------------------------------------------------
(* Pushing.                                                                *)

DataPush(org, dest, id, v) ==
  [org |-> org, kind |-> "data", dest |-> dest, id |-> id, val |-> v,
   run |-> 0, pc |-> "send"]

EOSPushes(org, stage) ==
  {[org |-> org, kind |-> "EOS", dest |-> <<stage, t>>, id |-> EOSId, val |-> 0,
    run |-> 0, pc |-> "send"] : t \in Tasks}

(* The push goes to control point p, its call bound to process run r.      *)
Move(m, p, r) ==
  pushes' = (pushes \ {m}) \cup {[m EXCEPT !.pc = p, !.run = r]}

(* The instance that the PushTuple call of m found in rsTasks.             *)
Target(m) == <<m.dest[1], m.dest[2], m.run>>

(* A write to the stdin of the operator process would not fail.            *)
Writable(i) == task[i].proc = "running" /\ task[i].pipe = "open"

AllAcked(org) == \A m \in pushes : m.org = org => m.pc = "acked"

(* A call that answered Success: the sender leaves its retry loop, or the  *)
(* reply is lost with the connection (err != nil) and the sender retries.  *)
Answer(m) ==
  \/ /\ Move(m, "acked", m.run)
     /\ UNCHANGED losses
  \/ /\ losses < MaxLosses
     /\ losses' = losses + 1
     /\ Move(m, "send", 0)

(* A call that answered Success = false: sleep and retry.                  *)
Refuse(m) == Move(m, "send", 0)

(* Mutant: the call is not bound to the process that was looked up.        *)
PushLookupUnbound(m) ==
  /\ m.pc = "send"
  /\ rsTasks[m.dest] # 0
  /\ Move(m, "locking", 0)
  /\ UNCHANGED <<task, nodeVars, files, source, leaderVars, killing, faults>>

(* One iteration of the retry loops (the route of a data tuple is constant *)
(* while the downstream list is) and the look-up of PushTuple.  When the   *)
(* task is not found the call is refused and nothing changes.              *)
PushLookup(m) ==
  /\ m.pc = "send"
  /\ rsTasks[m.dest] # 0
  /\ \/ m.kind = "EOS"
     \/ Len(dedup[m.dest]) < MaxLog
     \/ Writable(<<m.dest[1], m.dest[2], rsTasks[m.dest]>>)
  /\ Move(m, "locking", rsTasks[m.dest])
  /\ UNCHANGED <<task, nodeVars, files, source, leaderVars, killing, faults>>

(* PushTuple on an EOS, under task.Lock: count it and close stdin when all *)
(* upstream tasks have sent theirs.                                        *)
PushEOS(m) ==
  LET i == Target(m)
      n == task[i].EOSCount + 1
  IN
  /\ m.pc = "locking" /\ m.kind = "EOS"
  /\ task[i].lock = "free"
  /\ task' = [task EXCEPT ![i].EOSCount = n,
                          ![i].pipe = IF n >= NumUpstream(i) THEN "closed" ELSE @]
  /\ Answer(m)
  /\ UNCHANGED <<nodeVars, files, source, leaderVars, killing, kills, fails>>

(* PushTuple on a tuple already processed: acknowledged and skipped.       *)
PushDuplicate(m) ==
  /\ m.pc = "locking" /\ m.kind = "data"
  /\ task[Target(m)].lock = "free"
  /\ m.id \in task[Target(m)].ProcessedIDs
  /\ Answer(m)
  /\ UNCHANGED <<task, nodeVars, files, source, leaderVars, killing, kills,
                 fails>>

(* Mutant: a tuple that was not processed is refused.                      *)
PushFreshRefused(m) ==
  /\ m.pc = "locking" /\ m.kind = "data"
  /\ task[Target(m)].lock = "free"
  /\ m.id \notin task[Target(m)].ProcessedIDs
  /\ Refuse(m)
  /\ UNCHANGED <<task, nodeVars, files, source, leaderVars, killing, faults>>

(* Mutant: tuples already processed are taken again.                       *)
PushFreshUnchecked(m) ==
  LET i == Target(m) IN
  /\ m.pc = "locking" /\ m.kind = "data"
  /\ task[i].lock = "free"
  /\ task' = [task EXCEPT ![i].lock = "push"]
  /\ Move(m, "logging", m.run)
  /\ UNCHANGED <<nodeVars, files, source, leaderVars, killing, faults>>

(* PushTuple on a new tuple: take task.Lock and keep it.                   *)
PushFresh(m) ==
  LET i == Target(m) IN
  /\ m.pc = "locking" /\ m.kind = "data"
  /\ task[i].lock = "free"
  /\ m.id \notin task[i].ProcessedIDs
  /\ task' = [task EXCEPT ![i].lock = "push"]
  /\ Move(m, "logging", m.run)
  /\ UNCHANGED <<nodeVars, files, source, leaderVars, killing, faults>>

AppendDedup(m) ==
  dedup' = [dedup EXCEPT ![m.dest] = Append(@, <<m.id, m.val>>)]

(* Mutant: the tuple goes on to the operator without being logged.         *)
PushLogSkipped(m) ==
  /\ m.pc = "logging"
  /\ Move(m, "writing", m.run)
  /\ UNCHANGED <<task, nodeVars, files, source, leaderVars, killing, faults>>

(* The dedup append of PushTuple succeeds.                                 *)
PushLog(m) ==
  /\ m.pc = "logging"
  /\ AppendDedup(m)
  /\ Move(m, "writing", m.run)
  /\ UNCHANGED <<task, nodeVars, output, source, leaderVars, killing, faults>>

(* It fails, with the entry written (at the primary only) or not: the      *)
(* tuple is refused and the lock released.                                 *)
PushLogFails(m) ==
  /\ m.pc = "logging"
  /\ fails < MaxFails
  /\ fails' = fails + 1
  /\ AppendDedup(m) \/ UNCHANGED dedup
  /\ task' = [task EXCEPT ![Target(m)].lock = "free"]
  /\ Refuse(m)
  /\ UNCHANGED <<nodeVars, output, source, leaderVars, killing, kills, losses>>

(* The write to stdin (it blocks, holding the lock, while the pipe is      *)
(* full): the id becomes processed and the tuple is acknowledged.          *)
PushWrite(m) ==
  LET i == Target(m) IN
  /\ m.pc = "writing"
  /\ Writable(i)
  /\ Len(task[i].Stdin) < PipeCap
  /\ task' = [task EXCEPT ![i].Stdin = Append(@, m.val),
                          ![i].ProcessedIDs = @ \cup {m.id},
                          ![i].lock = "free"]
  /\ Answer(m)
  /\ UNCHANGED <<nodeVars, files, source, leaderVars, killing, kills, fails>>

(* The write fails: broken pipe of a dead process, or stdin was closed.    *)
PushWriteFails(m) ==
  LET i == Target(m) IN
  /\ m.pc = "writing"
  /\ ~Writable(i)
  /\ task' = [task EXCEPT ![i].lock = "free"]
  /\ Refuse(m)
  /\ UNCHANGED <<nodeVars, files, source, leaderVars, killing, faults>>

PushStep(m) ==
  \/ PushLookup(m) \/ PushEOS(m) \/ PushDuplicate(m) \/ PushFresh(m)
  \/ PushLog(m) \/ PushLogFails(m) \/ PushWrite(m) \/ PushWriteFails(m)

-----------------------------------------------------------------------------
(* The source.                                                             *)

(* The loop of StartSource: one goroutine per line, to task seq % workers. *)
SourceLine ==
  /\ source.pc = "stream"
  /\ source.seq < NumLines
  /\ LET seq == source.seq + 1 IN
     /\ source' = [source EXCEPT !.seq = seq]
     /\ pushes' = pushes \cup
          {DataPush(Source, <<1, seq % NumTasks>>, <<0, 0, seq>>, seq)}
  /\ UNCHANGED <<task, nodeVars, files, leaderVars, killing, faults>>

(* Mutant: the EOSs do not wait for the tuples.                            *)
SourceEOSEarly ==
  /\ source.pc = "stream"
  /\ source.seq = NumLines
  /\ source' = [source EXCEPT !.pc = "eos"]
  /\ pushes' = pushes \cup EOSPushes(Source, 1)
  /\ UNCHANGED <<task, nodeVars, files, leaderVars, killing, faults>>

(* tupleWg.Wait() and then an EOS to every task of stage 1.                *)
SourceEOS ==
  /\ source.pc = "stream"
  /\ source.seq = NumLines
  /\ AllAcked(Source)
  /\ source' = [source EXCEPT !.pc = "eos"]
  /\ pushes' = pushes \cup EOSPushes(Source, 1)
  /\ UNCHANGED <<task, nodeVars, files, leaderVars, killing, faults>>

(* eosWg.Wait(): "End of Entire Run".                                      *)
SourceDone ==
  /\ source.pc = "eos"
  /\ AllAcked(Source)
  /\ source' = [source EXCEPT !.pc = "done"]
  /\ UNCHANGED <<task, nodeVars, files, pushes, leaderVars, killing, faults>>

-----------------------------------------------------------------------------
(* Mutant: the filter prints every line.                                   *)
OperatorUnfiltered(i) ==
  LET v == Head(task[i].Stdin) IN
  /\ task[i].proc = "running"
  /\ task[i].Stdin # <<>>
  /\ Len(task[i].Stdout) < PipeCap
  /\ task' = [task EXCEPT ![i].Stdin = Tail(@), ![i].Stdout = Append(@, v)]
  /\ UNCHANGED <<nodeVars, files, pushes, source, leaderVars, killing, faults>>

(* The operator process: it reads a line and prints it, or filters it out; *)
(* it blocks while its stdout is full and exits at the end of stdin.       *)
Operator(i) ==
  LET v == Head(task[i].Stdin) IN
  /\ task[i].proc = "running"
  /\ task[i].Stdin # <<>>
  /\ <<i[1], v>> \in Passes => Len(task[i].Stdout) < PipeCap
  /\ task' = [task EXCEPT
       ![i].Stdin = Tail(@),
       ![i].Stdout = IF <<i[1], v>> \in Passes THEN Append(@, v) ELSE @]
  /\ UNCHANGED <<nodeVars, files, pushes, source, leaderVars, killing, faults>>

OperatorExit(i) ==
  /\ task[i].proc = "running"
  /\ task[i].pipe = "closed" /\ task[i].Stdin = <<>>
  /\ task' = [task EXCEPT ![i].proc = "dead"]
  /\ UNCHANGED <<nodeVars, files, pushes, source, leaderVars, killing, faults>>

(* replayLogData without dedup check: for every logged line take task.Lock *)
ReplayLock(i) ==
  /\ task[i].replay # <<>>
  /\ task[i].lock = "free"
  /\ task' = [task EXCEPT ![i].lock = "replay"]
  /\ UNCHANGED <<nodeVars, files, pushes, source, leaderVars, killing, faults>>

(* ... and write its value to stdin; an error of the write is ignored.     *)
ReplayWrite(i) ==
  /\ task[i].lock = "replay" /\ task[i].replay # <<>>
  /\ Writable(i) => Len(task[i].Stdin) < PipeCap
  /\ task' = [task EXCEPT
       ![i].Stdin = IF Writable(i) THEN Append(@, Head(task[i].replay)[2]) ELSE @,
       ![i].replay = Tail(@),
       ![i].lock = "free"]
  /\ UNCHANGED <<nodeVars, files, pushes, source, leaderVars, killing, faults>>

-----------------------------------------------------------------------------
(* handleTaskOutput.                                                       *)

(* One output line.  SeqNum is incremented under task.Lock and names the   *)
(* tuple; the last stage appends it to the output file (an append that     *)
(* fails, with the line written or not, is only logged), any other stage   *)
(* starts the goroutine that sends it to the task its key hashes to.       *)
HandleOutput(i) ==
  LET v == Head(task[i].Stdout)
      n == task[i].SeqNum + 1
  IN
  /\ task[i].handler = "scan"
  /\ task[i].Stdout # <<>>
  /\ task[i].lock = "free"
  /\ task' = [task EXCEPT ![i].Stdout = Tail(@), ![i].SeqNum = n]
  /\ \/ /\ IsLastStage(i)
        /\ \/ output' = Append(output, v) /\ UNCHANGED fails
           \/ /\ fails < MaxFails
              /\ fails' = fails + 1
              /\ output' = Append(output, v) \/ UNCHANGED output
        /\ UNCHANGED pushes
     \/ /\ ~IsLastStage(i)
        /\ pushes' = pushes \cup
             {DataPush(i, <<i[1] + 1, KeyHash[v] % NumTasks>>, <<i[1], i[2], n>>, v)}
        /\ UNCHANGED <<output, fails>>
  /\ UNCHANGED <<nodeVars, dedup, source, leaderVars, killing, kills, losses>>

Report(i, status) == reports' = reports \cup {[inst |-> i, status |-> status]}

(* Mutant: what the process printed last is not read.                      *)
AtEOFEarly(i) == task[i].proc = "dead"

(* End of stdout: the process is gone and what it printed is read.         *)
AtEOF(i) == task[i].proc = "dead" /\ task[i].Stdout = <<>>

(* Mutant: every process that ends has done its work.                      *)
IsSuccessAlways(i) == TRUE

(* All upstream tasks have sent their EOS.                                 *)
IsSuccess(i) == task[i].EOSCount >= NumUpstream(i)

(* tupleWg.Wait(), then IsSuccess decides.  A failure, and the success of a *)
(* last-stage task, are reported; any other success first sends the EOSs.  *)
HandleEOF(i) ==
  LET sendEOS == IsSuccess(i) /\ ~IsLastStage(i) IN
  /\ task[i].handler = "scan"
  /\ AtEOF(i)
  /\ AllAcked(i)
  /\ task' = [task EXCEPT ![i].handler = IF sendEOS THEN "eos" ELSE "done"]
  /\ \/ /\ sendEOS
        /\ pushes' = pushes \cup EOSPushes(i, i[1] + 1)
        /\ UNCHANGED reports
     \/ /\ ~sendEOS
        /\ Report(i, IF IsSuccess(i) THEN "Success" ELSE "Failure")
        /\ UNCHANGED pushes
  /\ UNCHANGED <<nodeVars, files, source, restart, FinishedTasks, killing,
                 faults>>

(* eosWg.Wait() and the report of success.                                 *)
HandleEOSSent(i) ==
  /\ task[i].handler = "eos"
  /\ AllAcked(i)
  /\ task' = [task EXCEPT ![i].handler = "done"]
  /\ Report(i, "Success")
  /\ UNCHANGED <<nodeVars, files, pushes, source, restart, FinishedTasks,
                 killing, faults>>

-----------------------------------------------------------------------------
(* The leader.                                                             *)

(* TaskFinished: count a success; start the restart of a failed task.      *)
TaskFinished(r) ==
  /\ reports' = reports \ {r}
  /\ \/ /\ r.status = "Success"
        /\ FinishedTasks' = FinishedTasks + 1
        /\ UNCHANGED restart
     \/ /\ r.status = "Failure"
        /\ restart' = [restart EXCEPT ![KeyOf(r.inst)] = [pc |-> "load", log |-> <<>>]]
        /\ UNCHANGED FinishedTasks
  /\ UNCHANGED <<task, nodeVars, files, pushes, source, killing, faults>>

(* The report does not reach the leader: the worker only logs it.          *)
ReportLost(r) ==
  /\ losses < MaxLosses
  /\ losses' = losses + 1
  /\ reports' = reports \ {r}
  /\ UNCHANGED <<task, nodeVars, files, pushes, source, restart,
                 FinishedTasks, killing, kills, fails>>

(* loadDedupLog, first step of StartTask: the log is read from its first   *)
(* replica; when that fails the task starts with no recovered state.       *)
LoadDedupLog(k) ==
  /\ restart[k].pc = "load"
  /\ \/ /\ restart' = [restart EXCEPT ![k] = [pc |-> "start", log |-> dedup[k]]]
        /\ UNCHANGED fails
     \/ /\ fails < MaxFails
        /\ fails' = fails + 1
        /\ restart' = [restart EXCEPT ![k] = [pc |-> "start", log |-> <<>>]]
  /\ UNCHANGED <<task, nodeVars, files, pushes, source, reports,
                 FinishedTasks, killing, kills, losses>>

(* The rest of StartTask: process started, task registered under its key   *)
(* and PID, replay and output goroutines started.                          *)
StartTask(k) ==
  LET r == runs[k] + 1
      i == <<k[1], k[2], r>>
  IN
  /\ restart[k].pc = "start"
  /\ r \in Runs
  /\ task' = [task EXCEPT ![i] = NewTask(restart[k].log)]
  /\ rsTasks' = [rsTasks EXCEPT ![k] = r]
  /\ pids' = pids \cup {i}
  /\ runs' = [runs EXCEPT ![k] = r]
  /\ restart' = [restart EXCEPT ![k] = [pc |-> "none", log |-> <<>>]]
  /\ UNCHANGED <<files, pushes, source, reports, FinishedTasks, killing,
                 faults>>

-----------------------------------------------------------------------------
(* Failures of operator processes.                                         *)

(* The process dies: what it had not read from stdin is lost, what it had  *)
(* printed is still read by handleTaskOutput.                              *)
Die(i) ==
  /\ task[i].proc = "running"
  /\ i[1] \in Killable
  /\ kills < MaxKills
  /\ kills' = kills + 1
  /\ task' = [task EXCEPT ![i].proc = "dead", ![i].Stdin = <<>>]

(* It crashes by itself: the registration stays until the restart.         *)
Crash(i) ==
  /\ Die(i)
  /\ UNCHANGED <<nodeVars, files, pushes, source, leaderVars, killing,
                 losses, fails>>

(* KillTask: process.Kill() ...                                            *)
KillProcess(i) ==
  /\ Die(i)
  /\ killing' = killing \cup {i}
  /\ UNCHANGED <<nodeVars, files, pushes, source, leaderVars, losses, fails>>

(* ... and, under rsTaskMutex, whatever is registered under the key that   *)
(* TaskPidMap gives for the PID is removed.                                *)
KillCleanup(i) ==
  /\ i \in killing
  /\ killing' = killing \ {i}
  /\ pids' = pids \ {i}
  /\ rsTasks' = IF i \in pids THEN [rsTasks EXCEPT ![KeyOf(i)] = 0] ELSE rsTasks
  /\ UNCHANGED <<task, runs, files, pushes, source, leaderVars, faults>>

-----------------------------------------------------------------------------
(* The job is over: nothing is left to do.                                 *)
Finished == Completed /\ source.pc = "done" /\ UNCHANGED vars

InstStep(i) ==
  \/ Operator(i) \/ OperatorExit(i) \/ ReplayLock(i) \/ ReplayWrite(i)
  \/ HandleOutput(i) \/ HandleEOF(i) \/ HandleEOSSent(i)

Next ==
  \/ \E m \in pushes : PushStep(m)
  \/ SourceLine \/ SourceEOS \/ SourceDone
  \/ \E i \in Inst : InstStep(i) \/ Crash(i) \/ KillProcess(i) \/ KillCleanup(i)
  \/ \E r \in reports : TaskFinished(r) \/ ReportLost(r)
  \/ \E k \in Keys : LoadDedupLog(k) \/ StartTask(k)
  \/ Finished

Spec == Init /\ [][Next]_vars

(* Every goroutine and every operator process that can take a step         *)
(* eventually does; no failure is forced to happen.                        *)
PushOf(o, k, n) ==
  \E m \in pushes : m.org = o /\ m.dest = k /\ m.id[3] = n /\ PushStep(m)

Fairness ==
  /\ \A o \in Inst \cup {Source}, k \in Keys, n \in 0 .. MaxLog :
       WF_vars(PushOf(o, k, n))
  /\ WF_vars(SourceLine \/ SourceEOS \/ SourceDone)
  /\ \A i \in Inst :
       /\ WF_vars(Operator(i) \/ OperatorExit(i))
       /\ WF_vars(ReplayLock(i)) /\ WF_vars(ReplayWrite(i))
       /\ WF_vars(HandleOutput(i) \/ HandleEOF(i) \/ HandleEOSSent(i))
       /\ WF_vars(KillCleanup(i))
  /\ WF_vars(\E r \in reports : TaskFinished(r))
  /\ \A k \in Keys : WF_vars(LoadDedupLog(k) \/ StartTask(k))

FairSpec == Spec /\ Fairness

-----------------------------------------------------------------------------
(* Properties.                                                             *)

TaskOK == task \in [Inst -> TaskRec]

NodeOK ==
  /\ rsTasks \in [Keys -> Runs \cup {0}]
  /\ runs \in [Keys -> Runs]
  /\ pids \subseteq Inst /\ killing \subseteq Inst

FilesOK == dedup \in [Keys -> Seq(Entries)] /\ output \in Seq(Lines)

PushesOK ==
  /\ pushes \subseteq PushRec
  /\ \A m \in pushes :
       /\ m.kind = "data" => m.val \in Lines
       /\ m.pc \in {"logging", "writing"} => m.kind = "data"
       /\ m.pc \in {"locking", "logging", "writing"} => m.run # 0

SourceOK == source \in [seq: 0 .. NumLines, pc: {"stream", "eos", "done"}]

LeaderOK ==
  /\ reports \subseteq [inst: Inst, status: {"Success", "Failure"}]
  /\ restart \in [Keys -> [pc: {"none", "load", "start"}, log: Seq(Entries)]]
  /\ FinishedTasks \in Nat

FaultsOK ==
  kills \in 0 .. MaxKills /\ losses \in 0 .. MaxLosses /\ fails \in 0 .. MaxFails

(* Every variable keeps the shape of the Go structure it stands for.       *)
TypeOK ==
  TaskOK /\ NodeOK /\ FilesOK /\ PushesOK /\ SourceOK /\ LeaderOK /\ FaultsOK

Acked(k) == {m.id : m \in {p \in pushes : p.pc = "acked" /\ p.kind = "data" /\ p.dest = k}}

(* Write-ahead: a tuple whose PushTuple was acknowledged is in the dedup   *)
(* log of the task it was sent to, whatever was killed, lost or refused.   *)
AckedIsLogged == \A k \in Keys : Acked(k) \subseteq IdsOf(dedup[k])

LoggedPushes ==
  \A m \in pushes : m.kind = "data" /\ m.pc \in {"writing", "acked"} =>
    m.id \in IdsOf(dedup[m.dest])
ProcessedLogged ==
  \A i \in Inst : task[i].ProcessedIDs \subseteq IdsOf(dedup[KeyOf(i)])
RecoveredLogged ==
  \A k \in Keys : IdsOf(restart[k].log) \subseteq IdsOf(dedup[k])

(* Its inductive strengthening: what a push past its append carries, what  *)
(* a task has marked as processed and what a restart recovered is logged.  *)
WriteAhead == LoggedPushes /\ ProcessedLogged /\ RecoveredLogged

(* As long as no HyDFS call failed, a restarted task knows every tuple     *)
(* that any earlier process of the task acknowledged (loadDedupLog         *)
(* recovers them all), so that a later copy is rejected as a duplicate.    *)
AckedIsRemembered ==
  fails = 0 => \A k \in Keys : rsTasks[k] # 0 =>
    Acked(k) \subseteq task[<<k[1], k[2], rsTasks[k]>>].ProcessedIDs

(* As long as no message was lost, stdin is closed only when no data tuple *)
(* can still come: all upstream tasks had theirs acknowledged              *)
(* (tupleWg.Wait) before they sent an EOS, and each EOS is counted once.   *)
ClosedAfterData ==
  losses = 0 => \A i \in Inst : task[i].pipe = "closed" =>
    \A m \in pushes : m.kind = "data" /\ m.dest = KeyOf(i) => m.pc = "acked"

(* The leader counts every task once, and when it logs the completion of   *)
(* the job every source line is durably logged by stage 1, no tuple is in  *)
(* flight and every task has a process that ended.                         *)
CompletionSound ==
  /\ FinishedTasks <= TotalTasks
  /\ Completed =>
       /\ \A v \in Lines : \E t \in Tasks : <<0, 0, v>> \in IdsOf(dedup[<<1, t>>])
       /\ \A m \in pushes : m.kind = "EOS" \/ m.pc = "acked"
       /\ \A k \in Keys : task[<<k[1], k[2], runs[k]>>].handler = "done"

Count(s, v) == Cardinality({n \in 1 .. Len(s) : s[n] = v})
Expected == {v \in Lines : \A s \in Stages : <<s, v>> \in Passes}

(* As long as no process died, retries, lost replies and failed appends    *)
(* never write a line twice to the output file.                            *)
NoDuplicateOutput == kills = 0 => \A v \in Lines : Count(output, v) <= 1

(* When the job is reported complete the output file holds every line that *)
(* passes all operators exactly once, and no other.                        *)
ExactlyOnce ==
  Completed => \A v \in Lines : Count(output, v) = IF v \in Expected THEN 1 ELSE 0

(* The leader eventually logs the completion of the job.                   *)
JobCompletes == <>Completed

Abstract == INSTANCE Pipeline WITH read <- source.seq, out <- output,
                                   done <- Completed

(* Without failures the tasks, pushes, logs and EOSs together are a job    *)
(* that reads every line in order, writes each line that passes all        *)
(* operators once and after it was read, writes nothing after it announced *)
(* its completion, and gets that far.                                      *)
ImplementsPipeline == Abstract!FairSpec
=============================================================================
