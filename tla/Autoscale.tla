------------------------------ MODULE Autoscale -----------------------------
(***************************************************************************)
(* The autoscaler of RainStorm (node/node_autoscale.go) over the running   *)
(* pipeline (node/node_stream.go).  The leader's monitor goroutine adds a  *)
(* task to a stage whose average rate is above HW and removes the last one *)
(* from a stage below LW; the tuples, the EOSs, the rate reports, the      *)
(* routing updates, the kill of the victim and the replay of its dedup log *)
(* travel meanwhile, each in a goroutine of its own.                       *)
(*                                                                         *)
(* What Stream shows in detail is one step here: PushTuple under task.Lock *)
(* and the operator together with handleTaskOutput's loop.  Operators pass *)
(* every line.  Operator processes die only by KillTask and no HyDFS call  *)
(* fails.  The workers are alive.                                          *)
(*                                                                         *)
(* A call of PushTuple may end with an error at its caller although it is, *)
(* or will be, served: then the caller sends again, by the list of then,   *)
(* and the call that it has given up goes on as a push of its own, whose   *)
(* reply nobody reads.  So the reply of a call that was served is lost, or *)
(* the call is served later, when its caller is long elsewhere.            *)
(***************************************************************************)
EXTENDS Integers, Sequences, FiniteSets, Functions

CONSTANTS
  NumStages,    \* stages of the job
  NumTasks,     \* tasks of every stage when the job starts
  NumLines,     \* lines of the source file; a tuple's value is its line number
  NumVMs,       \* alive workers, numbered in the order of their addresses
  KeyHash,      \* HashFunc of the key of each line
  HW, LW,       \* the watermarks, in tuples per second
  MaxUps,       \* bound: tasks added
  MaxDowns,     \* bound: tasks removed
  MaxRestarts,  \* bound: tasks restarted by the leader
  MaxLosses,    \* bound: calls of the scaler lost, and pushes given up
  Rates,        \* tuples that a task may count in a second of a long stream
  MaxReports,   \* bound: rate reports
  MaxLog        \* bound: length from which a dedup log takes no refused tuple

Stages == 1 .. NumStages
Lines == 1 .. NumLines
VMs == 1 .. NumVMs
Ids == 0 .. NumTasks + MaxUps - 1
Keys == Stages \X Ids                     \* getTaskKey(stageID, taskID)
MaxProcs == NumStages * NumTasks + MaxUps + MaxRestarts
Procs == 1 .. MaxProcs                    \* PIDs, in the order of the starts

ASSUME AutoscaleAssumption ==
  /\ NumStages \in Nat \ {0} /\ NumTasks \in Nat \ {0} /\ NumVMs \in Nat \ {0}
  /\ NumLines \in Nat /\ KeyHash \in [Lines -> Nat]
  /\ HW \in Nat /\ LW \in Nat
  /\ MaxUps \in Nat /\ MaxDowns \in Nat /\ MaxRestarts \in Nat
  /\ MaxLosses \in Nat /\ MaxLog \in Nat
  /\ Rates \in [Stages -> SUBSET Nat] /\ MaxReports \in Nat

VARIABLES
  task,           \* the RainStormTask objects, indexed by the PID
  rsTasks,        \* VMs -> Keys -> PID of the registered task, 0: absent
  pids,           \* TaskPidMap of all VMs
  dedup,          \* the dedup logs, indexed by the process they were made for
  output,         \* the output file
  pushes,         \* tuples and EOSs not yet acknowledged, one goroutine each
  replays,        \* the goroutines of replayLogData
  source,         \* the goroutine of StartSource
  GlobalTaskMap,  \* Stages -> task id -> TaskInfo
  TaskRates,      \* Stages -> task id -> last reported rate
  rates,          \* UpdateRate calls between their two locks
  scaler,         \* the goroutine of monitorAutoscale
  calls,          \* calls of the scaler to the workers on their way
  reports,        \* TaskFinished calls on their way
  restarts,       \* the leader's restart goroutines
  TotalTasks, FinishedTasks,
  ups, downs, reported, unanswered, losses

workerVars == <<rsTasks, pids>>
files == <<dedup, output>>
leaderVars == <<GlobalTaskMap, TotalTasks>>
finishVars == <<reports, restarts, FinishedTasks>>
counts == <<ups, downs, reported, unanswered>>
vars == <<task, workerVars, files, pushes, replays, source, leaderVars,
          TaskRates, rates, scaler, calls, finishVars, counts, losses>>

MayLose == losses + unanswered < MaxLosses

(* One more entry of a Go map.                                             *)
Put(f, k, v) == [x \in DOMAIN f \cup {k} |-> IF x = k THEN v ELSE f[x]]

Source == 0                               \* the origin of the source's pushes
EOSId == <<0, 0, 0>>
MsgIds == (0 .. NumStages) \X Ids \X Nat  \* "StageID-TaskID-SeqNum"
IdsOf(log) == {log[n][1] : n \in 1 .. Len(log)}

TaskRec ==
  [ stage: Stages, id: Ids, vm: VMs, log: Procs,
    proc: {"running", "dead"}, pipe: {"open", "closed"}, Stdin: Seq(Lines),
    ProcessedIDs: SUBSET MsgIds, SeqNum: Nat,
    EOSCount: Nat, NumUpstream: Nat, DownstreamList: Seq(VMs),
    handler: {"scan", "eos", "done"} ]

InfoRec == [vm: VMs, PID: Procs, log: Procs, down: Seq(VMs), upstream: Nat]

Entries == MsgIds \X Lines                \* a line of a dedup log

PushRec ==
  [ org: {Source} \cup Procs, kind: {"data", "EOS"}, stage: Stages, id: MsgIds,
    val: 0 .. NumLines, pc: {"route", "call"}, vm: 0 .. NumVMs, dest: Ids,
    late: 0 .. MaxLosses ]
ReplayRec == [task: Procs, rest: Seq(Entries), check: BOOLEAN]
SourceRec == [seq: 0 .. NumLines, pc: {"stream", "stopping", "eos"}]
RateRec == [stage: Stages, id: Ids, rate: Nat]
ScalerRec ==
  [ pc: {"tick", "map", "waiting", "stopped"}, stage: 0 .. NumStages,
    op: {"none", "up", "down"}, pid: 0 .. MaxProcs ]
CallOf(kind, args) ==
  [ kind: {kind}, stage: Stages, id: Ids, vm: VMs, arg: args, scaling: Nat ]
CallRec ==
  CallOf("UpdateDownstream", Seq(VMs)) \cup CallOf("UpdateUpstream", Seq(Nat))
  \cup CallOf("KillTask", Seq(Procs)) \cup CallOf("ProcessOrphanLog", Seq(Procs))
ReportRec ==
  [pid: Procs, stage: Stages, id: Ids, status: {"Success", "Failure"}]
RestartRec == [stage: Stages, id: Ids, pid: 0 .. MaxProcs, info: InfoRec]

-----------------------------------------------------------------------------
(* The leader's views of GlobalTaskMap.                                    *)

Count(s) == Cardinality(DOMAIN GlobalTaskMap[s])      \* getStageTaskCount
MaxId(s) == CHOOSE t \in DOMAIN GlobalTaskMap[s] :
              \A u \in DOMAIN GlobalTaskMap[s] : u <= t

(* getSortedStageWorkers: the addresses of a stage's tasks in the order of *)
(* the task ids.                                                           *)
Workers(tasks) ==
  LET ids == DOMAIN tasks
      nth(n) == CHOOSE t \in ids : Cardinality({u \in ids : u < t}) = n - 1
  IN [n \in 1 .. Cardinality(ids) |-> tasks[nth(n)].vm]
SortedWorkers(s) == Workers(GlobalTaskMap[s])

(* The keys of all tasks in the map.                                       *)
Mapped == {k \in Keys : k[2] \in DOMAIN GlobalTaskMap[k[1]]}

(* getLeastLoadedWorker: the first worker with the fewest tasks.           *)
Load(v) == Cardinality({k \in Mapped : GlobalTaskMap[k[1]][k[2]].vm = v})
LeastLoadedWorker ==
  CHOOSE v \in VMs : \A w \in VMs :
    Load(v) < Load(w) \/ (Load(v) = Load(w) /\ v <= w)

(* newTask of StartTask: the registered object.                            *)
NewTask(s, t, v, file, log, down, upstream) ==
  [ stage |-> s, id |-> t, vm |-> v, log |-> file, proc |-> "running",
    pipe |-> "open", Stdin |-> <<>>, ProcessedIDs |-> IdsOf(log),
    SeqNum |-> 0, EOSCount |-> 0, NumUpstream |-> upstream,
    DownstreamList |-> down, handler |-> "scan" ]

(* StartTask on VM v: process i is started, and registered under its key,  *)
(* in place of any task registered there, and its PID; the recovered log   *)
(* is replayed.                                                            *)
StartTask(i, s, t, v, file, down, upstream) ==
  LET log == IF file = i THEN <<>> ELSE dedup[file] IN
  /\ task' = Append(task, NewTask(s, t, v, file, log, down, upstream))
  /\ dedup' = Append(dedup, <<>>)
  /\ rsTasks' = [rsTasks EXCEPT ![v][<<s, t>>] = i]
  /\ pids' = pids \cup {i}
  /\ replays' = IF log = <<>> THEN replays
                ELSE replays \cup {[task |-> i, rest |-> log, check |-> FALSE]}

-----------------------------------------------------------------------------
(* calculateDeploymentPlan: round robin over the workers.                  *)
PlanVM(s, t) == (((s - 1) * NumTasks + t) % NumVMs) + 1
Plan(s) ==
  IF s \in Stages THEN [n \in 1 .. NumTasks |-> PlanVM(s, n - 1)] ELSE <<>>
PlanPID(s, t) == (s - 1) * NumTasks + t + 1
PlanUpstream(s) == IF s = 1 THEN 1 ELSE NumTasks

(* StartRainStorm with Autoscale: every task was started, the source and   *)
(* the monitor run.                                                        *)
Init ==
  /\ task = [i \in 1 .. NumStages * NumTasks |->
       LET s == (i - 1) \div NumTasks + 1
           t == (i - 1) % NumTasks
       IN NewTask(s, t, PlanVM(s, t), i, <<>>, Plan(s + 1), PlanUpstream(s))]
  /\ rsTasks = [v \in VMs |-> [k \in Keys |->
       IF k[2] < NumTasks /\ PlanVM(k[1], k[2]) = v THEN PlanPID(k[1], k[2]) ELSE 0]]
  /\ pids = 1 .. NumStages * NumTasks
  /\ dedup = [i \in 1 .. NumStages * NumTasks |-> <<>>]
  /\ output = <<>>
  /\ pushes = {} /\ replays = {}
  /\ source = [seq |-> 0, pc |-> "stream"]
  /\ GlobalTaskMap = [s \in Stages |-> [t \in 0 .. NumTasks - 1 |->
       [vm |-> PlanVM(s, t), PID |-> PlanPID(s, t), log |-> PlanPID(s, t),
        down |-> Plan(s + 1), upstream |-> PlanUpstream(s)]]]
  /\ TaskRates = [s \in Stages |-> <<>>]
  /\ rates = {} /\ calls = {} /\ reports = {} /\ restarts = {}
  /\ scaler = [pc |-> "tick", stage |-> 0, op |-> "none", pid |-> 0]
  /\ TotalTasks = NumStages * NumTasks /\ FinishedTasks = 0
  /\ ups = 0 /\ downs = 0 /\ reported = 0 /\ unanswered = 0 /\ losses = 0

-----------------------------------------------------------------------------
(* Rates.                                                                  *)

(* A tick of monitorTaskRate and, when the call arrives, the first half of *)
(* UpdateRate, under TaskMapLock: the report of a task that is gone from   *)
(* the map is dropped.  The call may have been on its way for any time, so *)
(* that the task may have ended.                                           *)
UpdateRate(i) ==
  /\ reported < MaxReports
  /\ task[i].id \in DOMAIN GlobalTaskMap[task[i].stage]
  /\ reported' = reported + 1
  /\ \E rate \in Rates[task[i].stage] :
       rates' = rates \cup {[stage |-> task[i].stage, id |-> task[i].id,
                            rate |-> rate]}
  /\ UNCHANGED <<task, workerVars, files, pushes, replays, source, leaderVars,
                 TaskRates, scaler, calls, finishVars, ups, downs, unanswered, losses>>

(* The second half, under TaskRatesLock: the rate is stored.               *)
StoreRate(c) ==
  /\ rates' = rates \ {c}
  /\ TaskRates' = [TaskRates EXCEPT ![c.stage] = Put(@, c.id, c.rate)]
  /\ UNCHANGED <<task, workerVars, files, pushes, replays, source, leaderVars,
                 scaler, calls, finishVars, counts, losses>>

-----------------------------------------------------------------------------
(* The monitor.                                                            *)

(* avgRate > HW and avgRate < LW over the stored rates of a stage.         *)
Reported(s) == Cardinality(DOMAIN TaskRates[s])
AboveHW(s) == Reported(s) > 0 /\ SumFunction(TaskRates[s]) > HW * Reported(s)
BelowLW(s) == Reported(s) > 0 /\ SumFunction(TaskRates[s]) < LW * Reported(s)

ScalesUp(s) == AboveHW(s) /\ ups < MaxUps
ScalesDown(s) == ~AboveHW(s) /\ BelowLW(s) /\ Count(s) > 1 /\ downs < MaxDowns

Tick == scaler' = [pc |-> "tick", stage |-> 0, op |-> "none", pid |-> 0]

(* <-AutoscaleStopChan, before the next tick.                              *)
ScalerStops ==
  /\ scaler.pc = "tick"
  /\ source.pc # "stream"
  /\ scaler' = [scaler EXCEPT !.pc = "stopped"]
  /\ UNCHANGED <<task, workerVars, files, pushes, replays, source, leaderVars,
                 TaskRates, rates, calls, finishVars, counts, losses>>

(* Mutant: an id is left out.                                              *)
NewIdSkips(s) == MaxId(s) + 2

(* newTaskID := maxID + 1                                                  *)
NewId(s) == MaxId(s) + 1

Upstreams(s) == IF s = 1 THEN 1 ELSE Count(s - 1)
Downstreams(s) == IF s = NumStages THEN <<>> ELSE SortedWorkers(s + 1)

(* A tick finds stage s above HW; a tick that scales nothing, or falls     *)
(* into the cooldown, is no step.  The loop visits the stages in order and *)
(* stops at the first it scales, but a rate stored behind it counts in the *)
(* next tick only, so any stage may be the one.                            *)
(* scaleUp up to the return of StartTask: a new task with a dedup log of   *)
(* its own on the least loaded worker.  When the reply is lost scaleUp     *)
(* ends and the leader knows nothing of the task.                          *)
ScaleUpStart(s) ==
  LET i == Len(task) + 1 IN
  /\ scaler.pc = "tick" /\ ScalesUp(s)
  /\ ups' = ups + 1
  /\ StartTask(i, s, NewId(s), LeastLoadedWorker, i, Downstreams(s), Upstreams(s))
  /\ \/ /\ scaler' = [pc |-> "map", stage |-> s, op |-> "up", pid |-> i]
        /\ UNCHANGED losses
     \/ /\ MayLose
        /\ losses' = losses + 1
        /\ Tick
  /\ UNCHANGED <<output, pushes, source, leaderVars, TaskRates, rates, calls,
                 finishVars, downs, reported, unanswered>>

(* The calls of a broadcast to stage s: one for every task.                *)
Call(kind, s, t, arg) ==
  [kind |-> kind, stage |-> s, id |-> t, vm |-> GlobalTaskMap[s][t].vm,
   arg |-> arg, scaling |-> ups + downs]

Broadcast(kind, s, arg) ==
  IF s \in Stages THEN {Call(kind, s, t, arg) : t \in DOMAIN GlobalTaskMap[s]}
  ELSE {}

(* broadcastUpdateDownstream(stageID - 1): the list of stage s, as the map *)
(* now has it, goes to every worker with a task of the stage before.       *)
BroadcastDownstream(s) ==
  calls' = calls \cup
    Broadcast("UpdateDownstream", s - 1, Workers(GlobalTaskMap'[s]))

(* The new task enters GlobalTaskMap and is counted in TotalTasks, and the *)
(* broadcast begins.                                                       *)
ScaleUpMap ==
  LET s == scaler.stage
      i == scaler.pid
  IN
  /\ scaler.pc = "map"
  /\ GlobalTaskMap' = [GlobalTaskMap EXCEPT ![s] = Put(@, NewId(s),
       [vm |-> task[i].vm, PID |-> i, log |-> i, down |-> Downstreams(s),
        upstream |-> Upstreams(s)])]
  /\ TotalTasks' = TotalTasks + 1
  /\ BroadcastDownstream(s)
  /\ scaler' = [scaler EXCEPT !.pc = "waiting"]
  /\ UNCHANGED <<task, workerVars, files, pushes, replays, source, TaskRates,
                 rates, finishVars, counts, losses>>

(* Mutant: the victim is task 0.                                           *)
VictimFirst(s) == 0

(* The victim: the task with the greatest id.                              *)
Victim(s) == MaxId(s)

(* scaleDown: the victim leaves GlobalTaskMap, TotalTasks and TaskRates,   *)
(* and the broadcast begins.                                               *)
ScaleDownMap(s) ==
  LET t == Victim(s) IN
  /\ scaler.pc = "tick" /\ ScalesDown(s)
  /\ downs' = downs + 1
  /\ GlobalTaskMap' = [GlobalTaskMap EXCEPT ![s] = Restrict(@, DOMAIN @ \ {t})]
  /\ TotalTasks' = TotalTasks - 1
  /\ TaskRates' = [TaskRates EXCEPT ![s] = Restrict(@, DOMAIN @ \ {t})]
  /\ BroadcastDownstream(s)
  /\ scaler' = [pc |-> "waiting", stage |-> s, op |-> "down",
                pid |-> GlobalTaskMap[s][t].PID]
  /\ UNCHANGED <<task, workerVars, files, pushes, replays, source, rates,
                 finishVars, ups, reported, unanswered, losses>>

(* Mutant: nobody waits for the routing updates.                           *)
NoWait == TRUE

(* wg.Wait() of broadcastUpdateDownstream.                                 *)
AllUpdated == \A c \in calls : c.kind # "UpdateDownstream"

(* The kill of the victim and the adoption of its log by task 0.           *)
Retire(i) ==
  LET s == scaler.stage IN
  {[kind |-> "KillTask", stage |-> s, id |-> task[i].id, vm |-> task[i].vm,
    arg |-> <<i>>, scaling |-> ups + downs],
   [kind |-> "ProcessOrphanLog", stage |-> s, id |-> 0,
    vm |-> GlobalTaskMap[s][0].vm, arg |-> <<task[i].log>>,
    scaling |-> ups + downs]}

(* broadcastUpdateUpstream(stageID + 1) starts one goroutine per task and  *)
(* waits for none; scaleDown then starts the kill and the adoption.        *)
BroadcastUpstream ==
  LET s == scaler.stage IN
  /\ scaler.pc = "waiting"
  /\ AllUpdated
  /\ calls' = calls
       \cup Broadcast("UpdateUpstream", s + 1, <<Count(s)>>)
       \cup (IF scaler.op = "down" THEN Retire(scaler.pid) ELSE {})
  /\ Tick
  /\ UNCHANGED <<task, workerVars, files, pushes, replays, source, leaderVars,
                 TaskRates, rates, finishVars, counts, losses>>

Scaler ==
  \/ \E s \in Stages : ScaleUpStart(s) \/ ScaleDownMap(s)
  \/ ScaleUpMap \/ BroadcastUpstream \/ ScalerStops

-----------------------------------------------------------------------------
(* The workers' handlers of the scaler's calls.                            *)

(* The registered tasks of stage s on VM v.                                *)
TasksOn(v, s) == {rsTasks[v][<<s, t>>] : t \in Ids} \ {0}

(* UpdateDownstream: all tasks of the stage on the VM get the list.        *)
UpdateDownstream(c) ==
  /\ c.kind = "UpdateDownstream"
  /\ calls' = calls \ {c}
  /\ task' = [i \in DOMAIN task |-> IF i \in TasksOn(c.vm, c.stage)
       THEN [task[i] EXCEPT !.DownstreamList = c.arg] ELSE task[i]]
  /\ UNCHANGED <<workerVars, files, pushes, replays, source, leaderVars,
                 TaskRates, rates, scaler, finishVars, counts, losses>>

(* UpdateUpstream: likewise NumUpstream.  The EOSs are not looked at.      *)
UpdateUpstream(c) ==
  /\ c.kind = "UpdateUpstream"
  /\ calls' = calls \ {c}
  /\ task' = [i \in DOMAIN task |-> IF i \in TasksOn(c.vm, c.stage)
       THEN [task[i] EXCEPT !.NumUpstream = c.arg[1]] ELSE task[i]]
  /\ UNCHANGED <<workerVars, files, pushes, replays, source, leaderVars,
                 TaskRates, rates, scaler, finishVars, counts, losses>>

(* KillTask: the process is killed, and whatever is registered under the   *)
(* key that TaskPidMap gives for its PID is removed.                       *)
KillTask(c) ==
  LET i == c.arg[1] IN
  /\ c.kind = "KillTask"
  /\ calls' = calls \ {c}
  /\ task' = [task EXCEPT ![i].proc = "dead", ![i].Stdin = <<>>]
  /\ pids' = pids \ {i}
  /\ rsTasks' = IF i \in pids
                THEN [rsTasks EXCEPT ![c.vm][<<c.stage, c.id>>] = 0] ELSE rsTasks
  /\ UNCHANGED <<files, pushes, replays, source, leaderVars, TaskRates, rates,
                 scaler, finishVars, counts, losses>>

(* ProcessOrphanLog: the survivor reads the victim's log as it is now and  *)
(* replays it; without the survivor, or a log, nothing happens.            *)
ProcessOrphanLog(c) ==
  LET i == rsTasks[c.vm][<<c.stage, c.id>>]
      log == dedup[c.arg[1]]
  IN
  /\ c.kind = "ProcessOrphanLog"
  /\ calls' = calls \ {c}
  /\ replays' = IF i = 0 \/ log = <<>> THEN replays
                ELSE replays \cup {[task |-> i, rest |-> log, check |-> TRUE]}
  /\ UNCHANGED <<task, workerVars, files, pushes, source, leaderVars,
                 TaskRates, rates, scaler, finishVars, counts, losses>>

(* The call fails: its error is ignored.                                   *)
CallLost(c) ==
  /\ MayLose
  /\ losses' = losses + 1
  /\ calls' = calls \ {c}
  /\ UNCHANGED <<task, workerVars, files, pushes, replays, source, leaderVars,
                 TaskRates, rates, scaler, finishVars, counts>>

Handle(c) ==
  UpdateDownstream(c) \/ UpdateUpstream(c) \/ KillTask(c) \/ ProcessOrphanLog(c)

Writable(i) == task[i].proc = "running" /\ task[i].pipe = "open"

(* enableDedupCheck: a tuple that the task has already processed.          *)
Skips(g) == g.check /\ Head(g.rest)[1] \in task[g.task].ProcessedIDs

(* One line of replayLogData: it is marked as processed before the write   *)
(* to stdin, whose error is ignored.                                       *)
ReplayLine(g) ==
  LET e == Head(g.rest)
      i == g.task
  IN
  /\ replays' = (replays \ {g}) \cup
       IF Len(g.rest) = 1 THEN {} ELSE {[g EXCEPT !.rest = Tail(@)]}
  /\ task' = [task EXCEPT
       ![i].ProcessedIDs = IF g.check THEN @ \cup {e[1]} ELSE @,
       ![i].Stdin = IF ~Skips(g) /\ Writable(i) THEN Append(@, e[2]) ELSE @]
  /\ UNCHANGED <<workerVars, files, pushes, source, leaderVars, TaskRates,
                 rates, scaler, calls, finishVars, counts, losses>>

-----------------------------------------------------------------------------
(* The pipeline.                                                           *)

DataPush(org, s, id, v) ==
  [org |-> org, kind |-> "data", stage |-> s, id |-> id, val |-> v,
   pc |-> "route", vm |-> 0, dest |-> 0, late |-> 0]

EOSPushes(org, s, list) ==
  {[org |-> org, kind |-> "EOS", stage |-> s, id |-> EOSId, val |-> 0,
    pc |-> "call", vm |-> list[n], dest |-> n - 1, late |-> 0] :
   n \in 1 .. Len(list)}

(* Mutant: a tuple that was sent keeps its route.                          *)
RouteOnce(m) ==
  LET list == IF m.org = Source THEN SortedWorkers(1)
              ELSE task[m.org].DownstreamList
      n == (IF m.org = Source THEN m.id[3] ELSE KeyHash[m.val]) % Len(list)
  IN IF m.vm # 0 THEN <<m.vm, m.dest>> ELSE <<list[n + 1], n>>

(* The route of one iteration of the retry loops: the task whose position  *)
(* in the current list is the sequence number of the line (source) or the  *)
(* hash of the key (tasks), modulo the length.                             *)
Route(m) ==
  LET list == IF m.org = Source THEN SortedWorkers(1)
              ELSE task[m.org].DownstreamList
      n == (IF m.org = Source THEN m.id[3] ELSE KeyHash[m.val]) % Len(list)
  IN <<list[n + 1], n>>

SendTuple(m) ==
  /\ m.pc = "route"
  /\ pushes' = (pushes \ {m}) \cup
       {[m EXCEPT !.pc = "call", !.vm = Route(m)[1], !.dest = Route(m)[2]]}
  /\ UNCHANGED <<task, workerVars, files, replays, source, leaderVars,
                 TaskRates, rates, scaler, calls, finishVars, counts, losses>>

(* A data tuple is routed again; an EOS keeps its destination.             *)
Again(m) == IF m.kind = "data" THEN [m EXCEPT !.pc = "route"] ELSE m

(* The caller sees an error: it sends again, and the call that it has      *)
(* given up may still be served.                                           *)
PushGivenUp(m) ==
  /\ m.pc = "call" /\ m.late = 0
  /\ MayLose
  /\ unanswered' = unanswered + 1
  /\ pushes' = (pushes \ {m}) \cup {Again(m), [m EXCEPT !.late = unanswered + 1]}
  /\ UNCHANGED <<task, workerVars, files, replays, source, leaderVars, TaskRates,
                 rates, scaler, calls, finishVars, ups, downs, reported, losses>>

(* Success: the goroutine ends.                                            *)
Answer(m) == pushes' = pushes \ {m}

(* "reply.Success = false": the caller, if it still waits, sends again.    *)
Refuse(m) ==
  pushes' = (pushes \ {m}) \cup IF m.late = 0 THEN {Again(m)} ELSE {}

(* The task that the look-up of PushTuple finds, 0: "not found".           *)
Target(m) == rsTasks[m.vm][<<m.stage, m.dest>>]

PushNotFound(m) ==
  /\ m.pc = "call" /\ m.kind = "data" /\ Target(m) = 0
  /\ Refuse(m)
  /\ UNCHANGED <<task, workerVars, files, replays, source, leaderVars,
                 TaskRates, rates, scaler, calls, finishVars, counts, losses>>

(* PushTuple on an EOS: stdin is closed when all upstream tasks sent one.  *)
PushEOS(m) ==
  LET i == Target(m)
      n == task[i].EOSCount + 1
  IN
  /\ m.pc = "call" /\ m.kind = "EOS" /\ i # 0
  /\ task' = [task EXCEPT ![i].EOSCount = n,
       ![i].pipe = IF n >= task[i].NumUpstream THEN "closed" ELSE @]
  /\ Answer(m)
  /\ UNCHANGED <<workerVars, files, replays, source, leaderVars, TaskRates,
                 rates, scaler, calls, finishVars, counts, losses>>

PushDuplicate(m) ==
  /\ m.pc = "call" /\ m.kind = "data" /\ Target(m) # 0
  /\ m.id \in task[Target(m)].ProcessedIDs
  /\ Answer(m)
  /\ UNCHANGED <<task, workerVars, files, replays, source, leaderVars,
                 TaskRates, rates, scaler, calls, finishVars, counts, losses>>

Fresh(m) ==
  /\ m.pc = "call" /\ m.kind = "data" /\ Target(m) # 0
  /\ m.id \notin task[Target(m)].ProcessedIDs

LogTuple(m) ==
  dedup' = [dedup EXCEPT ![task[Target(m)].log] = Append(@, <<m.id, m.val>>)]

(* Mutant: the id is not kept.                                             *)
PushTupleForgets(m) ==
  LET i == Target(m) IN
  /\ Fresh(m) /\ Writable(i)
  /\ LogTuple(m)
  /\ task' = [task EXCEPT ![i].Stdin = Append(@, m.val)]
  /\ Answer(m)
  /\ UNCHANGED <<workerVars, output, replays, source, leaderVars, TaskRates,
                 rates, scaler, calls, finishVars, counts, losses>>

(* A new tuple: logged, written to stdin and acknowledged.                 *)
PushTuple(m) ==
  LET i == Target(m) IN
  /\ Fresh(m) /\ Writable(i)
  /\ LogTuple(m)
  /\ task' = [task EXCEPT ![i].Stdin = Append(@, m.val),
                          ![i].ProcessedIDs = @ \cup {m.id}]
  /\ Answer(m)
  /\ UNCHANGED <<workerVars, output, replays, source, leaderVars, TaskRates,
                 rates, scaler, calls, finishVars, counts, losses>>

(* Mutant: the error of the write is not looked at.                        *)
PushWriteIgnored(m) ==
  /\ Fresh(m) /\ ~Writable(Target(m))
  /\ LogTuple(m)
  /\ Answer(m)
  /\ UNCHANGED <<task, workerVars, output, replays, source, leaderVars,
                 TaskRates, rates, scaler, calls, finishVars, counts, losses>>

(* The write fails because stdin is closed: logged, but refused.           *)
PushWriteFails(m) ==
  /\ Fresh(m) /\ ~Writable(Target(m))
  /\ Len(dedup[task[Target(m)].log]) < MaxLog
  /\ LogTuple(m)
  /\ Refuse(m)
  /\ UNCHANGED <<task, workerVars, output, replays, source, leaderVars,
                 TaskRates, rates, scaler, calls, finishVars, counts, losses>>

PushStep(m) ==
  \/ SendTuple(m) \/ PushNotFound(m) \/ PushEOS(m) \/ PushDuplicate(m)
  \/ PushTuple(m) \/ PushWriteFails(m)

(* StartSource: one goroutine per line ...                                 *)
SourceLine ==
  LET seq == source.seq + 1 IN
  /\ source.pc = "stream" /\ seq <= NumLines
  /\ source' = [source EXCEPT !.seq = seq]
  /\ pushes' = pushes \cup {DataPush(Source, 1, <<0, 0, seq>>, seq)}
  /\ UNCHANGED <<task, workerVars, files, replays, leaderVars, TaskRates,
                 rates, scaler, calls, finishVars, counts, losses>>

AllAcked(org) == \A m \in pushes : m.org = org => m.late > 0

(* ... tupleWg.Wait() and AutoscaleStopChan is closed ...                  *)
SourceStops ==
  /\ source.pc = "stream" /\ source.seq = NumLines /\ AllAcked(Source)
  /\ source' = [source EXCEPT !.pc = "stopping"]
  /\ UNCHANGED <<task, workerVars, files, pushes, replays, leaderVars,
                 TaskRates, rates, scaler, calls, finishVars, counts, losses>>

(* ... and, 100 ms later, an EOS to every task that stage 1 has now: no    *)
(* one waits for the monitor to stop.                                      *)
SourceEOS ==
  /\ source.pc = "stopping"
  /\ source' = [source EXCEPT !.pc = "eos"]
  /\ pushes' = pushes \cup EOSPushes(Source, 1, SortedWorkers(1))
  /\ UNCHANGED <<task, workerVars, files, replays, leaderVars, TaskRates,
                 rates, scaler, calls, finishVars, counts, losses>>

(* A line through the operator and handleTaskOutput: to the output file,   *)
(* or to a goroutine that sends it on.                                     *)
Operator(i) ==
  LET v == Head(task[i].Stdin)
      n == task[i].SeqNum + 1
      last == task[i].stage = NumStages
  IN
  /\ task[i].proc = "running" /\ task[i].Stdin # <<>>
  /\ task' = [task EXCEPT ![i].Stdin = Tail(@), ![i].SeqNum = n]
  /\ output' = IF last THEN Append(output, v) ELSE output
  /\ pushes' = IF last THEN pushes ELSE pushes \cup
       {DataPush(i, task[i].stage + 1, <<task[i].stage, task[i].id, n>>, v)}
  /\ UNCHANGED <<workerVars, dedup, replays, source, leaderVars, TaskRates,
                 rates, scaler, calls, finishVars, counts, losses>>

(* The operator reaches the end of stdin.                                  *)
OperatorExit(i) ==
  /\ task[i].proc = "running"
  /\ task[i].pipe = "closed" /\ task[i].Stdin = <<>>
  /\ task' = [task EXCEPT ![i].proc = "dead"]
  /\ UNCHANGED <<workerVars, files, pushes, replays, source, leaderVars,
                 TaskRates, rates, scaler, calls, finishVars, counts, losses>>

Report(i, status) ==
  reports' = reports \cup {[pid |-> i, stage |-> task[i].stage,
                            id |-> task[i].id, status |-> status]}

(* handleTaskOutput at the end of stdout: tupleWg.Wait(), then isSuccess   *)
(* with the NumUpstream of now; a success sends its EOSs first.            *)
HandleEOF(i) ==
  LET success == task[i].EOSCount >= task[i].NumUpstream
      sends == success /\ task[i].stage < NumStages
  IN
  /\ task[i].handler = "scan" /\ task[i].proc = "dead" /\ AllAcked(i)
  /\ task' = [task EXCEPT ![i].handler = IF sends THEN "eos" ELSE "done"]
  /\ \/ /\ sends
        /\ pushes' = pushes \cup
             EOSPushes(i, task[i].stage + 1, task[i].DownstreamList)
        /\ UNCHANGED reports
     \/ /\ ~sends
        /\ Report(i, IF success THEN "Success" ELSE "Failure")
        /\ UNCHANGED pushes
  /\ UNCHANGED <<workerVars, files, replays, source, leaderVars, TaskRates,
                 rates, scaler, calls, restarts, FinishedTasks, counts, losses>>

(* eosWg.Wait() and the report of success.                                 *)
HandleEOSSent(i) ==
  /\ task[i].handler = "eos" /\ AllAcked(i)
  /\ task' = [task EXCEPT ![i].handler = "done"]
  /\ Report(i, "Success")
  /\ UNCHANGED <<workerVars, files, pushes, replays, source, leaderVars,
                 TaskRates, rates, scaler, calls, restarts, FinishedTasks,
                 counts, losses>>

TaskStep(i) ==
  Operator(i) \/ OperatorExit(i) \/ HandleEOF(i) \/ HandleEOSSent(i)

-----------------------------------------------------------------------------
(* TaskFinished and the restart.                                           *)

(* A success is counted.  The failure of a task that is gone from the map  *)
(* is the work of the autoscaler; any other starts a restart from what the *)
(* map holds of the task with that id.                                     *)
TaskFinished(r) ==
  LET mapped == r.id \in DOMAIN GlobalTaskMap[r.stage] IN
  /\ reports' = reports \ {r}
  /\ FinishedTasks' = FinishedTasks + IF r.status = "Success" THEN 1 ELSE 0
  /\ restarts' = IF r.status = "Failure" /\ mapped
       THEN restarts \cup {[stage |-> r.stage, id |-> r.id, pid |-> 0,
                            info |-> GlobalTaskMap[r.stage][r.id]]}
       ELSE restarts
  /\ UNCHANGED <<task, workerVars, files, pushes, replays, source, leaderVars,
                 TaskRates, rates, scaler, calls, counts, losses>>

(* StartTask with OriginalArgs, on the same VM and with the same log.      *)
Restart(r) ==
  LET i == Len(task) + 1 IN
  /\ r.pid = 0
  /\ i <= MaxProcs - (MaxUps - ups)
  /\ StartTask(i, r.stage, r.id, r.info.vm, r.info.log, r.info.down,
               r.info.upstream)
  /\ restarts' = (restarts \ {r}) \cup {[r EXCEPT !.pid = i]}
  /\ UNCHANGED <<output, pushes, source, leaderVars, TaskRates, rates, scaler,
                 calls, reports, FinishedTasks, counts, losses>>

(* The new PID, if the map still has the task.                             *)
RestartMap(r) ==
  /\ r.pid # 0
  /\ restarts' = restarts \ {r}
  /\ GlobalTaskMap' = IF r.id \in DOMAIN GlobalTaskMap[r.stage]
       THEN [GlobalTaskMap EXCEPT ![r.stage][r.id].PID = r.pid]
       ELSE GlobalTaskMap
  /\ UNCHANGED <<task, workerVars, files, pushes, replays, source, TotalTasks,
                 TaskRates, rates, scaler, calls, reports, FinishedTasks,
                 counts, losses>>

-----------------------------------------------------------------------------
Next ==
  \/ \E i \in DOMAIN task : UpdateRate(i) \/ TaskStep(i)
  \/ \E c \in rates : StoreRate(c)
  \/ Scaler
  \/ \E c \in calls : Handle(c) \/ CallLost(c)
  \/ \E g \in replays : ReplayLine(g)
  \/ \E m \in pushes : PushStep(m) \/ PushGivenUp(m)
  \/ SourceLine \/ SourceStops \/ SourceEOS
  \/ \E r \in reports : TaskFinished(r)
  \/ \E r \in restarts : Restart(r) \/ RestartMap(r)

Spec == Init /\ [][Next]_vars

(* Every goroutine, operator process and call on its way that can take a   *)
(* step eventually does; nothing obliges a rate report or a loss.          *)
PushOf(o, n) == \E m \in pushes : m.org = o /\ m.id[3] = n /\ PushStep(m)

Fairness ==
  /\ WF_vars(Scaler)
  /\ WF_vars(\E c \in rates : StoreRate(c))
  /\ WF_vars(\E c \in calls : Handle(c))
  /\ WF_vars(\E g \in replays : ReplayLine(g))
  /\ \A o \in Procs \cup {Source}, n \in Lines : WF_vars(PushOf(o, n))
  /\ WF_vars(SourceLine \/ SourceStops \/ SourceEOS)
  /\ \A i \in Procs : WF_vars(i \in DOMAIN task /\ TaskStep(i))

FairSpec == Spec /\ Fairness

-----------------------------------------------------------------------------
(* Properties.                                                             *)

(* Every variable keeps the shape of the Go structure it stands for: ids,  *)
(* PIDs and sequence numbers stay in range, the counters within their      *)
(* bounds, and TotalTasks, which is kept by hand beside GlobalTaskMap, is  *)
(* the number of the tasks in it.                                          *)
TypeOK ==
  /\ task \in Seq(TaskRec) /\ Len(task) <= MaxProcs
  /\ rsTasks \in [VMs -> [Keys -> 0 .. MaxProcs]] /\ pids \subseteq Procs
  /\ dedup \in Seq(Seq(Entries)) /\ Len(dedup) = Len(task)
  /\ output \in Seq(Lines)
  /\ pushes \subseteq PushRec /\ replays \subseteq ReplayRec
  /\ source \in SourceRec
  /\ DOMAIN GlobalTaskMap = Stages /\ DOMAIN TaskRates = Stages
  /\ \A s \in Stages :
       /\ DOMAIN GlobalTaskMap[s] \subseteq Ids
       /\ \A t \in DOMAIN GlobalTaskMap[s] : GlobalTaskMap[s][t] \in InfoRec
       /\ DOMAIN TaskRates[s] \subseteq Ids
       /\ \A t \in DOMAIN TaskRates[s] : TaskRates[s][t] \in Nat
  /\ rates \subseteq RateRec /\ scaler \in ScalerRec /\ calls \subseteq CallRec
  /\ reports \subseteq ReportRec /\ restarts \subseteq RestartRec
  /\ TotalTasks = Cardinality(Mapped) /\ FinishedTasks \in Nat
  /\ ups \in 0 .. MaxUps /\ downs \in 0 .. MaxDowns /\ reported \in 0 .. MaxReports
  /\ unanswered \in Nat /\ losses \in Nat /\ losses + unanswered <= MaxLosses

(* The position of a task in getSortedStageWorkers is its task id, which   *)
(* is what PushTuple's callers rely on, and no stage ever loses all its    *)
(* tasks.                                                                  *)
IndexIsTaskID ==
  \A s \in Stages : DOMAIN GlobalTaskMap[s] = 0 .. Count(s) - 1 /\ Count(s) > 0

Restarted(i) == task[i].log # i

(* Between two scalings, and as long as no call was lost, every registered *)
(* task of the job, other than a restarted one, routes by the current list *)
(* of the next stage.                                                      *)
RoutesCurrent ==
  losses = 0 /\ scaler.pc = "tick" =>
    \A k \in Keys : k[1] < NumStages /\ k[2] \in DOMAIN GlobalTaskMap[k[1]] =>
      LET i == rsTasks[GlobalTaskMap[k[1]][k[2]].vm][k] IN
      i # 0 /\ ~Restarted(i) => task[i].DownstreamList = SortedWorkers(k[1] + 1)

(* Somebody still has to process line v.                                   *)
OnItsWay(v) ==
  \/ \E m \in pushes : m.kind = "data" /\ m.val = v /\ m.late = 0
  \/ \E i \in DOMAIN task : \E n \in DOMAIN task[i].Stdin : task[i].Stdin[n] = v
  \/ \E g \in replays : \E n \in DOMAIN g.rest : g.rest[n][2] = v
  \/ \E c \in calls : c.kind = "ProcessOrphanLog" /\
       \E n \in DOMAIN dedup[c.arg[1]] : dedup[c.arg[1]][n][2] = v

Written(v) == {n \in DOMAIN output : output[n] = v}

(* A line that the source has sent is in the output or on its way to it.   *)
AtLeastOnce == \A v \in 1 .. source.seq : Written(v) # {} \/ OnItsWay(v)

Growing == downs = 0 /\ \A i \in DOMAIN task : ~Restarted(i)

(* Adding tasks loses nothing, whatever calls of the scaler are lost.      *)
NoLossWhileGrowing == Growing => AtLeastOnce

(* Nor does it process a tuple twice, unless a call of PushTuple was given *)
(* up besides: only then may another task, which the new list names and    *)
(* which does not know the tuple's id, take what was taken already.  Calls *)
(* that are given up while no task is added are harmless: what is sent     *)
(* again meets the task that has it, whenever the first call is served.    *)
NoDuplicateWhileGrowing ==
  Growing /\ (ups = 0 \/ unanswered = 0) => \A v \in Lines : Cardinality(Written(v)) <= 1

(* Rerouting works: unless a call of the scaler was lost, every data tuple *)
(* is eventually acknowledged, also one that was on its way to a task that *)
(* is removed, and one whose call was given up.                            *)
Drains == <>[](losses > 0 \/ \A m \in pushes : m.kind = "EOS" \/ m.late > 0)
=============================================================================
