------------------------ MODULE AutoscaleGrowProofs -------------------------
(***************************************************************************)
(* Adding tasks neither loses nor, unless a call of PushTuple is given up  *)
(* besides, repeats a tuple, whatever calls of the scaler are lost, for    *)
(* any number of stages, tasks, workers and lines.                         *)
(*                                                                         *)
(* The argument.  While the job only grows, an entry of GlobalTaskMap never *)
(* changes, so that every routing list, however old, gives the workers of  *)
(* the first tasks of the stage: a tuple always reaches the task that the  *)
(* map names, and a task that the leader never heard of stays idle         *)
(* (GrowInv).  So every id is issued once, all pushes with one id are      *)
(* calls for one tuple, and its caller goes on until a task has taken it   *)
(* (IdInv): no line vanishes (PresentInv).                                 *)
(*                                                                         *)
(* No second task takes a tuple: if no call was given up, a tuple that is  *)
(* on its way is in no task's ProcessedIDs (FreshInv); if no task was      *)
(* added, every call for it finds the same task (SettledInv), which knows  *)
(* its id.  Then every line is in exactly one place, where a tuple counts  *)
(* as long as no task has taken it (TokenInv).                             *)
(***************************************************************************)
EXTENDS AutoscaleProofs

-----------------------------------------------------------------------------
(* The map and what is registered, while tasks are only added.             *)

NoneRetired ==
  /\ scaler.op # "down" /\ replays = {}
  /\ \A c \in calls : c.kind \in {"UpdateDownstream", "UpdateUpstream"}
  /\ \A r \in restarts : r.pid = 0

(* Task t of stage s is process i on worker v.                             *)
Runs(s, t, i, v) ==
  rsTasks[v][<<s, t>>] = i /\ task[i].stage = s /\ task[i].id = t /\ task[i].vm = v

MapRegistered ==
  /\ \A s \in Stages : \A t \in DOMAIN GlobalTaskMap[s] :
       Runs(s, t, GlobalTaskMap[s][t].PID, GlobalTaskMap[s][t].vm)
  /\ scaler.pc = "map" =>
       Runs(scaler.stage, NewId(scaler.stage), scaler.pid, task[scaler.pid].vm)

(* l gives the workers of the first tasks of stage s.                      *)
Initial(l, s) ==
  \A n \in 1 .. Len(l) : n - 1 \in DOMAIN GlobalTaskMap[s] /\ l[n] = GlobalTaskMap[s][n - 1].vm

ListsTrue ==
  \A i \in 1 .. Len(task) : task[i].stage < NumStages =>
    Initial(task[i].DownstreamList, task[i].stage + 1)

Routed ==
  \A m \in pushes : m.pc = "call" =>
    m.dest \in DOMAIN GlobalTaskMap[m.stage] /\ m.vm = GlobalTaskMap[m.stage][m.dest].vm

Idle(i) == task[i].Stdin = <<>> /\ task[i].SeqNum = 0 /\ task[i].ProcessedIDs = {}

(* The map has process i for its key.                                      *)
InMap(i) ==
  /\ task[i].id \in DOMAIN GlobalTaskMap[task[i].stage]
  /\ GlobalTaskMap[task[i].stage][task[i].id].PID = i

OnlyMapped == \A i \in 1 .. Len(task) : Idle(i) \/ InMap(i)

GrowInv == Growing => NoneRetired /\ MapRegistered /\ ListsTrue /\ Routed /\ OnlyMapped

-----------------------------------------------------------------------------
(* Ids.                                                                    *)

(* Message id d was issued: by the source, or by the task that the map has *)
(* for its key.                                                            *)
Issued(d) ==
  \/ d[1] = 0 /\ d[3] <= source.seq
  \/ /\ d[1] \in Stages /\ d[2] \in DOMAIN GlobalTaskMap[d[1]]
     /\ d[3] <= task[GlobalTaskMap[d[1]][d[2]].PID].SeqNum

Data == {m \in pushes : m.kind = "data"}

(* Some task has taken the tuple with id d.                                *)
Accepted(d) == \E i \in 1 .. Len(task) : d \in task[i].ProcessedIDs

Copies(m, n) == m.id = n.id /\ m.org = n.org /\ m.stage = n.stage /\ m.val = n.val

IdsIssued ==
  /\ \A m \in Data : Issued(m.id)
  /\ \A i \in 1 .. Len(task) : \A d \in task[i].ProcessedIDs : Issued(d)

(* Pushes with one id are calls for one tuple.                             *)
IdsAgree == \A m, n \in Data : m.id = n.id => Copies(m, n)

(* The caller of a tuple that no task has taken still sends it.            *)
Backed == \A m \in Data : ~Accepted(m.id) => \E n \in Data : n.id = m.id /\ n.late = 0

IdInv == Growing => IdsIssued /\ IdsAgree /\ Backed

(* As long as no call was given up, no tuple is answered as a duplicate.   *)
IdsFresh ==
  /\ \A m, n \in Data : m.id = n.id => m = n
  /\ \A m \in Data : ~Accepted(m.id)

FreshInv == Growing /\ unanswered = 0 => IdsFresh

-----------------------------------------------------------------------------
(* As long as no task was added, all calls for a tuple find one task.      *)

Hash(m) == IF m.org = Source THEN m.id[3] ELSE KeyHash[m.val]
Home(m) == GlobalTaskMap[m.stage][Hash(m) % NumTasks].PID

NoScaling == scaler.pc \notin {"map", "waiting"} /\ calls = {}
ListsFull ==
  /\ \A s \in Stages : DOMAIN GlobalTaskMap[s] = 0 .. NumTasks - 1
  /\ \A i \in 1 .. Len(task) : task[i].stage < NumStages => Len(task[i].DownstreamList) = NumTasks
SentHome == \A m \in Data : m.pc = "call" => m.dest = Hash(m) % NumTasks
TakenAtHome ==
  \A m \in Data : \A i \in 1 .. Len(task) : m.id \in task[i].ProcessedIDs => i = Home(m)

SettledInv ==
  Growing /\ ups = 0 => NoScaling /\ ListsFull /\ SentHome /\ TakenAtHome

-----------------------------------------------------------------------------
(* Where the lines are.                                                    *)

(* The tuples that are on their way and that no task has taken.            *)
Waiting == {<<m.id, m.val>> : m \in {n \in Data : ~Accepted(n.id)}}

InStdin(v) == \E i \in 1 .. Len(task) : \E n \in 1 .. Len(task[i].Stdin) : task[i].Stdin[n] = v
InData(v) == \E p \in Waiting : p[2] = v
InOutput(v) == \E n \in 1 .. Len(output) : output[n] = v

(* No line is anywhere before the source has read it.                      *)
ReadOnly ==
  \A v \in Lines : InStdin(v) \/ InData(v) \/ InOutput(v) => v <= source.seq

DataOnce == \A p, q \in Waiting : p[2] = q[2] => p = q
StdinOnce ==
  \A i, j \in 1 .. Len(task) :
    \A n \in 1 .. Len(task[i].Stdin), k \in 1 .. Len(task[j].Stdin) :
      task[i].Stdin[n] = task[j].Stdin[k] => i = j /\ n = k
OutputOnce == \A n, k \in 1 .. Len(output) : output[n] = output[k] => n = k

OnePlace == DataOnce /\ StdinOnce /\ OutputOnce

Apart ==
  \A v \in Lines : ~(InData(v) /\ InStdin(v)) /\ ~(InOutput(v) /\ (InStdin(v) \/ InData(v)))

(* What NoDuplicateWhileGrowing supposes.                                  *)
TakenOnce == Growing /\ (ups = 0 \/ unanswered = 0)

TokenInv == TakenOnce => ReadOnly /\ OnePlace /\ Apart

PresentInv ==
  Growing => \A v \in 1 .. source.seq : InStdin(v) \/ InData(v) \/ InOutput(v)

-----------------------------------------------------------------------------
(* A job that only grows has only grown.                                   *)
LEMMA GrowingBefore ==
  ASSUME TypeInv, [Next]_vars, Growing'
  PROVE  Growing /\ ~Removes /\ ~Restarts
<1>g. TasksGrow /\ DOMAIN task = 1 .. Len(task) /\ DOMAIN task' = 1 .. Len(task')
  BY NextTasks DEF TypeInv, TasksTyped, TasksGrow
<1>1. downs \in Nat /\ downs' = 0
  BY ConstTypes DEF TypeInv, CountsTyped, Growing
<1>2. downs' = downs \/ downs' = downs + 1
  BY CountFrames DEF CountSteps
<1>3. downs = 0
  BY <1>1, <1>2
<1>4. \A i \in DOMAIN task : ~Restarted(i)
  <2> TAKE i \in DOMAIN task
  <2>1. i \in DOMAIN task' /\ task'[i].log = task[i].log
    BY <1>g DEF TasksGrow, SameTask
  <2> QED
    BY <2>1 DEF Growing, Restarted
<1>5. ~Removes
  BY <1>1, <1>3 DEF Removes, ScaleDownMap
<1>6. ~Restarts
  <2> SUFFICES ASSUME NEW r \in restarts, Restart(r) PROVE FALSE
    BY DEF Restarts
  <2>1. PICK i : i = Len(task) + 1
    OBVIOUS
  <2>2. /\ Starts(r.stage, r.id, r.info.vm, r.info.log, r.info.down)
        /\ r.info.log \in 1 .. Len(task)
    BY RestartOp
  <2>3. i \in DOMAIN task' /\ task'[i].log # i
    BY <1>g, <2>1, <2>2 DEF Starts, TasksGrow
  <2> QED
    BY <2>3 DEF Growing, Restarted
<1> QED
  BY <1>3, <1>4, <1>5, <1>6 DEF Growing

(* What a step may do while the job only grows.                            *)
LEMMA GrowSteps ==
  ASSUME TypeInv, NoneRetired, [Next]_vars, Growing'
  PROVE  /\ UNCHANGED GlobalTaskMap \/ ScaleUpMap
         /\ UNCHANGED rsTasks \/ Adds
         /\ UNCHANGED replays
         /\ \A c \in calls : ~KillTask(c) /\ ~ProcessOrphanLog(c)
         /\ \A g \in replays : ~ReplayLine(g)
         /\ \A r \in restarts : ~RestartMap(r)
<1>1. ~Removes /\ ~Restarts
  BY GrowingBefore
<1>2. /\ \A c \in calls : ~KillTask(c) /\ ~ProcessOrphanLog(c)
      /\ \A g \in replays : ~ReplayLine(g)
      /\ \A r \in restarts : ~RestartMap(r)
  BY DEF NoneRetired, KillTask, ProcessOrphanLog, RestartMap
<1>3. Adds => UNCHANGED replays
  <2> SUFFICES ASSUME NEW s \in Stages, ScaleUpStart(s) PROVE UNCHANGED replays
    BY DEF Adds
  <2>1. Starts(s, NewId(s), LeastLoadedWorker, Len(task) + 1, Downstreams(s))
    BY ScaleUpStartOp
  <2> QED
    BY <2>1 DEF Starts
<1>4. UNCHANGED GlobalTaskMap \/ ScaleUpMap
  BY <1>1, <1>2, Frames DEF LeaderFrame
<1>5. UNCHANGED rsTasks \/ Adds
  BY <1>1, <1>2, Frames DEF NodeFrame
<1>6. UNCHANGED replays
  BY <1>1, <1>2, <1>3, Frames DEF NodeFrame
<1> QED
  BY <1>2, <1>4, <1>5, <1>6

(* Entries of the map stay as they are.                                    *)
EntriesStay ==
  \A s \in Stages : \A t \in DOMAIN GlobalTaskMap[s] :
    t \in DOMAIN GlobalTaskMap'[s] /\ GlobalTaskMap'[s][t] = GlobalTaskMap[s][t]

(* While the job only grows, entries of the map stay as they are.          *)
LEMMA EntriesKept ==
  ASSUME TypeInv, NoneRetired, [Next]_vars, Growing'
  PROVE  EntriesStay
<1>1. CASE ScaleUpMap
  <2>1. PICK n \in Nat \ {0}, e \in InfoRec :
          scaler.stage \in Stages /\ MapGrows(scaler.stage, n, e)
    BY <1>1, ScaleUpMapOp
  <2> QED
    BY <2>1 DEF MapGrows, EntriesStay
<1>2. CASE UNCHANGED GlobalTaskMap
  BY <1>2 DEF EntriesStay
<1> QED
  BY <1>1, <1>2, GrowSteps

(* Every step of a growing job keeps NoneRetired.                          *)
LEMMA NextRetired ==
  ASSUME TypeInv, NoneRetired, [Next]_vars, Growing'
  PROVE  NoneRetired'
<1>s. ScalerTyped /\ ~Removes /\ ~Restarts
  BY GrowingBefore DEF TypeInv
<1>1. scaler'.op # "down"
  <2>1. CASE UNCHANGED scaler
    BY <2>1 DEF NoneRetired
  <2>2. CASE Adds
    <3>1. PICK s \in Stages : ScaleUpStart(s)
      BY <2>2 DEF Adds
    <3>2. \/ scaler' = [pc |-> "map", stage |-> s, op |-> "up", pid |-> Len(task) + 1]
          \/ Tick
      BY <3>1, ScaleUpStartOp
    <3> QED
      BY <3>2 DEF Tick
  <2>3. CASE ScaleUpMap
    BY <1>s, <2>3 DEF ScaleUpMap, NoneRetired, ScalerTyped, ScalerRec
  <2>4. CASE BroadcastUpstream \/ ScalerStops
    BY <1>s, <2>4 DEF BroadcastUpstream, ScalerStops, Tick, NoneRetired, ScalerTyped, ScalerRec
  <2> QED
    BY <1>s, <2>1, <2>2, <2>3, <2>4, Frames DEF LeaderFrame, Scaler, Adds, Removes
<1>2. replays' = {}
  BY GrowSteps DEF NoneRetired
<1>3. \A c \in calls' : c.kind \in {"UpdateDownstream", "UpdateUpstream"}
  <2>1. CASE ScaleUpMap
    <3>1. PICK s \in Stages : s = scaler.stage
      BY <1>s, <2>1 DEF ScaleUpMap, ScalerTyped, ScalerRec
    <3>2. PICK l : l = Workers(GlobalTaskMap'[s])
      OBVIOUS
    <3>3. calls' = calls \cup Broadcast("UpdateDownstream", s - 1, l)
      BY <2>1, <3>1, <3>2 DEF ScaleUpMap, BroadcastDownstream
    <3>4. s - 1 \in Int
      BY ConstTypes
    <3>5. \A c \in Broadcast("UpdateDownstream", s - 1, l) : c.kind = "UpdateDownstream"
      BY <3>4, BroadcastCalls
    <3> QED
      BY <3>3, <3>5 DEF NoneRetired
  <2>2. CASE BroadcastUpstream
    <3>1. PICK s \in Stages : s = scaler.stage
      BY <1>s, <2>2 DEF BroadcastUpstream, ScalerTyped, ScalerRec
    <3>2. calls' = calls \cup Broadcast("UpdateUpstream", s + 1, <<Count(s)>>)
      BY <2>2, <3>1 DEF BroadcastUpstream, NoneRetired
    <3>3. s + 1 \in Int
      BY ConstTypes
    <3>4. \A c \in Broadcast("UpdateUpstream", s + 1, <<Count(s)>>) : c.kind = "UpdateUpstream"
      BY <3>3, BroadcastCalls
    <3> QED
      BY <3>2, <3>4 DEF NoneRetired
  <2>3. CASE calls' \subseteq calls
    BY <2>3 DEF NoneRetired
  <2> QED
    BY <1>s, <2>1, <2>2, <2>3, Frames DEF LeaderFrame
<1>4. \A r \in restarts' : r.pid = 0
  <2>1. CASE UNCHANGED restarts
    BY <2>1 DEF NoneRetired
  <2>2. ASSUME NEW r \in reports, TaskFinished(r) PROVE \A x \in restarts' : x.pid = 0
    BY <2>2 DEF TaskFinished, NoneRetired
  <2> QED
    BY <1>s, <2>1, <2>2, Frames, GrowSteps DEF LeaderFrame
<1> QED
  BY <1>1, <1>2, <1>3, <1>4 DEF NoneRetired

(* Every step of a growing job keeps MapRegistered.                        *)
LEMMA NextMapRegistered ==
  ASSUME TypeInv, NoneRetired, MapRegistered, [Next]_vars, Growing'
  PROVE  MapRegistered'
<1>g. TasksGrow /\ ScalerTyped /\ NodesTyped /\ Len(task) \in Nat
  BY NextTasks DEF TypeInv, TasksGrow
<1>v. \A s \in Stages : \A t \in DOMAIN GlobalTaskMap[s] :
        /\ GlobalTaskMap[s][t].vm \in VMs /\ GlobalTaskMap[s][t].PID \in 1 .. Len(task)
        /\ <<s, t>> \in Keys /\ t # NewId(s)
  <2> TAKE s \in Stages
  <2>1. PICK n \in Nat \ {0} : /\ DOMAIN GlobalTaskMap[s] = 0 .. n - 1 /\ MaxId(s) = n - 1
                               /\ n <= NumTasks + ups
    BY StageFacts
  <2>2. NewId(s) = n /\ ups \in 0 .. MaxUps
    BY <2>1 DEF NewId, TypeInv, TasksTyped
  <2> TAKE t \in DOMAIN GlobalTaskMap[s]
  <2>3. InfoFits(GlobalTaskMap[s][t], s)
    BY DEF TypeInv, MapTyped
  <2>4. GlobalTaskMap[s][t].vm \in VMs /\ GlobalTaskMap[s][t].PID \in 1 .. Len(task)
    BY <1>g, <2>3, ConstTypes DEF InfoFits, InfoRec, Procs
  <2>5. t \in Ids /\ t # n
    BY <2>1, <2>2, ConstTypes DEF Ids
  <2> QED
    BY <2>2, <2>4, <2>5 DEF Keys
<1>0. \A s, t, v : \A i \in 1 .. Len(task) :
        Runs(s, t, i, v) /\ rsTasks'[v][<<s, t>>] = rsTasks[v][<<s, t>>] => Runs(s, t, i, v)'
  BY <1>g DEF Runs, TasksGrow, SameTask
<1>1. CASE Adds
  <2>1. PICK s \in Stages : ScaleUpStart(s)
    BY <1>1 DEF Adds
  <2>2. PICK i : i = Len(task) + 1
    OBVIOUS
  <2>3. PICK w \in VMs : w = LeastLoadedWorker
    BY <2>1, ScaleUpStartOp
  <2>4. PICK t \in Ids : t = NewId(s)
    BY <2>1, ScaleUpStartOp
  <2>5. /\ Starts(s, t, w, i, Downstreams(s))
        /\ \/ scaler' = [pc |-> "map", stage |-> s, op |-> "up", pid |-> i]
           \/ Tick
    BY <2>1, <2>2, <2>3, <2>4, ScaleUpStartOp
  <2>6. UNCHANGED GlobalTaskMap
    BY <2>1 DEF ScaleUpStart, leaderVars
  <2>7. /\ rsTasks' = [rsTasks EXCEPT ![w][<<s, t>>] = i] /\ task'[i].stage = s
        /\ task'[i].id = t /\ task'[i].vm = w
    BY <2>2, <2>5 DEF Starts
  <2>8. \A x \in VMs, k \in Keys : rsTasks'[x][k] =
          IF x = w /\ k = <<s, t>> THEN i ELSE rsTasks[x][k]
    BY <1>g, <2>7 DEF NodesTyped, Keys
  <2>9. ASSUME NEW r \in Stages, NEW u \in DOMAIN GlobalTaskMap[r]
        PROVE  Runs(r, u, GlobalTaskMap[r][u].PID, GlobalTaskMap[r][u].vm)'
    <3>1. PICK p \in 1 .. Len(task) : p = GlobalTaskMap[r][u].PID
      BY <1>v
    <3>2. PICK v \in VMs : v = GlobalTaskMap[r][u].vm
      BY <1>v
    <3>3. <<r, u>> \in Keys /\ <<r, u>> # <<s, t>>
      BY <1>v, <2>4
    <3>4. rsTasks'[v][<<r, u>>] = rsTasks[v][<<r, u>>]
      BY <2>8, <3>3
    <3>5. Runs(r, u, p, v)
      BY <3>1, <3>2 DEF MapRegistered
    <3>6. Runs(r, u, p, v)'
      BY <1>0, <3>4, <3>5
    <3> QED
      BY <2>6, <3>1, <3>2, <3>6 DEF Runs
  <2>10. CASE scaler' = [pc |-> "map", stage |-> s, op |-> "up", pid |-> i]
    <3>1. <<s, t>> \in Keys
      BY DEF Keys
    <3>2. rsTasks'[w][<<s, t>>] = i
      BY <2>8, <3>1
    <3>3. NewId(scaler.stage)' = t
      BY <2>4, <2>6, <2>10 DEF NewId, MaxId
    <3>4. scaler'.stage = s /\ scaler'.pid = i
      BY <2>10
    <3>5. Runs(scaler.stage, NewId(scaler.stage), scaler.pid, task[scaler.pid].vm)'
      BY <2>7, <3>2, <3>3, <3>4 DEF Runs
    <3> QED
      BY <2>6, <2>9, <3>5 DEF MapRegistered
  <2>11. CASE Tick
    BY <2>6, <2>9, <2>11 DEF MapRegistered, Tick
  <2> QED
    BY <2>5, <2>10, <2>11
<1>2. CASE ScaleUpMap
  <2>1. PICK s \in Stages : s = scaler.stage
    BY <1>2, <1>g DEF ScaleUpMap, ScalerTyped, ScalerRec
  <2>2. PICK i \in 1 .. Len(task) : i = scaler.pid
    BY <1>2, ScaleUpMapOp
  <2>3. PICK n \in Nat \ {0}, e \in InfoRec :
          /\ n = NewId(s) /\ e.vm = task[i].vm /\ e.PID = i /\ MapGrows(s, n, e)
          /\ scaler.pc = "map" /\ scaler' = [scaler EXCEPT !.pc = "waiting"]
    BY <1>2, <2>1, <2>2, ScaleUpMapOp
  <2>4. UNCHANGED <<task, rsTasks>>
    BY <1>2 DEF ScaleUpMap, workerVars
  <2>5. scaler'.pc = "waiting"
    BY <1>g, <2>3 DEF ScalerTyped, ScalerRec
  <2>6. Runs(s, n, i, task[i].vm)
    BY <2>1, <2>2, <2>3 DEF MapRegistered
  <2>7. ASSUME NEW r \in Stages, NEW u \in DOMAIN GlobalTaskMap'[r]
        PROVE  Runs(r, u, GlobalTaskMap[r][u].PID, GlobalTaskMap[r][u].vm)'
    <3>1. CASE r = s /\ u = n
      <4>1. GlobalTaskMap'[r][u] = e
        BY <2>3, <3>1 DEF MapGrows
      <4> QED
        BY <2>3, <2>4, <2>6, <3>1, <4>1 DEF Runs
    <3>2. CASE ~(r = s /\ u = n)
      <4>1. u \in DOMAIN GlobalTaskMap[r] /\ GlobalTaskMap'[r][u] = GlobalTaskMap[r][u]
        BY <2>3, <3>2 DEF MapGrows
      <4>2. Runs(r, u, GlobalTaskMap[r][u].PID, GlobalTaskMap[r][u].vm)
        BY <4>1 DEF MapRegistered
      <4> QED
        BY <2>4, <4>1, <4>2 DEF Runs
    <3> QED
      BY <3>1, <3>2
  <2> QED
    BY <2>5, <2>7 DEF MapRegistered
<1>3. CASE UNCHANGED <<GlobalTaskMap, rsTasks>> /\ (UNCHANGED scaler \/ scaler'.pc # "map")
  <2>1. ASSUME NEW r \in Stages, NEW u \in DOMAIN GlobalTaskMap[r]
        PROVE  Runs(r, u, GlobalTaskMap[r][u].PID, GlobalTaskMap[r][u].vm)'
    <3>1. PICK p \in 1 .. Len(task) : p = GlobalTaskMap[r][u].PID
      BY <1>v
    <3>2. PICK v \in VMs : v = GlobalTaskMap[r][u].vm
      BY <1>v
    <3>3. Runs(r, u, p, v)
      BY <3>1, <3>2 DEF MapRegistered
    <3>4. Runs(r, u, p, v)'
      BY <1>0, <1>3, <3>3
    <3> QED
      BY <1>3, <3>1, <3>2, <3>4 DEF Runs
  <2>2. CASE scaler'.pc # "map"
    BY <1>3, <2>1, <2>2 DEF MapRegistered
  <2>3. CASE UNCHANGED scaler /\ scaler.pc = "map"
    <3>1. PICK s : s = scaler.stage
      OBVIOUS
    <3>2. PICK i \in 1 .. Len(task) : i = scaler.pid
      BY <1>g, <2>3 DEF ScalerTyped, ScalerRec
    <3>3. PICK n : n = NewId(s)
      OBVIOUS
    <3>4. NewId(scaler.stage)' = n
      BY <1>3, <2>3, <3>1, <3>3 DEF NewId, MaxId
    <3>5. task'[i].vm = task[i].vm
      BY <1>g DEF TasksGrow, SameTask
    <3>6. Runs(s, n, i, task[i].vm)
      BY <2>3, <3>1, <3>2, <3>3 DEF MapRegistered
    <3>7. Runs(scaler.stage, NewId(scaler.stage), scaler.pid, task[scaler.pid].vm)'
      BY <1>0, <1>3, <1>g, <2>3, <3>1, <3>2, <3>4, <3>5, <3>6 DEF Runs, TasksGrow, SameTask
    <3> QED
      BY <1>3, <2>1, <3>7 DEF MapRegistered
  <2> QED
    BY <1>3, <2>2, <2>3
<1>4. \/ Adds \/ ScaleUpMap
      \/ UNCHANGED <<GlobalTaskMap, rsTasks>> /\ (UNCHANGED scaler \/ scaler'.pc # "map")
  <2>1. ASSUME BroadcastUpstream \/ ScalerStops PROVE scaler'.pc # "map"
    BY <1>g, <2>1 DEF BroadcastUpstream, ScalerStops, Tick, ScalerTyped, ScalerRec
  <2> QED
    BY <2>1, Frames, GrowSteps, GrowingBefore DEF LeaderFrame, Scaler, Adds, Removes
<1> QED
  BY <1>1, <1>2, <1>3, <1>4

(* A list stays true when entries of the map stay as they are.             *)
LEMMA InitialKept ==
  ASSUME EntriesStay, NEW l, NEW s \in Stages, Initial(l, s)
  PROVE  \A n \in 1 .. Len(l) : n - 1 \in DOMAIN GlobalTaskMap'[s]
                                /\ l[n] = GlobalTaskMap'[s][n - 1].vm
BY DEF EntriesStay, Initial

(* The current list is true.                                               *)
LEMMA CurrentInitial ==
  ASSUME TypeInv, NEW s \in Stages
  PROVE  Initial(SortedWorkers(s), s)
<1>1. PICK n \in Nat \ {0} :
        /\ DOMAIN GlobalTaskMap[s] = 0 .. n - 1 /\ Len(SortedWorkers(s)) = n
        /\ SortedWorkers(s) = [k \in 1 .. n |-> GlobalTaskMap[s][k - 1].vm]
  BY StageFacts
<1> QED
  BY <1>1 DEF Initial

(* Every step of a growing job keeps ListsTrue.                            *)
LEMMA NextLists ==
  ASSUME TypeInv, RouteInv, NoneRetired, ListsTrue, [Next]_vars, Growing'
  PROVE  ListsTrue'
<1>g. /\ TasksGrow /\ ScalerTyped /\ TasksTyped /\ NodesTyped /\ CallsTyped
      /\ Len(task) \in Nat /\ EntriesStay
  BY NextTasks, EntriesKept DEF TypeInv, TasksGrow
<1>s. \A s \in Stages : s < NumStages => s + 1 \in Stages
  BY ConstTypes DEF Stages
<1>d. SUFFICES ASSUME NEW j \in 1 .. Len(task'), task'[j].stage < NumStages
               PROVE  \E s \in Stages : s = task'[j].stage + 1 /\ Initial(task'[j].DownstreamList, s)
  <2> SUFFICES ASSUME NEW j \in 1 .. Len(task'), task'[j].stage < NumStages
               PROVE  Initial(task[j].DownstreamList, task[j].stage + 1)'
    BY DEF ListsTrue
  <2>1. PICK s \in Stages : s = task'[j].stage + 1 /\ Initial(task'[j].DownstreamList, s)
    BY <1>d
  <2> QED
    BY <1>g, <2>1, InitialKept DEF Initial
<1>0. ASSUME NEW i \in 1 .. Len(task), task[i].stage < NumStages
      PROVE  /\ task[i].stage + 1 \in Stages
             /\ Initial(task[i].DownstreamList, task[i].stage + 1)
  BY <1>0, <1>s, <1>g, TaskFields DEF ListsTrue
<1>1. CASE UNCHANGED task \/ (TasksStay /\ ListsStay)
  BY <1>0, <1>1, <1>d DEF TasksStay, ListsStay, SameTask
<1>2. ASSUME NEW c \in calls, UpdateDownstream(c)
      PROVE  \E s \in Stages : s = task'[j].stage + 1 /\ Initial(task'[j].DownstreamList, s)
  <2>1. /\ c.kind = "UpdateDownstream" /\ TasksStay
        /\ task'[j].DownstreamList = IF j \in TasksOn(c.vm, c.stage)
                                       THEN c.arg ELSE task[j].DownstreamList
    BY <1>2, UpdateDownstreamOp DEF TasksStay
  <2>2. j \in 1 .. Len(task) /\ task'[j].stage = task[j].stage
    BY <2>1 DEF TasksStay, SameTask
  <2>3. CASE j \notin TasksOn(c.vm, c.stage)
    BY <1>0, <1>d, <2>1, <2>2, <2>3
  <2>4. CASE j \in TasksOn(c.vm, c.stage)
    <3>1. c.vm \in VMs /\ c.stage \in Stages
      BY <1>g DEF CallsTyped, CallFits
    <3>2. PICK t \in Ids : rsTasks[c.vm][<<c.stage, t>>] = j
      BY <2>4 DEF TasksOn
    <3>3. <<c.stage, t>> \in Keys /\ <<c.stage, t>>[1] = c.stage
      BY <3>1 DEF Keys
    <3>4. task[j].stage = c.stage
      BY <2>2, <3>1, <3>2, <3>3 DEF RouteInv, Registered
    <3>5. c.stage = scaler.stage - 1 /\ c.arg = SortedWorkers(scaler.stage)
      BY <2>1 DEF RouteInv, BroadcastCurrent
    <3>6. scaler.stage \in Nat /\ scaler.stage = c.stage + 1
      BY <1>g, <3>1, <3>5, ConstTypes DEF ScalerTyped, ScalerRec
    <3>7. c.stage + 1 \in Stages
      BY <1>d, <1>s, <2>2, <3>1, <3>4
    <3>8. Initial(c.arg, c.stage + 1)
      BY <3>5, <3>6, <3>7, CurrentInitial
    <3> QED
      BY <2>1, <2>2, <2>4, <3>4, <3>7, <3>8
  <2> QED
    BY <2>3, <2>4
<1>3. ASSUME NEW s \in Stages, ScaleUpStart(s)
      PROVE  \E r \in Stages : r = task'[j].stage + 1 /\ Initial(task'[j].DownstreamList, r)
  <2>1. Starts(s, NewId(s), LeastLoadedWorker, Len(task) + 1, Downstreams(s))
    BY <1>3, ScaleUpStartOp
  <2>2. CASE j \in 1 .. Len(task)
    <3>1. task'[j] = task[j]
      BY <2>1, <2>2 DEF Starts
    <3> QED
      BY <1>0, <1>d, <2>2, <3>1
  <2>3. CASE j \notin 1 .. Len(task)
    <3>1. j = Len(task) + 1
      BY <1>g, <2>1, <2>3 DEF Starts
    <3>2. task'[j].stage = s /\ task'[j].DownstreamList = Downstreams(s)
      BY <2>1, <3>1 DEF Starts
    <3>3. s + 1 \in Stages /\ Downstreams(s) = SortedWorkers(s + 1)
      BY <1>d, <3>2, DownstreamsType
    <3>4. Initial(Downstreams(s), s + 1)
      BY <3>3, CurrentInitial
    <3> QED
      BY <3>2, <3>3, <3>4
  <2> QED
    BY <2>2, <2>3
<1> QED
  BY <1>1, <1>2, <1>3, TaskSteps, GrowingBefore DEF Restarts

(* The list by which a tuple is routed is true.                            *)
LEMMA PushListTrue ==
  ASSUME TypeInv, ListsTrue, NEW m \in pushes
  PROVE  Initial(ListOfPush(m), m.stage)
<1>1. PushFits(m) /\ m.org \in Nat /\ m.stage \in Stages /\ Source = 0
  BY PushFacts DEF TypeInv, PushesTyped, Source
<1>2. CASE m.org = Source
  BY <1>1, <1>2, CurrentInitial DEF PushFits, ListOfPush
<1>3. CASE m.org # Source
  <2>1. m.org \in 1 .. Len(task) /\ m.stage = task[m.org].stage + 1
    BY <1>1, <1>3 DEF PushFits, TypeInv, TasksTyped
  <2>2. task[m.org].stage \in Stages
    BY <2>1, TaskFields DEF TypeInv
  <2>3. task[m.org].stage < NumStages
    BY <1>1, <2>1, <2>2, ConstTypes DEF Stages
  <2> QED
    BY <1>3, <2>1, <2>3 DEF ListsTrue, ListOfPush
<1> QED
  BY <1>2, <1>3

(* What routes a push: the map has the task that it is sent to.            *)
RoutedTo(m) ==
  m.pc = "call" =>
    m.dest \in DOMAIN GlobalTaskMap[m.stage] /\ m.vm = GlobalTaskMap[m.stage][m.dest].vm

(* Every step of a growing job keeps Routed.                               *)
LEMMA NextRouted ==
  ASSUME TypeInv, NoneRetired, ListsTrue, Routed, [Next]_vars, Growing'
  PROVE  Routed'
<1>g. EntriesStay /\ TasksTyped /\ Len(task) \in Nat /\ DOMAIN task = 1 .. Len(task)
  BY EntriesKept DEF TypeInv, TasksTyped
<1>d. SUFFICES ASSUME NEW q \in pushes' PROVE q.stage \in Stages /\ RoutedTo(q)
  <2>1. ASSUME NEW q \in pushes', q.pc = "call"
        PROVE  /\ q.dest \in DOMAIN GlobalTaskMap'[q.stage]
               /\ q.vm = GlobalTaskMap'[q.stage][q.dest].vm
    BY <1>d, <1>g, <2>1 DEF RoutedTo, EntriesStay
  <2> QED
    BY <2>1 DEF Routed
<1>0. ASSUME q \in pushes PROVE q.stage \in Stages /\ RoutedTo(q)
  BY <1>0, PushFacts DEF Routed, RoutedTo
<1>1. ASSUME NEW m \in pushes, PushStep(m) PROVE q.stage \in Stages /\ RoutedTo(q)
  <2>1. CASE pushes' = pushes \ {m}
    BY <1>0, <2>1
  <2>2. CASE pushes' = (pushes \ {m}) \cup {Again(m)} /\ m.pc = "call" /\ m.kind = "data"
    BY <1>0, <2>2, PushAgainOp, PushFacts DEF RoutedTo
  <2>3. CASE SendTuple(m)
    <3>1. PICK x \in PushRec, n \in 0 .. Len(ListOfPush(m)) - 1 :
           /\ pushes' = (pushes \ {m}) \cup {x} /\ x.stage = m.stage
           /\ x.vm = ListOfPush(m)[n + 1] /\ x.dest = n /\ m.kind = "data"
      BY <2>3, SendTupleOp
    <3>2. Len(ListOfPush(m)) \in Nat
      BY <3>1, RouteFacts DEF WorkerList
    <3>3. n + 1 \in 1 .. Len(ListOfPush(m)) /\ n + 1 - 1 = n
      BY <3>2
    <3>4. n \in DOMAIN GlobalTaskMap[m.stage] /\ x.vm = GlobalTaskMap[m.stage][n].vm
      BY <3>1, <3>3, PushListTrue DEF Initial
    <3>5. x.stage \in Stages /\ RoutedTo(x)
      BY <3>1, <3>4, PushFacts DEF RoutedTo
    <3> QED
      BY <1>0, <3>1, <3>5
  <2> QED
    BY <1>1, <2>1, <2>2, <2>3, PushSteps
<1>7. ASSUME NEW m \in pushes, PushGivenUp(m) PROVE q.stage \in Stages /\ RoutedTo(q)
  <2>1. PICK x \in PushRec :
          /\ pushes' = (pushes \ {m}) \cup {Again(m), x}
          /\ m.pc = "call" /\ x.stage = m.stage /\ x.vm = m.vm /\ x.dest = m.dest
    BY <1>7, PushGivenUpOp
  <2>2. m.stage \in Stages /\ RoutedTo(m) /\ m.kind \in {"data", "EOS"}
    BY PushFacts DEF Routed, RoutedTo
  <2>3. x.stage \in Stages /\ RoutedTo(x)
    BY <2>1, <2>2 DEF RoutedTo
  <2>4. CASE m.kind = "data"
    <3>1. Again(m).pc = "route" /\ Again(m).stage = m.stage
      BY <2>1, <2>4, PushAgainOp
    <3> QED
      BY <1>0, <2>1, <2>2, <2>3, <3>1 DEF RoutedTo
  <2>5. CASE m.kind # "data"
    BY <1>0, <2>1, <2>2, <2>3, <2>5 DEF Again
  <2> QED
    BY <2>4, <2>5
<1>2. ASSUME NEW o \in {Source} \cup Procs, NEW s \in Stages, NEW l, WorkerList(l), Initial(l, s),
             pushes' = pushes \cup EOSPushes(o, s, l)
      PROVE  q.stage \in Stages /\ RoutedTo(q)
  <2>1. CASE q \in EOSPushes(o, s, l)
    <3>1. /\ q.stage = s
          /\ \E n \in 1 .. Len(l) : q.vm = l[n] /\ q.dest = n - 1
      BY <1>2, <2>1, EOSFacts
    <3> QED
      BY <1>2, <3>1 DEF RoutedTo, Initial
  <2> QED
    BY <1>0, <1>2, <2>1
<1>3. CASE SourceEOS
  <2>1. pushes' = pushes \cup EOSPushes(Source, 1, SortedWorkers(1))
    BY <1>3 DEF SourceEOS
  <2>2. WorkerList(SortedWorkers(1)) /\ 1 \in Stages /\ Source \in {Source} \cup Procs
    BY ConstTypes, StageFacts
  <2> QED
    BY <1>2, <2>1, <2>2, CurrentInitial
<1>4. CASE SourceLine
  <2>1. PICK d, v : pushes' = pushes \cup {DataPush(Source, 1, d, v)}
    BY <1>4 DEF SourceLine
  <2> QED
    BY <1>0, <2>1, ConstTypes DEF DataPush, RoutedTo
<1>5. ASSUME NEW i \in 1 .. Len(task), HandleEOF(i) PROVE q.stage \in Stages /\ RoutedTo(q)
  <2>1. CASE pushes' = pushes
    BY <1>0, <2>1
  <2>2. CASE /\ task[i].stage < NumStages
             /\ pushes' = pushes \cup EOSPushes(i, task[i].stage + 1, task[i].DownstreamList)
    <3>1. /\ task[i].stage + 1 \in Stages /\ WorkerList(task[i].DownstreamList)
          /\ Initial(task[i].DownstreamList, task[i].stage + 1)
          /\ i \in {Source} \cup Procs
      BY <1>g, <2>2, TaskFields, PidRange, ConstTypes DEF ListsTrue, ListFor, Stages
    <3> QED
      BY <1>2, <2>2, <3>1
  <2> QED
    BY <1>5, <2>1, <2>2, HandleEOFOp
<1>6. ASSUME NEW i \in 1 .. Len(task), Operator(i) PROVE q.stage \in Stages /\ RoutedTo(q)
  <2>1. CASE pushes' = pushes
    BY <1>0, <2>1
  <2>2. CASE task[i].stage < NumStages /\ pushes' # pushes
    <3>1. PICK d, v : pushes' = pushes \cup {DataPush(i, task[i].stage + 1, d, v)}
      BY <1>6, <2>2, OperatorOp
    <3>2. task[i].stage + 1 \in Stages
      BY <1>g, <2>2, TaskFields, ConstTypes DEF Stages
    <3> QED
      BY <1>0, <3>1, <3>2 DEF DataPush, RoutedTo
  <2> QED
    BY <1>6, <2>1, <2>2, OperatorOp
<1> QED
  BY <1>0, <1>1, <1>3, <1>4, <1>5, <1>6, <1>7, <1>g, Frames DEF NodeFrame

-----------------------------------------------------------------------------
(* What the steps of a growing job do to the lines and to the ids.         *)

WorkStays(j) ==
  /\ task'[j].Stdin = task[j].Stdin /\ task'[j].ProcessedIDs = task[j].ProcessedIDs
  /\ task'[j].SeqNum = task[j].SeqNum

OthersStay(i) ==
  /\ Len(task') = Len(task)
  /\ \A j \in 1 .. Len(task) : j # i => WorkStays(j)

(* The calls for tuple m: it is routed or put back; it is answered as a    *)
(* duplicate, or a late call of it refused; or a call of it is given up.   *)
Reroutes(m, q) == Copies(q, m) /\ q.late = m.late /\ Data' = (Data \ {m}) \cup {q}
Ends(m) == Data' = Data \ {m} /\ (m.late > 0 \/ Accepted(m.id))
SentTwice(m, q, x) ==
  /\ Copies(q, m) /\ Copies(x, m) /\ q.late = 0 /\ unanswered' = unanswered + 1
  /\ Data' = (Data \ {m}) \cup {q, x}

Resends(m) == (\E q : Reroutes(m, q)) \/ Ends(m) \/ \E q, x : SentTwice(m, q, x)

Quiet ==
  /\ OthersStay(0) /\ output' = output /\ source'.seq = source.seq
  /\ Data' = Data \/ \E m \in Data : Resends(m)

(* The task that the scaler adds has nothing to do.                        *)
AddsIdle ==
  /\ Len(task') = Len(task) + 1 /\ \A j \in 1 .. Len(task) : WorkStays(j)
  /\ task'[Len(task) + 1].Stdin = <<>> /\ task'[Len(task) + 1].SeqNum = 0
  /\ task'[Len(task) + 1].ProcessedIDs = {}
  /\ output' = output /\ source' = source /\ Data' = Data

(* Task i takes tuple m.                                                   *)
Accepts(m, i) ==
  /\ OthersStay(i) /\ output' = output /\ source' = source /\ Data' = Data \ {m}
  /\ task'[i].Stdin = Append(task[i].Stdin, m.val)
  /\ task'[i].ProcessedIDs = task[i].ProcessedIDs \cup {m.id}
  /\ task'[i].SeqNum = task[i].SeqNum

(* A line goes through the operator of task i.                             *)
Works(i) ==
  /\ OthersStay(i) /\ source' = source /\ task[i].Stdin # <<>>
  /\ task'[i].Stdin = Tail(task[i].Stdin)
  /\ task'[i].ProcessedIDs = task[i].ProcessedIDs
  /\ task'[i].SeqNum = task[i].SeqNum + 1

Outputs(i) ==
  Works(i) /\ output' = Append(output, Head(task[i].Stdin)) /\ Data' = Data

Sends(i, e) ==
  /\ Works(i) /\ output' = output /\ Data' = Data \cup {e} /\ e.late = 0
  /\ e.id = <<task[i].stage, task[i].id, task[i].SeqNum + 1>>
  /\ e.val = Head(task[i].Stdin)

(* The source reads a line.                                                *)
Reads(e) ==
  /\ OthersStay(0) /\ output' = output /\ Data' = Data \cup {e} /\ e.late = 0
  /\ source'.seq = source.seq + 1 /\ source'.seq \in Lines
  /\ e.id = <<0, 0, source'.seq>> /\ e.val = source'.seq

(* What a step of a growing job does to the tuples and the lines.          *)
LEMMA TokenSteps ==
  ASSUME TypeInv, NoneRetired, [Next]_vars, Growing'
  PROVE  \/ Quiet \/ AddsIdle
         \/ \E m \in Data : PushTuple(m) /\ Target(m) \in 1 .. Len(task) /\ Accepts(m, Target(m))
         \/ \E i \in 1 .. Len(task) : Outputs(i) \/ \E e : Sends(i, e)
         \/ \E e : Reads(e)
<1>g. /\ Len(task) \in Nat /\ DOMAIN task = 1 .. Len(task)
      /\ source \in SourceRec
  BY DEF TypeInv, TasksTyped, SourceTyped
<1>b. ASSUME NEW i \in 1 .. Len(task), NEW pr, NEW pi, NEW eo, NEW h,
             TaskBecomes(i, pr, pi, task[i].Stdin, task[i].ProcessedIDs, task[i].SeqNum, eo, h)
      PROVE  OthersStay(0)
  BY <1>b DEF TaskBecomes, OthersStay, WorkStays, TasksStay
<1>c. ASSUME NEW i \in 1 .. Len(task), NEW pr, NEW pi, NEW x, NEW S, NEW n, NEW eo, NEW h,
             TaskBecomes(i, pr, pi, x, S, n, eo, h)
      PROVE  /\ OthersStay(i) /\ task'[i].Stdin = x /\ task'[i].ProcessedIDs = S
             /\ task'[i].SeqNum = n
  BY <1>c DEF TaskBecomes, OthersStay, WorkStays, TasksStay
<1>u. ASSUME UNCHANGED task PROVE OthersStay(0)
  BY <1>u DEF OthersStay, WorkStays
<1>q. ASSUME UNCHANGED <<task, pushes, output, source>> PROVE Quiet
  BY <1>q, <1>u DEF Quiet, Data
<1>1. ASSUME NEW i \in 1 .. Len(task), TaskStep(i)
      PROVE  Quiet \/ Outputs(i) \/ \E e : Sends(i, e)
  <2>1. CASE Operator(i)
    <3>1. /\ source' = source /\ task[i].Stdin # <<>>
          /\ TaskBecomes(i, task[i].proc, task[i].pipe, Tail(task[i].Stdin),
                         task[i].ProcessedIDs, task[i].SeqNum + 1, task[i].EOSCount,
                         task[i].handler)
      BY <2>1, OperatorOp DEF Operator
    <3>2. Works(i)
      BY <3>1, <1>c DEF Works
    <3>3. CASE output' = Append(output, Head(task[i].Stdin)) /\ pushes' = pushes
      BY <3>2, <3>3 DEF Outputs, Data
    <3>4. ASSUME NEW e, output' = output, pushes' = pushes \cup {e},
                 e = DataPush(i, task[i].stage + 1,
                       <<task[i].stage, task[i].id, task[i].SeqNum + 1>>, Head(task[i].Stdin))
          PROVE  Sends(i, e)
      <4>1. /\ e.kind = "data" /\ e.late = 0 /\ e.val = Head(task[i].Stdin)
            /\ e.id = <<task[i].stage, task[i].id, task[i].SeqNum + 1>>
        BY <3>4 DEF DataPush
      <4>2. Data' = Data \cup {e}
        BY <3>4, <4>1 DEF Data
      <4> QED
        BY <3>2, <3>4, <4>1, <4>2 DEF Sends
    <3> QED
      BY <2>1, <3>3, <3>4, OperatorOp
  <2>2. CASE OperatorExit(i)
    <3>1. OthersStay(0)
      BY <1>b, <2>2, OperatorExitOp
    <3> QED
      BY <2>2, <3>1 DEF OperatorExit, Quiet, Data, files
  <2>3. CASE HandleEOF(i)
    <3>1. OthersStay(0)
      BY <1>b, <2>3, HandleEOFOp
    <3>2. Data' = Data
      <4>1. CASE pushes' = pushes
        BY <4>1 DEF Data
      <4>2. CASE pushes' = pushes \cup EOSPushes(i, task[i].stage + 1, task[i].DownstreamList)
        BY <4>2 DEF Data, EOSPushes
      <4> QED
        BY <2>3, <4>1, <4>2, HandleEOFOp
    <3> QED
      BY <2>3, <3>1, <3>2 DEF HandleEOF, Quiet, files
  <2>4. CASE HandleEOSSent(i)
    <3>1. OthersStay(0)
      BY <1>b, <2>4, HandleEOSSentOp
    <3> QED
      BY <2>4, <3>1 DEF HandleEOSSent, Quiet, Data, files
  <2> QED
    BY <1>1, <2>1, <2>2, <2>3, <2>4 DEF TaskStep
<1>2. CASE SourceLine
  <2>1. PICK n : n = source.seq + 1
    OBVIOUS
  <2>2. PICK e : e = DataPush(Source, 1, <<0, 0, n>>, n)
    OBVIOUS
  <2>3. /\ n <= NumLines /\ source' = [source EXCEPT !.seq = n]
        /\ pushes' = pushes \cup {e} /\ UNCHANGED <<task, output>>
    BY <1>2, <2>1, <2>2 DEF SourceLine, files
  <2>4. source'.seq = n /\ n \in Lines
    BY <1>g, <2>1, <2>3, ConstTypes DEF Lines, SourceRec
  <2>5. e.kind = "data" /\ e.late = 0 /\ e.id = <<0, 0, n>> /\ e.val = n
    BY <2>2 DEF DataPush
  <2>6. Data' = Data \cup {e}
    BY <2>3, <2>5 DEF Data
  <2>7. Reads(e)
    BY <1>u, <2>1, <2>3, <2>4, <2>5, <2>6 DEF Reads
  <2> QED
    BY <2>7
<1>3. CASE SourceStops
  <2>1. source'.seq = source.seq
    BY <1>3, <1>g DEF SourceStops, SourceRec
  <2> QED
    BY <1>3, <1>u, <2>1 DEF SourceStops, Quiet, Data, files
<1>4. CASE SourceEOS
  <2>1. source'.seq = source.seq
    BY <1>4, <1>g DEF SourceEOS, SourceRec
  <2>2. Data' = Data
    BY <1>4 DEF SourceEOS, Data, EOSPushes
  <2> QED
    BY <1>4, <1>u, <2>1, <2>2 DEF SourceEOS, Quiet, files
<1>r. ASSUME NEW m \in Data, Resends(m), UNCHANGED <<task, output, source>> PROVE Quiet
  BY <1>r, <1>u DEF Quiet
<1>a. ASSUME NEW m \in pushes, m.pc = "call", m.kind = "data"
      PROVE  m \in Data /\ \E q : q = Again(m) /\ q.kind = "data" /\ q.late = m.late /\ Copies(q, m)
  BY <1>a, PushAgainOp DEF Data, Copies
<1>5. ASSUME NEW m \in pushes, PushStep(m)
      PROVE  \/ Quiet
             \/ m \in Data /\ PushTuple(m) /\ Target(m) \in 1 .. Len(task) /\ Accepts(m, Target(m))
  <2>1. CASE SendTuple(m)
    <3>1. PICK q \in PushRec :
           /\ pushes' = (pushes \ {m}) \cup {q} /\ m.kind = "data" /\ q.late = m.late
           /\ q.kind = "data" /\ q.id = m.id /\ q.org = m.org /\ q.stage = m.stage /\ q.val = m.val
      BY <2>1, SendTupleOp
    <3>2. m \in Data /\ Reroutes(m, q)
      BY <3>1 DEF Data, Reroutes, Copies
    <3> QED
      BY <1>r, <2>1, <3>2 DEF SendTuple, Resends, files
  <2>2. CASE PushNotFound(m) \/ PushWriteFails(m)
    <3>1. /\ Refuse(m) /\ m.kind = "data" /\ m.pc = "call"
          /\ UNCHANGED <<task, output, source>>
      BY <2>2 DEF PushNotFound, PushWriteFails, Fresh, files
    <3>2. m \in Data /\ m.late \in Nat
      BY <3>1, PushFacts DEF Data
    <3>3. PICK q : q = Again(m) /\ q.kind = "data" /\ q.late = m.late /\ Copies(q, m)
      BY <1>a, <3>1
    <3>4. CASE m.late = 0
      <4>1. pushes' = (pushes \ {m}) \cup {q}
        BY <3>1, <3>3, <3>4 DEF Refuse
      <4>2. Reroutes(m, q)
        BY <3>2, <3>3, <4>1 DEF Data, Reroutes
      <4> QED
        BY <1>r, <3>1, <3>2, <4>2 DEF Resends
    <3>5. CASE m.late > 0
      <4>1. pushes' = pushes \ {m}
        BY <3>1, <3>5 DEF Refuse
      <4>2. Ends(m)
        BY <3>5, <4>1 DEF Data, Ends
      <4> QED
        BY <1>r, <3>1, <3>2, <4>2 DEF Resends
    <3> QED
      BY <3>2, <3>4, <3>5
  <2>3. CASE PushEOS(m)
    <3>1. OthersStay(0) /\ pushes' = pushes \ {m} /\ m.kind = "EOS"
      BY <1>b, <2>3, PushEOSOp
    <3>2. Data' = Data
      BY <3>1 DEF Data
    <3> QED
      BY <2>3, <3>1, <3>2 DEF PushEOS, Quiet, files
  <2>4. CASE PushDuplicate(m)
    <3>1. m \in Data /\ Target(m) \in 1 .. Len(task) /\ m.id \in task[Target(m)].ProcessedIDs
      BY <1>g, <2>4, PushFacts DEF PushDuplicate, Data
    <3>2. pushes' = pushes \ {m} /\ UNCHANGED <<task, output, source>>
      BY <2>4 DEF PushDuplicate, Answer, files
    <3>3. Ends(m)
      BY <3>1, <3>2 DEF Ends, Accepted, Data
    <3> QED
      BY <1>r, <3>1, <3>2, <3>3 DEF Resends
  <2>5. CASE PushTuple(m)
    <3>1. PICK i : i = Target(m)
      OBVIOUS
    <3>2. /\ Fresh(m) /\ pushes' = pushes \ {m}
          /\ TaskBecomes(i, task[i].proc, task[i].pipe, Append(task[i].Stdin, m.val),
                        task[i].ProcessedIDs \cup {m.id}, task[i].SeqNum,
                        task[i].EOSCount, task[i].handler)
      BY <2>5, <3>1, PushTupleOp
    <3>3. m \in Data /\ i \in 1 .. Len(task)
      BY <3>1, <3>2, FreshFacts DEF Data
    <3>4. Data' = Data \ {m}
      BY <3>2 DEF Data
    <3>5. /\ OthersStay(i) /\ task'[i].Stdin = Append(task[i].Stdin, m.val)
          /\ task'[i].ProcessedIDs = task[i].ProcessedIDs \cup {m.id}
          /\ task'[i].SeqNum = task[i].SeqNum
      BY <3>2, <3>3 DEF TaskBecomes, OthersStay, WorkStays, TasksStay
    <3>6. UNCHANGED <<output, source>>
      BY <2>5 DEF PushTuple
    <3> QED
      BY <2>5, <3>1, <3>3, <3>4, <3>5, <3>6 DEF Accepts
  <2> QED
    BY <1>5, <2>1, <2>2, <2>3, <2>4, <2>5 DEF PushStep
<1>9. ASSUME NEW m \in pushes, PushGivenUp(m) PROVE Quiet
  <2>1. PICK x \in PushRec :
          /\ pushes' = (pushes \ {m}) \cup {Again(m), x} /\ m.pc = "call" /\ m.late = 0
          /\ x.kind = m.kind /\ Copies(x, m) /\ unanswered' = unanswered + 1
    BY <1>9, PushGivenUpOp DEF Copies
  <2>2. UNCHANGED <<task, output, source>>
    BY <1>9 DEF PushGivenUp, files
  <2>3. CASE m.kind = "data"
    <3>1. PICK q : q = Again(m) /\ q.kind = "data" /\ q.late = m.late /\ Copies(q, m)
      BY <1>a, <2>1, <2>3
    <3>2. m \in Data /\ SentTwice(m, q, x)
      BY <2>1, <2>3, <3>1 DEF Data, SentTwice
    <3> QED
      BY <1>r, <2>2, <3>2 DEF Resends
  <2>4. CASE m.kind # "data"
    <3>1. Data' = Data
      BY <2>1, <2>4 DEF Data, Again
    <3> QED
      BY <1>u, <2>2, <3>1 DEF Quiet
  <2> QED
    BY <2>3, <2>4
<1>6. ASSUME NEW c \in calls, Handle(c) \/ CallLost(c) PROVE Quiet
  <2>1. CASE UpdateDownstream(c)
    <3>1. OthersStay(0)
      BY <2>1, UpdateDownstreamOp DEF OthersStay, WorkStays, SameWork, TasksStay
    <3> QED
      BY <2>1, <3>1 DEF UpdateDownstream, Quiet, Data, files
  <2>2. CASE UpdateUpstream(c)
    <3>1. OthersStay(0)
      BY <2>2, UpdateUpstreamOp DEF OthersStay, WorkStays, SameWork, TasksStay
    <3> QED
      BY <2>2, <3>1 DEF UpdateUpstream, Quiet, Data, files
  <2>3. CASE CallLost(c)
    BY <1>q, <2>3 DEF CallLost, files
  <2> QED
    BY <1>6, <2>1, <2>2, <2>3, GrowSteps DEF Handle
<1>7. CASE Scaler
  <2>1. ASSUME NEW s \in Stages, ScaleUpStart(s) PROVE AddsIdle
    <3>1. /\ Starts(s, NewId(s), LeastLoadedWorker, Len(task) + 1, Downstreams(s))
          /\ UNCHANGED <<output, pushes, source>>
      BY <2>1, ScaleUpStartOp DEF ScaleUpStart
    <3> QED
      BY <3>1 DEF Starts, AddsIdle, WorkStays, Data
  <2>2. CASE ScaleUpMap \/ BroadcastUpstream \/ ScalerStops
    BY <1>q, <2>2 DEF ScaleUpMap, BroadcastUpstream, ScalerStops, files
  <2> QED
    BY <1>7, <2>1, <2>2, GrowingBefore DEF Scaler, Removes
<1>8. CASE UNCHANGED vars \/ (\E i \in DOMAIN task : UpdateRate(i)) \/ (\E c \in rates : StoreRate(c))
           \/ (\E r \in reports : TaskFinished(r))
  BY <1>8, <1>q DEF vars, UpdateRate, StoreRate, TaskFinished, files
<1> QED
  BY <1>1, <1>2, <1>3, <1>4, <1>5, <1>6, <1>7, <1>8, <1>9, <1>g, GrowSteps, GrowingBefore
  DEF Next, Restarts

-----------------------------------------------------------------------------
(* A tuple reaches the task that the map has for its key.                  *)
LEMMA TargetMapped ==
  ASSUME TypeInv, MapRegistered, Routed, NEW m \in pushes, m.pc = "call"
  PROVE  /\ Target(m) \in 1 .. Len(task) /\ InMap(Target(m))
         /\ Target(m) = GlobalTaskMap[m.stage][m.dest].PID
<1>1. m.stage \in Stages /\ m.dest \in DOMAIN GlobalTaskMap[m.stage]
  BY PushFacts DEF Routed
<1>2. PICK e : e = GlobalTaskMap[m.stage][m.dest]
  OBVIOUS
<1>3. Runs(m.stage, m.dest, e.PID, e.vm) /\ m.vm = e.vm
  BY <1>1, <1>2 DEF MapRegistered, Routed
<1>4. Target(m) = e.PID /\ task[e.PID].stage = m.stage /\ task[e.PID].id = m.dest
  BY <1>3 DEF Runs, Target
<1>5. InfoFits(e, m.stage)
  BY <1>1, <1>2 DEF TypeInv, MapTyped
<1>6. e.PID \in 1 .. Len(task)
  BY <1>5 DEF InfoFits, InfoRec, Procs, TypeInv, TasksTyped
<1> QED
  BY <1>1, <1>2, <1>4, <1>6 DEF InMap

(* The map keeps its processes.                                            *)
LEMMA MappedStays ==
  ASSUME TypeInv, NoneRetired, [Next]_vars, Growing', NEW i \in 1 .. Len(task), InMap(i)
  PROVE  InMap(i)'
<1>1. EntriesStay /\ SameTask(i) /\ task[i].stage \in Stages
  BY EntriesKept, NextTasks, TaskFields DEF TypeInv, TasksGrow
<1>2. PICK s \in Stages, t \in {task[i].id} : s = task[i].stage /\ t = task[i].id
  BY <1>1
<1>3. t \in DOMAIN GlobalTaskMap[s] /\ GlobalTaskMap[s][t].PID = i
  BY <1>2 DEF InMap
<1>4. t \in DOMAIN GlobalTaskMap'[s] /\ GlobalTaskMap'[s][t].PID = i
  BY <1>1, <1>3 DEF EntriesStay
<1>5. task'[i].stage = s /\ task'[i].id = t
  BY <1>1, <1>2 DEF SameTask
<1> QED
  BY <1>4, <1>5 DEF InMap

(* Every step of a growing job keeps OnlyMapped.                           *)
LEMMA NextOnlyMapped ==
  ASSUME TypeInv, NoneRetired, MapRegistered, Routed, OnlyMapped, [Next]_vars, Growing'
  PROVE  OnlyMapped'
<1>g. Len(task) \in Nat
  BY DEF TypeInv, TasksTyped
<1> SUFFICES ASSUME NEW j \in 1 .. Len(task') PROVE (Idle(j) \/ InMap(j))'
  BY DEF OnlyMapped
<1>0. ASSUME j \in 1 .. Len(task), WorkStays(j) \/ InMap(j) PROVE (Idle(j) \/ InMap(j))'
  <2>1. CASE InMap(j)
    BY <1>0, <2>1, MappedStays
  <2>2. CASE Idle(j) /\ WorkStays(j)
    BY <2>2 DEF Idle, WorkStays
  <2> QED
    BY <1>0, <2>1, <2>2 DEF OnlyMapped
<1>1. CASE Quiet
  BY <1>0, <1>1, <1>g DEF Quiet, OthersStay
<1>2. CASE AddsIdle
  <2>1. CASE j \in 1 .. Len(task)
    BY <1>0, <1>2, <2>1 DEF AddsIdle
  <2>2. CASE j = Len(task) + 1
    BY <1>2, <2>2 DEF AddsIdle, Idle
  <2> QED
    BY <1>2, <1>g, <2>1, <2>2 DEF AddsIdle
<1>3. ASSUME NEW m \in Data, PushTuple(m), Accepts(m, Target(m))
      PROVE  (Idle(j) \/ InMap(j))'
  <2>1. m \in pushes /\ m.pc = "call"
    BY <1>3 DEF Data, PushTuple, Fresh
  <2>2. InMap(Target(m))
    BY <2>1, TargetMapped
  <2> QED
    BY <1>0, <1>3, <2>2 DEF Accepts, OthersStay
<1>4. ASSUME NEW i \in 1 .. Len(task), Works(i) PROVE (Idle(j) \/ InMap(j))'
  <2>1. InMap(i)
    BY <1>4 DEF OnlyMapped, Idle, Works
  <2> QED
    BY <1>0, <1>4, <2>1 DEF Works, OthersStay
<1>5. ASSUME NEW e, Reads(e) PROVE (Idle(j) \/ InMap(j))'
  BY <1>0, <1>5, <1>g DEF Reads, OthersStay
<1> QED
  BY <1>1, <1>2, <1>3, <1>4, <1>5, TokenSteps DEF Outputs, Sends

(* Every step of a growing job keeps GrowInv.                              *)
LEMMA NextGrow ==
  TypeInv /\ RouteInv /\ GrowInv /\ [Next]_vars => GrowInv'
<1> SUFFICES ASSUME TypeInv, RouteInv, GrowInv, [Next]_vars, Growing'
             PROVE  (NoneRetired /\ MapRegistered /\ ListsTrue /\ Routed /\ OnlyMapped)'
  BY DEF GrowInv
<1>1. NoneRetired /\ MapRegistered /\ ListsTrue /\ Routed /\ OnlyMapped
  BY GrowingBefore DEF GrowInv
<1>2. NoneRetired'
  BY <1>1, NextRetired
<1>3. MapRegistered'
  BY <1>1, NextMapRegistered
<1>4. ListsTrue'
  BY <1>1, NextLists
<1>5. Routed'
  BY <1>1, NextRouted
<1>6. OnlyMapped'
  BY <1>1, NextOnlyMapped
<1> QED
  BY <1>2, <1>3, <1>4, <1>5, <1>6

(* Initially the map has every process, and the lists are the plan.        *)
LEMMA InitGrow == Init => GrowInv
<1> SUFFICES ASSUME Init PROVE NoneRetired /\ MapRegistered /\ ListsTrue /\ Routed /\ OnlyMapped
  BY DEF GrowInv
<1>t. Len(task) = NumStages * NumTasks
  BY InitTasks
<1>1. NoneRetired
  BY DEF Init, NoneRetired
<1>p. ASSUME NEW s \in Stages, NEW t \in 0 .. NumTasks - 1
      PROVE  /\ PlanPID(s, t) \in 1 .. Len(task) /\ task[PlanPID(s, t)].stage = s
             /\ task[PlanPID(s, t)].id = t /\ task[PlanPID(s, t)].vm = PlanVM(s, t)
  <2>1. PICK i : i = PlanPID(s, t)
    OBVIOUS
  <2>2. i \in 1 .. Len(task) /\ (i - 1) \div NumTasks + 1 = s /\ (i - 1) % NumTasks = t
    BY <1>t, <2>1, PlanFacts
  <2>3. PICK r \in Stages, u \in 0 .. NumTasks - 1 :
          /\ i = PlanPID(r, u) /\ task[i].stage = r /\ task[i].id = u
          /\ task[i].vm = PlanVM(r, u)
    BY <2>2, InitTasks
  <2>4. r = s /\ u = t
    BY <2>2, <2>3, PlanFacts
  <2> QED
    BY <2>1, <2>2, <2>3, <2>4
<1>2. MapRegistered
  <2>1. ASSUME NEW s \in Stages, NEW t \in DOMAIN GlobalTaskMap[s]
        PROVE  Runs(s, t, GlobalTaskMap[s][t].PID, GlobalTaskMap[s][t].vm)
    <3>1. t \in 0 .. NumTasks - 1
      BY InitMap
    <3>2. /\ GlobalTaskMap[s][t].vm = PlanVM(s, t) /\ GlobalTaskMap[s][t].PID = PlanPID(s, t)
          /\ rsTasks[PlanVM(s, t)][<<s, t>>] = PlanPID(s, t)
      BY <3>1, InitMap
    <3> QED
      BY <1>p, <3>1, <3>2 DEF Runs
  <2>2. scaler.pc # "map"
    BY DEF Init
  <2> QED
    BY <2>1, <2>2 DEF MapRegistered
<1>3. ListsTrue
  <2> SUFFICES ASSUME NEW i \in 1 .. Len(task), task[i].stage < NumStages
               PROVE  Initial(task[i].DownstreamList, task[i].stage + 1)
    BY DEF ListsTrue
  <2>1. PICK s \in Stages : task[i].stage = s /\ task[i].DownstreamList = Plan(s + 1)
    BY InitTasks
  <2>2. /\ s + 1 \in Stages /\ Len(Plan(s + 1)) = NumTasks
        /\ \A n \in 1 .. NumTasks : Plan(s + 1)[n] = PlanVM(s + 1, n - 1)
    BY <2>1, PlanList
  <2>3. \A n \in 1 .. NumTasks : n - 1 \in 0 .. NumTasks - 1
    BY ConstTypes
  <2>4. \A n \in 1 .. NumTasks : /\ n - 1 \in DOMAIN GlobalTaskMap[s + 1]
                                 /\ GlobalTaskMap[s + 1][n - 1].vm = PlanVM(s + 1, n - 1)
    BY <2>2, <2>3, InitMap
  <2> QED
    BY <2>1, <2>2, <2>4 DEF Initial
<1>4. Routed
  BY DEF Init, Routed
<1>5. OnlyMapped
  BY InitTasks DEF OnlyMapped, Idle
<1> QED
  BY <1>1, <1>2, <1>3, <1>4, <1>5

-----------------------------------------------------------------------------
(* An id that was issued stays issued.                                     *)
LEMMA IssuedStays ==
  ASSUME TypeInv, NoneRetired, [Next]_vars, Growing', NEW d \in MsgIds, Issued(d)
  PROVE  Issued(d)'
<1>g. Len(task) \in Nat /\ d[3] \in Nat /\ source.seq \in Nat /\ EntriesStay
  <2>1. Len(task) \in Nat
    BY DEF TypeInv, TasksTyped
  <2>2. d[3] \in Nat
    BY DEF MsgIds
  <2>3. source.seq \in Nat
    BY ConstTypes DEF TypeInv, SourceTyped, SourceRec
  <2>4. EntriesStay
    BY EntriesKept
  <2> QED
    BY <2>1, <2>2, <2>3, <2>4
<1>t. \A i \in 1 .. Len(task) : task[i].SeqNum \in Nat
  BY TaskFields DEF TypeInv
<1>1. /\ source'.seq = source.seq \/ source'.seq = source.seq + 1
      /\ \A i \in 1 .. Len(task) :
           task'[i].SeqNum = task[i].SeqNum \/ task'[i].SeqNum = task[i].SeqNum + 1
  <2>1. CASE Quiet
    BY <1>g, <2>1 DEF Quiet, OthersStay, WorkStays
  <2>2. CASE AddsIdle
    BY <2>2 DEF AddsIdle, WorkStays
  <2>3. ASSUME NEW m, NEW i, Accepts(m, i)
        PROVE  /\ source'.seq = source.seq
               /\ \A j \in 1 .. Len(task) : task'[j].SeqNum = task[j].SeqNum
    BY <2>3 DEF Accepts, OthersStay, WorkStays
  <2>4. ASSUME NEW i, Works(i)
        PROVE  /\ source'.seq = source.seq
               /\ \A j \in 1 .. Len(task) :
                    task'[j].SeqNum = task[j].SeqNum \/ task'[j].SeqNum = task[j].SeqNum + 1
    BY <2>4 DEF Works, OthersStay, WorkStays
  <2>5. ASSUME NEW e, Reads(e)
        PROVE  /\ source'.seq = source.seq + 1
               /\ \A j \in 1 .. Len(task) : task'[j].SeqNum = task[j].SeqNum
    BY <2>5, <1>g DEF Reads, OthersStay, WorkStays
  <2> QED
    BY <2>1, <2>2, <2>3, <2>4, <2>5, TokenSteps DEF Outputs, Sends
<1>2. CASE d[1] = 0 /\ d[3] <= source.seq
  <2>1. d[3] <= source'.seq
    BY <1>1, <1>2, <1>g
  <2> QED
    BY <1>2, <2>1 DEF Issued
<1>3. CASE /\ d[1] \in Stages /\ d[2] \in DOMAIN GlobalTaskMap[d[1]]
           /\ d[3] <= task[GlobalTaskMap[d[1]][d[2]].PID].SeqNum
  <2>1. PICK i : i = GlobalTaskMap[d[1]][d[2]].PID
    OBVIOUS
  <2>2. InfoFits(GlobalTaskMap[d[1]][d[2]], d[1])
    BY <1>3 DEF TypeInv, MapTyped
  <2>3. i \in 1 .. Len(task)
    BY <1>g, <2>1, <2>2 DEF InfoFits, InfoRec, Procs
  <2>4. d[2] \in DOMAIN GlobalTaskMap'[d[1]] /\ GlobalTaskMap'[d[1]][d[2]].PID = i
    BY <1>3, <1>g, <2>1 DEF EntriesStay
  <2>5. d[3] <= task'[i].SeqNum
    <3>1. PICK a \in Nat : a = task[i].SeqNum
      BY <1>t, <2>3
    <3>2. task'[i].SeqNum = a \/ task'[i].SeqNum = a + 1
      BY <1>1, <2>3, <3>1
    <3>3. d[3] <= a
      BY <1>3, <2>1, <3>1
    <3> QED
      BY <1>g, <3>2, <3>3
  <2> QED
    BY <1>3, <2>4, <2>5 DEF Issued
<1> QED
  BY <1>2, <1>3 DEF Issued

(* A new id was not issued before, and is now.                             *)
LEMMA NewIdsIssued ==
  ASSUME TypeInv, NoneRetired, OnlyMapped, [Next]_vars, Growing'
  PROVE  /\ \A i \in 1 .. Len(task) : \A e : Sends(i, e) => ~Issued(e.id) /\ Issued(e.id)'
         /\ \A e : Reads(e) => ~Issued(e.id) /\ Issued(e.id)'
<1>s. 0 \notin Stages /\ source.seq \in Nat
  BY ConstTypes DEF Stages, TypeInv, SourceTyped, SourceRec
<1>1. ASSUME NEW i \in 1 .. Len(task), NEW e, Sends(i, e)
      PROVE  ~Issued(e.id) /\ Issued(e.id)'
  <2>1. PICK s \in Stages, t \in Ids, n \in Nat :
          s = task[i].stage /\ t = task[i].id /\ n = task[i].SeqNum
    BY TaskFields DEF TypeInv
  <2>2. PICK d : d = <<s, t, n + 1>> /\ e.id = d
    BY <1>1, <2>1 DEF Sends
  <2>3. d[1] = s /\ d[2] = t /\ d[3] = n + 1 /\ s # 0
    BY <1>s, <2>2
  <2>4. InMap(i)
    BY <1>1 DEF OnlyMapped, Idle, Sends, Works
  <2>5. t \in DOMAIN GlobalTaskMap[s] /\ GlobalTaskMap[s][t].PID = i
    BY <2>1, <2>4 DEF InMap
  <2>6. ~Issued(d)
    <3>1. ~(n + 1 <= task[i].SeqNum)
      BY <2>1
    <3> QED
      BY <2>3, <2>5, <3>1 DEF Issued
  <2>7. Issued(d)'
    <3>1. task'[i].SeqNum = n + 1
      BY <1>1, <2>1 DEF Sends, Works
    <3>2. t \in DOMAIN GlobalTaskMap'[s] /\ GlobalTaskMap'[s][t].PID = i
      BY <2>5, EntriesKept DEF EntriesStay
    <3>3. n + 1 <= task'[i].SeqNum
      BY <3>1
    <3> QED
      BY <2>3, <3>2, <3>3 DEF Issued
  <2>8. ~Issued(e.id)
    BY <2>2, <2>6
  <2>9. Issued(e.id)'
    BY <2>2, <2>7 DEF Issued
  <2> QED
    BY <2>8, <2>9
<1>2. ASSUME NEW e, Reads(e) PROVE ~Issued(e.id) /\ Issued(e.id)'
  <2>1. PICK n \in Nat : n = source.seq
    BY <1>s
  <2>2. PICK d : d = <<0, 0, n + 1>> /\ e.id = d /\ source'.seq = n + 1
    BY <1>2, <2>1 DEF Reads
  <2>3. d[1] = 0 /\ d[3] = n + 1
    BY <2>2
  <2>4. ~(n + 1 <= source.seq) /\ n + 1 <= source'.seq
    BY <2>1, <2>2
  <2>5. ~Issued(d)
    BY <1>s, <2>3, <2>4 DEF Issued
  <2>6. Issued(d)'
    BY <2>3, <2>4 DEF Issued
  <2> QED
    BY <2>2, <2>5, <2>6 DEF Issued
<1> QED
  BY <1>1, <1>2

(* What a step that accepts no tuple leaves accepted.                      *)
LEMMA AcceptedKept ==
  ASSUME Len(task) \in Nat,
         \A j \in 1 .. Len(task) : task'[j].ProcessedIDs = task[j].ProcessedIDs,
         \/ Len(task') = Len(task)
         \/ Len(task') = Len(task) + 1 /\ task'[Len(task) + 1].ProcessedIDs = {}
  PROVE  \A d : Accepted(d)' <=> Accepted(d)
<1>1. \A j \in 1 .. Len(task') : \/ j \in 1 .. Len(task) /\ task'[j].ProcessedIDs = task[j].ProcessedIDs
                                 \/ task'[j].ProcessedIDs = {}
  OBVIOUS
<1>2. \A j \in 1 .. Len(task) : j \in 1 .. Len(task')
  OBVIOUS
<1> QED
  BY <1>1, <1>2 DEF Accepted

(* What the steps accept.                                                  *)
LEMMA AcceptedSteps ==
  ASSUME Len(task) \in Nat
  PROVE  /\ Quiet \/ AddsIdle => \A d : Accepted(d)' <=> Accepted(d)
         /\ \A i \in 1 .. Len(task) : Works(i) => \A d : Accepted(d)' <=> Accepted(d)
         /\ \A e : Reads(e) => \A d : Accepted(d)' <=> Accepted(d)
         /\ \A m : \A i \in 1 .. Len(task) : Accepts(m, i) =>
              \A d : Accepted(d)' <=> Accepted(d) \/ d = m.id
<1>0. 0 \notin 1 .. Len(task)
  OBVIOUS
<1>1. OthersStay(0) => \A d : Accepted(d)' <=> Accepted(d)
  BY <1>0, AcceptedKept DEF OthersStay, WorkStays
<1>2. AddsIdle => \A d : Accepted(d)' <=> Accepted(d)
  BY AcceptedKept DEF AddsIdle, WorkStays
<1>3. ASSUME NEW i \in 1 .. Len(task), Works(i) PROVE \A d : Accepted(d)' <=> Accepted(d)
  BY <1>3, AcceptedKept DEF Works, OthersStay, WorkStays
<1>4. ASSUME NEW i \in 1 .. Len(task), NEW m, Accepts(m, i)
      PROVE  \A d : Accepted(d)' <=> Accepted(d) \/ d = m.id
  <2>1. /\ Len(task') = Len(task) /\ task'[i].ProcessedIDs = task[i].ProcessedIDs \cup {m.id}
        /\ \A j \in 1 .. Len(task) : j # i => task'[j].ProcessedIDs = task[j].ProcessedIDs
    BY <1>4 DEF Accepts, OthersStay, WorkStays
  <2> QED
    BY <2>1 DEF Accepted
<1> QED
  BY <1>1, <1>2, <1>3, <1>4 DEF Quiet, Reads

(* Every id that is in use after a step was in use before, or is new.      *)
LEMMA IdsUsed ==
  ASSUME Len(task) \in Nat,
         \/ Quiet \/ AddsIdle
         \/ \E m \in Data, i \in 1 .. Len(task) : Accepts(m, i)
         \/ \E i \in 1 .. Len(task) : Outputs(i)
  PROVE  /\ \A q \in Data' : \E m \in Data : Copies(q, m)
         /\ \A d : Accepted(d)' => Accepted(d) \/ \E m \in Data : d = m.id
<1>0. \A m : Copies(m, m)
  BY DEF Copies
<1>1. CASE Quiet
  <2>1. ASSUME NEW m \in Data, Resends(m) PROVE \A q \in Data' : \E n \in Data : Copies(q, n)
    BY <1>0, <2>1 DEF Resends, Reroutes, Ends, SentTwice
  <2> QED
    BY <1>0, <1>1, <2>1, AcceptedSteps DEF Quiet
<1>2. CASE AddsIdle
  BY <1>0, <1>2, AcceptedSteps DEF AddsIdle
<1>3. ASSUME NEW m \in Data, NEW i \in 1 .. Len(task), Accepts(m, i)
      PROVE  /\ \A q \in Data' : \E n \in Data : Copies(q, n)
             /\ \A d : Accepted(d)' => Accepted(d) \/ \E n \in Data : d = n.id
  <2>1. Data' \subseteq Data
    BY <1>3 DEF Accepts
  <2> QED
    BY <1>0, <1>3, <2>1, AcceptedSteps
<1>4. ASSUME NEW i \in 1 .. Len(task), Outputs(i)
      PROVE  /\ \A q \in Data' : \E n \in Data : Copies(q, n)
             /\ \A d : Accepted(d)' => Accepted(d) \/ \E n \in Data : d = n.id
  BY <1>0, <1>4, AcceptedSteps DEF Outputs
<1> QED
  BY <1>1, <1>2, <1>3, <1>4

(* A new tuple: its id was in use nowhere, and is issued now.              *)
NewTuple(e) ==
  /\ Data' = Data \cup {e} /\ e.late = 0 /\ ~Accepted(e.id) /\ Issued(e.id)'
  /\ \A m \in Data : m.id # e.id
  /\ \A d : Accepted(d)' <=> Accepted(d)

(* What the task of a line sends on, and what the source reads, is new.    *)
LEMMA NewTuples ==
  ASSUME TypeInv, NoneRetired, OnlyMapped, IdsIssued, [Next]_vars, Growing'
  PROVE  /\ \A i \in 1 .. Len(task) : \A e : Sends(i, e) => NewTuple(e)
         /\ \A e : Reads(e) => NewTuple(e)
<1>g. Len(task) \in Nat
  BY DEF TypeInv, TasksTyped
<1>1. ASSUME NEW e, ~Issued(e.id)
      PROVE  ~Accepted(e.id) /\ \A m \in Data : m.id # e.id
  BY <1>1 DEF IdsIssued, Accepted
<1>2. ASSUME NEW i \in 1 .. Len(task), NEW e, Sends(i, e) PROVE NewTuple(e)
  <2>1. ~Issued(e.id) /\ Issued(e.id)'
    BY <1>2, NewIdsIssued
  <2>2. Data' = Data \cup {e} /\ e.late = 0 /\ \A d : Accepted(d)' <=> Accepted(d)
    BY <1>2, <1>g, AcceptedSteps DEF Sends
  <2> QED
    BY <1>1, <2>1, <2>2 DEF NewTuple
<1>3. ASSUME NEW e, Reads(e) PROVE NewTuple(e)
  <2>1. ~Issued(e.id) /\ Issued(e.id)'
    BY <1>3, NewIdsIssued
  <2>2. Data' = Data \cup {e} /\ e.late = 0 /\ \A d : Accepted(d)' <=> Accepted(d)
    BY <1>3, <1>g, AcceptedSteps DEF Reads
  <2> QED
    BY <1>1, <2>1, <2>2 DEF NewTuple
<1> QED
  BY <1>2, <1>3

(* Every step of a growing job keeps IdsIssued and IdsAgree.               *)
LEMMA NextIdsAgree ==
  ASSUME TypeInv, NoneRetired, OnlyMapped, IdsIssued, IdsAgree, [Next]_vars, Growing'
  PROVE  IdsIssued' /\ IdsAgree'
<1>g. Len(task) \in Nat
  BY DEF TypeInv, TasksTyped
<1>t. /\ \A m \in Data : m.id \in MsgIds
      /\ \A i \in 1 .. Len(task) : task[i].ProcessedIDs \subseteq MsgIds
  BY PushFacts, TaskFields DEF Data, TypeInv
<1>i. /\ \A m \in Data : Issued(m.id)'
      /\ \A d : Accepted(d) => Issued(d)'
  BY <1>t, IssuedStays DEF IdsIssued, Accepted
<1>d. SUFFICES /\ \A q \in Data' : Issued(q.id)'
               /\ \A d : Accepted(d)' => Issued(d)'
               /\ \A q, x \in Data' : q.id = x.id => Copies(q, x)
  BY DEF IdsIssued, IdsAgree, Accepted
<1>1. ASSUME \A q \in Data' : \E m \in Data : Copies(q, m),
             \A d : Accepted(d)' => Accepted(d) \/ \E m \in Data : d = m.id
      PROVE  /\ \A q \in Data' : Issued(q.id)'
             /\ \A d : Accepted(d)' => Issued(d)'
             /\ \A q, x \in Data' : q.id = x.id => Copies(q, x)
  <2>1. ASSUME NEW q \in Data' PROVE Issued(q.id)'
    <3>1. PICK m \in Data : q.id = m.id
      BY <1>1 DEF Copies
    <3> QED
      BY <1>i, <3>1 DEF Issued
  <2>2. ASSUME NEW d, Accepted(d)' PROVE Issued(d)'
    <3>1. CASE Accepted(d)
      BY <1>i, <3>1
    <3>2. ASSUME NEW m \in Data, d = m.id PROVE Issued(d)'
      BY <1>i, <3>2 DEF Issued
    <3> QED
      BY <1>1, <2>2, <3>1, <3>2
  <2>3. ASSUME NEW q \in Data', NEW x \in Data', q.id = x.id PROVE Copies(q, x)
    <3>1. PICK m \in Data, n \in Data : Copies(q, m) /\ Copies(x, n)
      BY <1>1
    <3> QED
      BY <2>3, <3>1 DEF IdsAgree, Copies
  <2> QED
    BY <2>1, <2>2, <2>3
<1>2. ASSUME NEW e, NewTuple(e)
      PROVE  /\ \A q \in Data' : Issued(q.id)'
             /\ \A d : Accepted(d)' => Issued(d)'
             /\ \A q, x \in Data' : q.id = x.id => Copies(q, x)
  <2>1. Data' = Data \cup {e} /\ Issued(e.id)' /\ \A m \in Data : m.id # e.id
    BY <1>2 DEF NewTuple
  <2>2. \A d : Accepted(d)' => Issued(d)'
    BY <1>2, <1>i DEF NewTuple
  <2>3. \A q, x \in Data' : q.id = x.id => Copies(q, x)
    BY <2>1 DEF IdsAgree, Copies
  <2> QED
    BY <1>i, <2>1, <2>2, <2>3
<1> QED
  BY <1>1, <1>2, <1>g, IdsUsed, NewTuples, TokenSteps

(* Every step of a growing job keeps Backed.                               *)
LEMMA NextBacked ==
  ASSUME TypeInv, NoneRetired, OnlyMapped, IdsIssued, Backed, [Next]_vars, Growing'
  PROVE  Backed'
<1>g. Len(task) \in Nat
  BY DEF TypeInv, TasksTyped
<1>d. SUFFICES \A q \in Data' : ~Accepted(q.id)' => \E n \in Data' : n.id = q.id /\ n.late = 0
  BY DEF Backed, Accepted
<1>b. \A m \in Data : ~Accepted(m.id) => \E n \in Data : n.id = m.id /\ n.late = 0
  BY DEF Backed
<1>1. ASSUME \A d : Accepted(d)' <=> Accepted(d), NEW m \in Data, Resends(m)
      PROVE  \A q \in Data' : ~Accepted(q.id)' => \E n \in Data' : n.id = q.id /\ n.late = 0
  <2>1. ASSUME NEW q, Reroutes(m, q)
        PROVE  \A x \in Data' : ~Accepted(x.id) => \E n \in Data' : n.id = x.id /\ n.late = 0
    <3>1. Data' = (Data \ {m}) \cup {q} /\ q.id = m.id /\ q.late = m.late
      BY <2>1 DEF Reroutes, Copies
    <3> QED
      BY <1>b, <3>1
  <2>2. ASSUME Ends(m)
        PROVE  \A x \in Data' : ~Accepted(x.id) => \E n \in Data' : n.id = x.id /\ n.late = 0
    <3>1. Data' = Data \ {m} /\ (m.late > 0 \/ Accepted(m.id))
      BY <2>2 DEF Ends
    <3>2. ~(0 > 0)
      OBVIOUS
    <3>3. ASSUME NEW x \in Data, ~Accepted(x.id)
          PROVE  \E n \in Data' : n.id = x.id /\ n.late = 0
      <4>1. PICK n \in Data : n.id = x.id /\ n.late = 0
        BY <1>b, <3>3
      <4>2. n # m
        BY <3>1, <3>2, <3>3, <4>1
      <4> QED
        BY <3>1, <4>1, <4>2
    <3> QED
      BY <3>1, <3>3
  <2>3. ASSUME NEW q, NEW y, SentTwice(m, q, y)
        PROVE  \A x \in Data' : ~Accepted(x.id) => \E n \in Data' : n.id = x.id /\ n.late = 0
    <3>1. /\ Data' = (Data \ {m}) \cup {q, y} /\ q.id = m.id /\ y.id = m.id
          /\ q.late = 0
      BY <2>3 DEF SentTwice, Copies
    <3> QED
      BY <1>b, <3>1
  <2> QED
    BY <1>1, <2>1, <2>2, <2>3 DEF Resends
<1>2. ASSUME \A d : Accepted(d)' <=> Accepted(d), Data' = Data
      PROVE  \A q \in Data' : ~Accepted(q.id)' => \E n \in Data' : n.id = q.id /\ n.late = 0
  BY <1>2, <1>b
<1>3. ASSUME NEW m \in Data, NEW i \in 1 .. Len(task), Accepts(m, i)
      PROVE  \A q \in Data' : ~Accepted(q.id)' => \E n \in Data' : n.id = q.id /\ n.late = 0
  <2>1. Data' = Data \ {m} /\ \A d : Accepted(d)' <=> Accepted(d) \/ d = m.id
    BY <1>3, <1>g, AcceptedSteps DEF Accepts
  <2> QED
    BY <1>b, <2>1
<1>4. ASSUME NEW e, NewTuple(e)
      PROVE  \A q \in Data' : ~Accepted(q.id)' => \E n \in Data' : n.id = q.id /\ n.late = 0
  BY <1>4, <1>b DEF NewTuple
<1>5. CASE Quiet
  BY <1>1, <1>2, <1>5, <1>g, AcceptedSteps DEF Quiet
<1>6. CASE AddsIdle
  BY <1>2, <1>6, <1>g, AcceptedSteps DEF AddsIdle
<1>7. ASSUME NEW i \in 1 .. Len(task), Outputs(i)
      PROVE  \A q \in Data' : ~Accepted(q.id)' => \E n \in Data' : n.id = q.id /\ n.late = 0
  BY <1>2, <1>7, <1>g, AcceptedSteps DEF Outputs
<1> QED
  BY <1>3, <1>4, <1>5, <1>6, <1>7, NewTuples, TokenSteps

(* Every step of a growing job keeps IdInv.                                *)
LEMMA NextIds ==
  TypeInv /\ GrowInv /\ IdInv /\ [Next]_vars => IdInv'
<1> SUFFICES ASSUME TypeInv, GrowInv, IdInv, [Next]_vars, Growing'
             PROVE  (IdsIssued /\ IdsAgree /\ Backed)'
  BY DEF IdInv
<1>1. NoneRetired /\ OnlyMapped /\ IdsIssued /\ IdsAgree /\ Backed
  BY GrowingBefore DEF GrowInv, IdInv
<1> QED
  BY <1>1, NextIdsAgree, NextBacked

(* The counters of a step that leaves them 0.                              *)
LEMMA CountsBefore ==
  ASSUME TypeInv, [Next]_vars
  PROVE  /\ unanswered' = 0 => unanswered = 0 /\ UNCHANGED unanswered
         /\ ups' = 0 => ups = 0 /\ ~Adds
<1>1. unanswered \in Nat /\ ups \in Nat
  BY ConstTypes DEF TypeInv, CountsTyped, TasksTyped
<1>2. unanswered' = unanswered \/ unanswered' = unanswered + 1
  BY CountFrames DEF CountSteps
<1>3. UNCHANGED ups \/ ups' = ups + 1
  BY TaskSteps, ScaleUpStartOp, RestartOp
<1>4. Adds => ups' = ups + 1
  BY ScaleUpStartOp DEF Adds
<1> QED
  BY <1>1, <1>2, <1>3, <1>4

(* Every step of a growing job keeps FreshInv.                             *)
LEMMA NextFresh ==
  TypeInv /\ GrowInv /\ IdInv /\ FreshInv /\ [Next]_vars => FreshInv'
<1> SUFFICES ASSUME TypeInv, GrowInv, IdInv, FreshInv, [Next]_vars, Growing', unanswered' = 0
             PROVE  IdsFresh'
  BY DEF FreshInv
<1>1. /\ NoneRetired /\ OnlyMapped /\ IdsIssued /\ IdsFresh /\ Len(task) \in Nat
      /\ unanswered' # unanswered + 1
  BY GrowingBefore, CountsBefore DEF GrowInv, IdInv, FreshInv, TypeInv, TasksTyped
<1>2. /\ \A m, n \in Data : m.id = n.id => m = n
      /\ \A m \in Data : ~Accepted(m.id)
  BY <1>1 DEF IdsFresh
<1> DEFINE Goal == /\ \A m, n \in Data' : m.id = n.id => m = n
                   /\ \A m \in Data' : ~Accepted(m.id)'
<1> SUFFICES Goal
  BY DEF IdsFresh, Accepted
<1>3. ASSUME \A d : Accepted(d)' <=> Accepted(d), NEW m \in Data, Resends(m) PROVE Goal
  <2>1. ASSUME NEW q, Reroutes(m, q) PROVE Goal
    <3>1. q.id = m.id /\ Data' = (Data \ {m}) \cup {q}
      BY <2>1 DEF Reroutes, Copies
    <3> QED
      BY <1>2, <1>3, <3>1
  <2>2. CASE Ends(m)
    BY <1>2, <1>3, <2>2 DEF Ends
  <2> QED
    BY <1>1, <1>3, <2>1, <2>2 DEF Resends, SentTwice
<1>4. ASSUME \A d : Accepted(d)' <=> Accepted(d), Data' = Data PROVE Goal
  BY <1>2, <1>4
<1>5. ASSUME NEW m \in Data, NEW i \in 1 .. Len(task), Accepts(m, i) PROVE Goal
  <2>1. Data' = Data \ {m} /\ \A d : Accepted(d)' <=> Accepted(d) \/ d = m.id
    BY <1>1, <1>5, AcceptedSteps DEF Accepts
  <2> QED
    BY <1>2, <2>1
<1>6. ASSUME NEW e, NewTuple(e) PROVE Goal
  BY <1>2, <1>6 DEF NewTuple
<1>7. CASE Quiet
  BY <1>1, <1>3, <1>4, <1>7, AcceptedSteps DEF Quiet
<1>8. CASE AddsIdle
  BY <1>1, <1>4, <1>8, AcceptedSteps DEF AddsIdle
<1>9. ASSUME NEW i \in 1 .. Len(task), Outputs(i) PROVE Goal
  BY <1>1, <1>4, <1>9, AcceptedSteps DEF Outputs
<1> QED
  BY <1>1, <1>5, <1>6, <1>7, <1>8, <1>9, NewTuples, TokenSteps

-----------------------------------------------------------------------------
(* The calls for a tuple as long as no task was added.                     *)

(* What a step does while no task is added.                                *)
LEMMA SettledSteps ==
  ASSUME TypeInv, NoneRetired, NoScaling, [Next]_vars, Growing', ups' = 0
  PROVE  /\ UNCHANGED GlobalTaskMap /\ NoScaling'
         /\ UNCHANGED task \/ (TasksStay /\ ListsStay)
<1>1. ~Adds /\ ~ScaleUpMap /\ ~BroadcastUpstream /\ ~Removes /\ ~Restarts
  BY CountsBefore, GrowingBefore DEF NoScaling, ScaleUpMap, BroadcastUpstream
<1>2. UNCHANGED GlobalTaskMap
  BY <1>1, GrowSteps
<1>3. scaler'.pc \notin {"map", "waiting"}
  <2>1. CASE UNCHANGED scaler
    BY <2>1 DEF NoScaling
  <2>2. CASE ScalerStops
    BY <2>2 DEF ScalerStops, TypeInv, ScalerTyped, ScalerRec
  <2> QED
    BY <1>1, <2>1, <2>2, Frames DEF LeaderFrame, Scaler, Adds, Removes
<1>4. calls' = {}
  BY <1>1, Frames DEF LeaderFrame, NoScaling
<1>5. UNCHANGED task \/ (TasksStay /\ ListsStay)
  BY <1>1, TaskSteps DEF NoScaling, Adds, Restarts
<1> QED
  BY <1>2, <1>3, <1>4, <1>5 DEF NoScaling

(* Every step keeps ListsFull while no task is added.                      *)
LEMMA NextListsFull ==
  ASSUME TypeInv, NoneRetired, NoScaling, ListsFull, [Next]_vars, Growing', ups' = 0
  PROVE  ListsFull'
<1>1. UNCHANGED GlobalTaskMap /\ (UNCHANGED task \/ (TasksStay /\ ListsStay))
  BY SettledSteps
<1>2. CASE UNCHANGED task
  BY <1>1, <1>2 DEF ListsFull
<1>3. CASE TasksStay /\ ListsStay
  BY <1>1, <1>3 DEF ListsFull, TasksStay, SameTask, ListsStay
<1> QED
  BY <1>1, <1>2, <1>3

(* A tuple that is routed is sent to its home.                             *)
LEMMA RoutedHome ==
  ASSUME TypeInv, ListsFull, NEW m \in pushes, m.kind = "data"
  PROVE  Route(m)[2] = Hash(m) % NumTasks
<1>1. m.org \in 0 .. Len(task) /\ m.stage \in Stages /\ Len(task) \in Nat
  BY PushFacts DEF TypeInv, TasksTyped
<1>2. Len(ListOfPush(m)) = NumTasks
  <2>1. CASE m.org = Source
    <3>1. 1 \in Stages /\ NumTasks \in Nat \ {0}
      BY ConstTypes
    <3>2. PICK n \in Nat \ {0} : DOMAIN GlobalTaskMap[1] = 0 .. n - 1 /\ Len(SortedWorkers(1)) = n
      BY <3>1, StageFacts
    <3>3. 0 .. n - 1 = 0 .. NumTasks - 1
      BY <3>1, <3>2 DEF ListsFull
    <3>4. n = NumTasks
      BY <3>1, <3>3
    <3> QED
      BY <2>1, <3>2, <3>4 DEF ListOfPush
  <2>2. CASE m.org # Source
    <3>1. m.org \in 1 .. Len(task)
      BY <1>1, <2>2 DEF Source
    <3>2. m.stage = task[m.org].stage + 1 /\ task[m.org].stage \in Stages
      BY <2>2, <3>1, TaskFields DEF TypeInv, PushesTyped, PushFits
    <3>3. task[m.org].stage < NumStages
      BY <1>1, <3>2, ConstTypes DEF Stages
    <3> QED
      BY <2>2, <3>1, <3>3 DEF ListOfPush, ListsFull
  <2> QED
    BY <2>1, <2>2
<1>3. PICK l : l = ListOfPush(m)
  OBVIOUS
<1>4. Route(m)[2] = Hash(m) % Len(l)
  BY <1>3 DEF Route, ListOfPush, Hash
<1> QED
  BY <1>2, <1>3, <1>4

(* Every step keeps SentHome while no task is added.                       *)
LEMMA NextSentHome ==
  ASSUME TypeInv, ListsFull, SentHome, [Next]_vars
  PROVE  SentHome'
<1> DEFINE AtHome(q) == q.kind = "data" /\ q.pc = "call" => q.dest = Hash(q) % NumTasks
<1>d. SUFFICES ASSUME NEW q \in pushes' PROVE AtHome(q)
  BY DEF SentHome, Data, Hash
<1>0. ASSUME NEW x \in pushes PROVE AtHome(x)
  BY DEF SentHome, Data
<1>c. ASSUME NEW m, NEW x, x.id = m.id, x.org = m.org, x.val = m.val PROVE Hash(x) = Hash(m)
  BY <1>c DEF Hash
<1> HIDE DEF AtHome
<1>r. ASSUME NEW x, x.pc = "route" \/ x.kind = "EOS" PROVE AtHome(x)
  BY <1>r DEF AtHome
<1>1. ASSUME NEW m \in pushes, PushStep(m) PROVE AtHome(q)
  <2>1. CASE pushes' = pushes \ {m}
    BY <1>0, <2>1
  <2>2. CASE pushes' = (pushes \ {m}) \cup {Again(m)} /\ m.pc = "call" /\ m.kind = "data"
    <3>1. Again(m).pc = "route"
      BY <2>2, PushAgainOp
    <3>2. AtHome(Again(m))
      BY <1>r, <3>1
    <3> QED
      BY <1>0, <2>2, <3>2
  <2>3. CASE SendTuple(m)
    <3>1. PICK x \in PushRec :
           /\ pushes' = (pushes \ {m}) \cup {x} /\ x.dest = Route(m)[2] /\ m.kind = "data"
           /\ x.org = m.org /\ x.id = m.id /\ x.val = m.val
      BY <2>3, SendTupleOp
    <3>2. AtHome(x)
      BY <1>c, <3>1, RoutedHome DEF AtHome
    <3> QED
      BY <1>0, <3>1, <3>2
  <2> QED
    BY <1>1, <2>1, <2>2, <2>3, PushSteps
<1>2. ASSUME NEW m \in pushes, PushGivenUp(m) PROVE AtHome(q)
  <2>1. PICK x \in PushRec :
          /\ pushes' = (pushes \ {m}) \cup {Again(m), x} /\ m.pc = "call" /\ x.kind = m.kind
          /\ x.org = m.org /\ x.id = m.id /\ x.val = m.val /\ x.dest = m.dest
    BY <1>2, PushGivenUpOp
  <2>2. AtHome(m)
    BY <1>0
  <2>3. AtHome(x)
    BY <1>c, <2>1, <2>2 DEF AtHome
  <2>4. AtHome(Again(m))
    <3>1. CASE m.kind = "data"
      BY <1>r, <2>1, <3>1, PushAgainOp
    <3> QED
      BY <2>2, <3>1 DEF Again
  <2> QED
    BY <1>0, <2>1, <2>3, <2>4
<1>3. ASSUME NEW o, NEW s, NEW d, NEW v, pushes' = pushes \cup {DataPush(o, s, d, v)}
      PROVE  AtHome(q)
  <2>1. AtHome(DataPush(o, s, d, v))
    BY <1>r DEF DataPush
  <2> QED
    BY <1>0, <1>3, <2>1
<1>4. ASSUME NEW o, NEW s, NEW l, pushes' = pushes \cup EOSPushes(o, s, l) PROVE AtHome(q)
  <2>1. \A x \in EOSPushes(o, s, l) : x.kind = "EOS"
    BY DEF EOSPushes
  <2> QED
    BY <1>0, <1>4, <1>r, <2>1
<1>5. CASE SourceLine
  BY <1>3, <1>5 DEF SourceLine
<1>6. CASE SourceEOS
  BY <1>4, <1>6 DEF SourceEOS
<1>7. ASSUME NEW i \in DOMAIN task, Operator(i) \/ HandleEOF(i) PROVE AtHome(q)
  <2>1. i \in 1 .. Len(task)
    BY <1>7 DEF TypeInv, TasksTyped
  <2> QED
    BY <1>0, <1>3, <1>4, <1>7, <2>1, OperatorOp, HandleEOFOp
<1> QED
  BY <1>0, <1>1, <1>2, <1>5, <1>6, <1>7, Frames DEF NodeFrame

(* Every step of a growing job keeps TakenAtHome while no task is added.   *)
LEMMA NextTakenAtHome ==
  ASSUME TypeInv, NoneRetired, MapRegistered, Routed, OnlyMapped, IdsIssued, IdsAgree,
         NoScaling, SentHome, TakenAtHome, [Next]_vars, Growing', ups' = 0
  PROVE  TakenAtHome'
<1>g. Len(task) \in Nat /\ UNCHANGED GlobalTaskMap
  BY SettledSteps DEF TypeInv, TasksTyped
<1>h. \A q, m : Copies(q, m) => Home(q) = Home(m)
  BY DEF Copies, Home, Hash
<1>d. SUFFICES \A q \in Data' : \A i \in 1 .. Len(task') : q.id \in task'[i].ProcessedIDs => i = Home(q)
  BY <1>g DEF TakenAtHome, Home, Hash
<1>0. \A m \in Data : \A i \in 1 .. Len(task) : m.id \in task[i].ProcessedIDs => i = Home(m)
  BY DEF TakenAtHome
<1>1. ASSUME \A q \in Data' : \E m \in Data : Copies(q, m), NEW q \in Data', NEW i \in 1 .. Len(task),
             q.id \in task[i].ProcessedIDs
      PROVE  i = Home(q)
  <2>1. PICK m \in Data : Copies(q, m)
    BY <1>1
  <2>2. m.id \in task[i].ProcessedIDs
    BY <1>1, <2>1 DEF Copies
  <2> QED
    BY <1>0, <1>h, <2>1, <2>2
<1>2. CASE Quiet
  <2>1. Len(task') = Len(task) /\ \A j \in 1 .. Len(task) : task'[j].ProcessedIDs = task[j].ProcessedIDs
    BY <1>2, <1>g DEF Quiet, OthersStay, WorkStays
  <2> QED
    BY <1>1, <1>2, <1>g, <2>1, IdsUsed
<1>3. CASE AddsIdle
  <2>1. /\ \A j \in 1 .. Len(task) : task'[j].ProcessedIDs = task[j].ProcessedIDs
        /\ task'[Len(task) + 1].ProcessedIDs = {}
        /\ \A j \in 1 .. Len(task') : j \in 1 .. Len(task) \/ j = Len(task) + 1
    BY <1>3, <1>g DEF AddsIdle, WorkStays
  <2> QED
    BY <1>1, <1>3, <1>g, <2>1, IdsUsed
<1>4. ASSUME NEW m \in Data, PushTuple(m), Target(m) \in 1 .. Len(task), Accepts(m, Target(m)),
             NEW q \in Data', NEW i \in 1 .. Len(task'), q.id \in task'[i].ProcessedIDs
      PROVE  i = Home(q)
  <2>1. PICK t \in 1 .. Len(task) : t = Target(m)
    BY <1>4
  <2>2. m \in pushes /\ m.pc = "call"
    BY <1>4 DEF Data, PushTuple, Fresh
  <2>3. t = GlobalTaskMap[m.stage][m.dest].PID
    BY <2>1, <2>2, TargetMapped
  <2>4. t = Home(m)
    BY <2>2, <2>3 DEF SentHome, Home
  <2>5. /\ Len(task') = Len(task) /\ Data' = Data \ {m}
        /\ \A j \in 1 .. Len(task) : j # t => task'[j].ProcessedIDs = task[j].ProcessedIDs
        /\ task'[t].ProcessedIDs = task[t].ProcessedIDs \cup {m.id}
    BY <1>4, <2>1 DEF Accepts, OthersStay, WorkStays
  <2>6. CASE q.id \in task[i].ProcessedIDs
    BY <1>0, <2>5, <2>6
  <2>7. CASE q.id \notin task[i].ProcessedIDs
    <3>1. i = t /\ q.id = m.id /\ q \in Data
      BY <1>4, <2>5, <2>7
    <3>2. Copies(q, m)
      BY <3>1 DEF IdsAgree
    <3> QED
      BY <1>h, <2>4, <3>1, <3>2
  <2> QED
    BY <2>6, <2>7
<1>5. ASSUME NEW i \in 1 .. Len(task), Works(i)
      PROVE  /\ Len(task') = Len(task)
             /\ \A j \in 1 .. Len(task) : task'[j].ProcessedIDs = task[j].ProcessedIDs
  BY <1>5 DEF Works, OthersStay, WorkStays
<1>6. ASSUME NEW i \in 1 .. Len(task), Outputs(i)
      PROVE  \A q \in Data' : \A j \in 1 .. Len(task') : q.id \in task'[j].ProcessedIDs => j = Home(q)
  BY <1>1, <1>5, <1>6, <1>g, IdsUsed DEF Outputs
<1>7. ASSUME NEW e, NewTuple(e), Len(task') = Len(task),
             \A j \in 1 .. Len(task) : task'[j].ProcessedIDs = task[j].ProcessedIDs
      PROVE  \A q \in Data' : \A j \in 1 .. Len(task') : q.id \in task'[j].ProcessedIDs => j = Home(q)
  BY <1>0, <1>7 DEF NewTuple, Accepted
<1>8. ASSUME NEW i \in 1 .. Len(task), NEW e, Sends(i, e)
      PROVE  \A q \in Data' : \A j \in 1 .. Len(task') : q.id \in task'[j].ProcessedIDs => j = Home(q)
  BY <1>5, <1>7, <1>8, NewTuples DEF Sends
<1>9. ASSUME NEW e, Reads(e)
      PROVE  \A q \in Data' : \A j \in 1 .. Len(task') : q.id \in task'[j].ProcessedIDs => j = Home(q)
  <2>1. Len(task') = Len(task) /\ \A j \in 1 .. Len(task) : task'[j].ProcessedIDs = task[j].ProcessedIDs
    BY <1>9, <1>g DEF Reads, OthersStay, WorkStays
  <2> QED
    BY <1>7, <1>9, <2>1, NewTuples
<1> QED
  BY <1>2, <1>3, <1>4, <1>6, <1>8, <1>9, TokenSteps

(* Every step of a growing job keeps SettledInv.                           *)
LEMMA NextSettled ==
  TypeInv /\ GrowInv /\ IdInv /\ SettledInv /\ [Next]_vars => SettledInv'
<1> SUFFICES ASSUME TypeInv, GrowInv, IdInv, SettledInv, [Next]_vars, Growing', ups' = 0
             PROVE  (NoScaling /\ ListsFull /\ SentHome /\ TakenAtHome)'
  BY DEF SettledInv
<1>1. /\ NoneRetired /\ MapRegistered /\ Routed /\ OnlyMapped /\ IdsIssued /\ IdsAgree
      /\ NoScaling /\ ListsFull /\ SentHome /\ TakenAtHome
  BY GrowingBefore, CountsBefore DEF GrowInv, IdInv, SettledInv
<1> QED
  BY <1>1, SettledSteps, NextListsFull, NextSentHome, NextTakenAtHome

(* Initially no id is issued, and the lists are the plan.                  *)
LEMMA InitIds == Init => IdInv /\ FreshInv /\ SettledInv
<1> SUFFICES ASSUME Init
             PROVE  /\ IdsIssued /\ IdsAgree /\ Backed /\ IdsFresh
                    /\ NoScaling /\ ListsFull /\ SentHome /\ TakenAtHome
  BY DEF IdInv, FreshInv, SettledInv
<1>1. Data = {} /\ \A i \in 1 .. Len(task) : task[i].ProcessedIDs = {}
  BY InitTasks DEF Init, Data
<1>2. NoScaling
  BY DEF Init, NoScaling
<1>3. ASSUME NEW i \in 1 .. Len(task), task[i].stage < NumStages
      PROVE  Len(task[i].DownstreamList) = NumTasks
  <2>1. PICK s \in Stages : task[i].stage = s /\ task[i].DownstreamList = Plan(s + 1)
    BY InitTasks
  <2> QED
    BY <1>3, <2>1, PlanList
<1>4. ListsFull
  BY <1>3, InitMap DEF ListsFull
<1> QED
  BY <1>1, <1>2, <1>4 DEF IdsIssued, IdsAgree, Backed, IdsFresh, SentHome, TakenAtHome

(* No second task takes a tuple.                                           *)
LEMMA TakenByOne ==
  ASSUME TypeInv, GrowInv, FreshInv, SettledInv, TakenOnce, NEW m \in Data, PushTuple(m)
  PROVE  ~Accepted(m.id)
<1>1. /\ m \in pushes /\ m.pc = "call" /\ m.id \notin task[Target(m)].ProcessedIDs
      /\ MapRegistered /\ Routed
  BY DEF Data, PushTuple, Fresh, TakenOnce, GrowInv
<1>2. CASE unanswered = 0
  BY <1>2 DEF TakenOnce, FreshInv, IdsFresh
<1>3. CASE ups = 0
  <2>1. SentHome /\ TakenAtHome
    BY <1>3 DEF TakenOnce, SettledInv
  <2>2. Target(m) = GlobalTaskMap[m.stage][m.dest].PID
    BY <1>1, TargetMapped
  <2>3. Target(m) = Home(m)
    BY <1>1, <2>1, <2>2 DEF SentHome, Home
  <2> QED
    BY <1>1, <2>1, <2>3 DEF TakenAtHome, Accepted
<1> QED
  BY <1>2, <1>3 DEF TakenOnce

-----------------------------------------------------------------------------
(* Where the lines are after a step.                                       *)

(* Lines in stdin are lines, and so are those of tuples and of the output. *)
LEMMA PlacesTyped ==
  ASSUME TypeInv
  PROVE  /\ Len(task) \in Nat /\ Len(output) \in Nat /\ source.seq \in 0 .. NumLines
         /\ \A i \in 1 .. Len(task) :
              /\ task[i].Stdin \in Seq(Lines) /\ Len(task[i].Stdin) \in Nat
              /\ \A n \in 1 .. Len(task[i].Stdin) : task[i].Stdin[n] \in Lines
         /\ \A m \in Data : m.val \in Lines
         /\ \A n \in 1 .. Len(output) : output[n] \in Lines
<1>1. \A i \in 1 .. Len(task) : task[i].Stdin \in Seq(Lines)
  BY TaskFields DEF TypeInv
<1>2. \A m \in Data : m.val \in Lines
  BY PushFacts DEF Data
<1> QED
  BY <1>1, <1>2 DEF TypeInv, TasksTyped, LogsTyped, SourceTyped, SourceRec

(* A step that leaves every stdin as it is, and may start a task.          *)
LEMMA StdinKept ==
  ASSUME Len(task) \in Nat, \A j \in 1 .. Len(task) : task'[j].Stdin = task[j].Stdin,
         \/ Len(task') = Len(task)
         \/ Len(task') = Len(task) + 1 /\ task'[Len(task) + 1].Stdin = <<>>
  PROVE  (\A v : InStdin(v)' <=> InStdin(v)) /\ (StdinOnce => StdinOnce')
<1>0. Len(<<>>) = 0
  OBVIOUS
<1>1. \A j \in 1 .. Len(task') : \/ j \in 1 .. Len(task) /\ task'[j].Stdin = task[j].Stdin
                                 \/ Len(task'[j].Stdin) = 0
  BY <1>0
<1>2. \A j \in 1 .. Len(task') : \A n \in 1 .. Len(task'[j].Stdin) :
        /\ j \in 1 .. Len(task) /\ n \in 1 .. Len(task[j].Stdin)
        /\ task'[j].Stdin[n] = task[j].Stdin[n]
  BY <1>1
<1>3. \A j \in 1 .. Len(task) : j \in 1 .. Len(task')
  OBVIOUS
<1>4. \A v : InStdin(v)' <=> InStdin(v)
  BY <1>2, <1>3 DEF InStdin
<1>5. StdinOnce => StdinOnce'
  <2> SUFFICES ASSUME StdinOnce,
                      NEW a \in 1 .. Len(task'), NEW b \in 1 .. Len(task'),
                      NEW n \in 1 .. Len(task'[a].Stdin), NEW k \in 1 .. Len(task'[b].Stdin),
                      task'[a].Stdin[n] = task'[b].Stdin[k]
               PROVE  a = b /\ n = k
    BY DEF StdinOnce
  <2>1. /\ a \in 1 .. Len(task) /\ n \in 1 .. Len(task[a].Stdin)
        /\ task'[a].Stdin[n] = task[a].Stdin[n]
    BY <1>2
  <2>2. /\ b \in 1 .. Len(task) /\ k \in 1 .. Len(task[b].Stdin)
        /\ task'[b].Stdin[k] = task[b].Stdin[k]
    BY <1>2
  <2>3. task[a].Stdin[n] = task[b].Stdin[k]
    BY <2>1, <2>2
  <2> QED
    BY SMTT(30), <2>1, <2>2, <2>3 DEF StdinOnce
<1> QED
  BY <1>4, <1>5

(* A line is written to the stdin of task i.                               *)
LEMMA StdinGrows ==
  ASSUME NEW i \in 1 .. Len(task), NEW w, task[i].Stdin \in Seq(Lines), w \in Lines,
         Len(task') = Len(task), \A j \in 1 .. Len(task) : j # i => task'[j].Stdin = task[j].Stdin,
         task'[i].Stdin = Append(task[i].Stdin, w)
  PROVE  /\ \A v : InStdin(v)' <=> InStdin(v) \/ v = w
         /\ StdinOnce /\ ~InStdin(w) => StdinOnce'
<1>1. PICK x \in Seq(Lines) : x = task[i].Stdin
  OBVIOUS
<1>2. PICK y : y = Append(x, w)
  OBVIOUS
<1>3. /\ Len(x) \in Nat /\ Len(y) = Len(x) + 1 /\ y[Len(x) + 1] = w
      /\ \A n \in 1 .. Len(x) : y[n] = x[n]
  BY <1>2
<1>4. task'[i].Stdin = y
  BY <1>1, <1>2
<1>5. \A j \in 1 .. Len(task) : \A n \in 1 .. Len(task'[j].Stdin) :
        \/ j = i /\ n = Len(x) + 1 /\ task'[j].Stdin[n] = w
        \/ n \in 1 .. Len(task[j].Stdin) /\ task'[j].Stdin[n] = task[j].Stdin[n]
  <2> TAKE j \in 1 .. Len(task)
  <2>1. CASE j = i
    BY SMTT(30), <1>1, <1>3, <1>4, <2>1
  <2> QED
    BY <2>1
<1>6. \A j \in 1 .. Len(task) : \A n \in 1 .. Len(task[j].Stdin) :
        n \in 1 .. Len(task'[j].Stdin) /\ task'[j].Stdin[n] = task[j].Stdin[n]
  <2> TAKE j \in 1 .. Len(task)
  <2>1. CASE j = i
    BY <1>1, <1>3, <1>4, <2>1
  <2> QED
    BY <2>1
<1>7. Len(x) + 1 \in 1 .. Len(task'[i].Stdin) /\ task'[i].Stdin[Len(x) + 1] = w
  BY <1>3, <1>4
<1>8. \A v : InStdin(v)' <=> InStdin(v) \/ v = w
  <2>1. \A v : InStdin(v)' => InStdin(v) \/ v = w
    BY <1>5 DEF InStdin
  <2>2. \A v : InStdin(v) => InStdin(v)'
    BY <1>6 DEF InStdin
  <2>3. InStdin(w)'
    BY <1>7 DEF InStdin
  <2>4. ASSUME NEW v, v = w PROVE InStdin(v)'
    BY <1>7, <2>4 DEF InStdin
  <2> QED
    BY <2>1, <2>2, <2>4
<1>9. StdinOnce /\ ~InStdin(w) => StdinOnce'
  <2> SUFFICES ASSUME StdinOnce, ~InStdin(w),
                      NEW a \in 1 .. Len(task), NEW b \in 1 .. Len(task),
                      NEW n \in 1 .. Len(task'[a].Stdin), NEW k \in 1 .. Len(task'[b].Stdin),
                      task'[a].Stdin[n] = task'[b].Stdin[k]
               PROVE  a = b /\ n = k
    BY DEF StdinOnce
  <2>1. \A j \in 1 .. Len(task) : \A q \in 1 .. Len(task[j].Stdin) : task[j].Stdin[q] # w
    BY DEF InStdin
  <2>2. \/ a = i /\ n = Len(x) + 1 /\ task'[a].Stdin[n] = w
        \/ n \in 1 .. Len(task[a].Stdin) /\ task'[a].Stdin[n] = task[a].Stdin[n]
    BY <1>5
  <2>3. \/ b = i /\ k = Len(x) + 1 /\ task'[b].Stdin[k] = w
        \/ k \in 1 .. Len(task[b].Stdin) /\ task'[b].Stdin[k] = task[b].Stdin[k]
    BY <1>5
  <2>4. CASE n \in 1 .. Len(task[a].Stdin) /\ task'[a].Stdin[n] = task[a].Stdin[n]
    <3>1. task'[b].Stdin[k] # w
      BY <2>1, <2>4
    <3>2. k \in 1 .. Len(task[b].Stdin) /\ task[a].Stdin[n] = task[b].Stdin[k]
      BY <2>3, <2>4, <3>1
    <3> QED
      BY SMTT(30), <2>4, <3>2 DEF StdinOnce
  <2>5. CASE a = i /\ n = Len(x) + 1 /\ task'[a].Stdin[n] = w
    <3>1. ~(k \in 1 .. Len(task[b].Stdin) /\ task'[b].Stdin[k] = task[b].Stdin[k])
      BY <2>1, <2>5
    <3> QED
      BY <2>3, <2>5, <3>1
  <2> QED
    BY <2>2, <2>4, <2>5
<1> QED
  BY <1>8, <1>9

(* The first line leaves the stdin of task i.                              *)
LEMMA StdinShrinks ==
  ASSUME NEW i \in 1 .. Len(task), task[i].Stdin \in Seq(Lines), task[i].Stdin # <<>>,
         Len(task') = Len(task), \A j \in 1 .. Len(task) : j # i => task'[j].Stdin = task[j].Stdin,
         task'[i].Stdin = Tail(task[i].Stdin)
  PROVE  /\ \A v : InStdin(v) /\ v # Head(task[i].Stdin) => InStdin(v)'
         /\ InStdin(Head(task[i].Stdin)) /\ Head(task[i].Stdin) \in Lines
         /\ StdinOnce => /\ StdinOnce'
                         /\ \A v : InStdin(v)' => InStdin(v) /\ v # Head(task[i].Stdin)
<1>1. PICK x \in Seq(Lines) : x = task[i].Stdin
  OBVIOUS
<1>2. PICK y : y = Tail(x)
  OBVIOUS
<1>n. x # <<>>
  BY <1>1
<1>3. /\ Len(x) \in Nat \ {0} /\ Len(y) = Len(x) - 1 /\ Head(x) = x[1]
      /\ \A n \in 1 .. Len(y) : y[n] = x[n + 1]
  BY <1>2, <1>n
<1>4. task'[i].Stdin = y /\ Head(task[i].Stdin) = x[1]
  BY <1>1, <1>2, <1>3
<1>h. 1 \in 1 .. Len(task[i].Stdin) /\ task[i].Stdin[1] = x[1] /\ x[1] \in Lines
  BY <1>1, <1>3
<1>5. \A n \in 1 .. Len(task'[i].Stdin) : /\ n + 1 \in 1 .. Len(task[i].Stdin)
                                          /\ task'[i].Stdin[n] = task[i].Stdin[n + 1]
  BY <1>1, <1>3, <1>4
<1>6. \A n \in 1 .. Len(task[i].Stdin) : n # 1 =>
        n - 1 \in 1 .. Len(task'[i].Stdin) /\ task'[i].Stdin[n - 1] = task[i].Stdin[n]
  BY <1>1, <1>3, <1>4
<1>7. \A j \in 1 .. Len(task) : j # i => task'[j].Stdin = task[j].Stdin
  OBVIOUS
<1>8. ASSUME StdinOnce, NEW v, InStdin(v)' PROVE InStdin(v) /\ v # x[1]
  <2>1. PICK j \in 1 .. Len(task) : \E n \in 1 .. Len(task'[j].Stdin) : task'[j].Stdin[n] = v
    BY <1>8 DEF InStdin
  <2>n. PICK n \in 1 .. Len(task'[j].Stdin) : task'[j].Stdin[n] = v
    BY <2>1
  <2>2. CASE j = i
    <3>0. n + 1 # 1
      OBVIOUS
    <3>1. n + 1 \in 1 .. Len(task[i].Stdin) /\ task[i].Stdin[n + 1] = v /\ n + 1 # 1
      BY <1>5, <2>n, <2>2, <3>0
    <3> QED
      BY <1>8, <1>h, <3>1 DEF InStdin, StdinOnce
  <2>3. CASE j # i
    <3>1. n \in 1 .. Len(task[j].Stdin) /\ task[j].Stdin[n] = v
      BY <1>7, <2>n, <2>3
    <3> QED
      BY <1>8, <1>h, <2>3, <3>1 DEF InStdin, StdinOnce
  <2> QED
    BY <2>2, <2>3
<1>9. ASSUME NEW v, InStdin(v), v # x[1] PROVE InStdin(v)'
  <2>1. PICK j \in 1 .. Len(task) : \E n \in 1 .. Len(task[j].Stdin) : task[j].Stdin[n] = v
    BY <1>9 DEF InStdin
  <2>n. PICK n \in 1 .. Len(task[j].Stdin) : task[j].Stdin[n] = v
    BY <2>1
  <2>2. CASE j = i
    BY <1>6, <1>9, <1>h, <2>n, <2>2 DEF InStdin
  <2>3. CASE j # i
    BY <1>7, <2>n, <2>3 DEF InStdin
  <2> QED
    BY <2>2, <2>3
<1>10. InStdin(x[1])
  BY <1>h DEF InStdin
<1>11. StdinOnce => StdinOnce'
  <2> SUFFICES ASSUME StdinOnce, NEW a \in 1 .. Len(task), NEW b \in 1 .. Len(task),
                      NEW n \in 1 .. Len(task'[a].Stdin), NEW k \in 1 .. Len(task'[b].Stdin),
                      task'[a].Stdin[n] = task'[b].Stdin[k]
               PROVE  a = b /\ n = k
    BY DEF StdinOnce
  <2>1. PICK p : p = IF a = i THEN n + 1 ELSE n
    OBVIOUS
  <2>2. PICK q : q = IF b = i THEN k + 1 ELSE k
    OBVIOUS
  <2>3. p \in 1 .. Len(task[a].Stdin) /\ task[a].Stdin[p] = task'[a].Stdin[n]
    BY <1>5, <1>7, <2>1
  <2>4. q \in 1 .. Len(task[b].Stdin) /\ task[b].Stdin[q] = task'[b].Stdin[k]
    BY <1>5, <1>7, <2>2
  <2>5. a = b /\ p = q
    BY <2>3, <2>4 DEF StdinOnce
  <2>6. n \in Int /\ k \in Int
    OBVIOUS
  <2> QED
    BY <2>1, <2>2, <2>5, <2>6
<1> QED
  BY <1>4, <1>8, <1>9, <1>10, <1>11, <1>h

(* The tuples that wait after a step.                                      *)
LEMMA WaitingSteps ==
  ASSUME Len(task) \in Nat, IdsAgree, Backed
  PROVE  /\ Quiet \/ AddsIdle => Waiting' = Waiting
         /\ \A m \in Data : \A i \in 1 .. Len(task) :
              Accepts(m, i) => Waiting' = Waiting \ {<<m.id, m.val>>}
         /\ \A i \in 1 .. Len(task) : Outputs(i) => Waiting' = Waiting
         /\ \A e : NewTuple(e) => Waiting' = Waiting \cup {<<e.id, e.val>>}
<1>1. ASSUME \A d : Accepted(d)' <=> Accepted(d), Data' = Data PROVE Waiting' = Waiting
  BY <1>1 DEF Waiting
<1>2. ASSUME \A d : Accepted(d)' <=> Accepted(d), NEW m \in Data, Resends(m)
      PROVE  Waiting' = Waiting
  <2>1. ASSUME NEW q, Reroutes(m, q) PROVE Waiting' = Waiting
    <3>1. q.id = m.id /\ q.val = m.val /\ Data' = (Data \ {m}) \cup {q}
      BY <2>1 DEF Reroutes, Copies
    <3> QED
      BY <1>2, <3>1 DEF Waiting
  <2>2. ASSUME NEW q, NEW x, SentTwice(m, q, x) PROVE Waiting' = Waiting
    <3>1. /\ q.id = m.id /\ q.val = m.val /\ x.id = m.id /\ x.val = m.val
          /\ Data' = (Data \ {m}) \cup {q, x}
      BY <2>2 DEF SentTwice, Copies
    <3> QED
      BY <1>2, <3>1 DEF Waiting
  <2>3. CASE Ends(m)
    <3>1. Data' = Data \ {m} /\ (m.late > 0 \/ Accepted(m.id)) /\ ~(0 > 0)
      BY <2>3 DEF Ends
    <3>2. CASE Accepted(m.id)
      BY <1>2, <3>1, <3>2 DEF Waiting
    <3>3. CASE ~Accepted(m.id)
      <4>1. PICK n \in Data : n.id = m.id /\ n.late = 0
        BY <3>3 DEF Backed
      <4>2. n # m /\ n.val = m.val
        BY <3>1, <3>3, <4>1 DEF IdsAgree, Copies
      <4> QED
        BY <1>2, <3>1, <4>1, <4>2 DEF Waiting
    <3> QED
      BY <3>2, <3>3
  <2> QED
    BY <1>2, <2>1, <2>2, <2>3 DEF Resends
<1>3. Quiet \/ AddsIdle => Waiting' = Waiting
  BY <1>1, <1>2, AcceptedSteps DEF Quiet, AddsIdle
<1>4. ASSUME NEW m \in Data, NEW i \in 1 .. Len(task), Accepts(m, i)
      PROVE  Waiting' = Waiting \ {<<m.id, m.val>>}
  <2>1. Data' = Data \ {m} /\ \A d : Accepted(d)' <=> Accepted(d) \/ d = m.id
    BY <1>4, AcceptedSteps DEF Accepts
  <2>2. \A n \in Data : n.id = m.id => n.val = m.val
    BY DEF IdsAgree, Copies
  <2> QED
    BY <2>1, <2>2 DEF Waiting
<1>5. ASSUME NEW i \in 1 .. Len(task), Outputs(i) PROVE Waiting' = Waiting
  BY <1>1, <1>5, AcceptedSteps DEF Outputs
<1>6. ASSUME NEW e, NewTuple(e) PROVE Waiting' = Waiting \cup {<<e.id, e.val>>}
  <2>1. /\ Data' = Data \cup {e} /\ ~Accepted(e.id)
        /\ \A d : Accepted(d)' <=> Accepted(d)
    BY <1>6 DEF NewTuple
  <2> QED
    BY <2>1 DEF Waiting
<1> QED
  BY <1>3, <1>4, <1>5, <1>6

(* What becomes of the lines in tuples.                                    *)
LEMMA DataMoves ==
  ASSUME DataOnce
  PROVE  /\ Waiting' = Waiting => DataOnce' /\ \A v : InData(v)' <=> InData(v)
         /\ \A p \in Waiting : Waiting' = Waiting \ {p} =>
              DataOnce' /\ InData(p[2]) /\ \A v : InData(v)' <=> InData(v) /\ v # p[2]
         /\ \A p : Waiting' = Waiting \cup {p} /\ ~InData(p[2]) =>
              DataOnce' /\ \A v : InData(v)' <=> InData(v) \/ v = p[2]
<1>1. Waiting' = Waiting => DataOnce' /\ \A v : InData(v)' <=> InData(v)
  BY DEF DataOnce, InData
<1>2. ASSUME NEW p \in Waiting, Waiting' = Waiting \ {p}
      PROVE  DataOnce' /\ InData(p[2]) /\ \A v : InData(v)' <=> InData(v) /\ v # p[2]
  <2>1. DataOnce'
    BY <1>2 DEF DataOnce
  <2>2. InData(p[2])
    BY DEF InData
  <2>3. \A v : InData(v)' <=> InData(v) /\ v # p[2]
    BY <1>2 DEF InData, DataOnce
  <2> QED
    BY <2>1, <2>2, <2>3
<1>3. ASSUME NEW p, Waiting' = Waiting \cup {p}, ~InData(p[2])
      PROVE  DataOnce' /\ \A v : InData(v)' <=> InData(v) \/ v = p[2]
  <2>1. DataOnce'
    BY <1>3 DEF DataOnce, InData
  <2>2. \A v : InData(v)' <=> InData(v) \/ v = p[2]
    BY <1>3 DEF InData
  <2> QED
    BY <2>1, <2>2
<1> QED
  BY <1>1, <1>2, <1>3

(* A line is appended to the output file.                                  *)
LEMMA OutputGrows ==
  ASSUME output \in Seq(Lines), NEW w \in Lines, output' = Append(output, w)
  PROVE  /\ \A v : InOutput(v)' <=> InOutput(v) \/ v = w
         /\ OutputOnce /\ ~InOutput(w) => OutputOnce'
<1>1. PICK y : y = Append(output, w)
  OBVIOUS
<1>2. /\ Len(output) \in Nat /\ Len(y) = Len(output) + 1 /\ y[Len(output) + 1] = w
      /\ \A n \in 1 .. Len(output) : y[n] = output[n]
  BY <1>1
<1>3. output' = y
  BY <1>1
<1>4. \A n \in 1 .. Len(y) : n \in 1 .. Len(output) \/ n = Len(output) + 1
  BY <1>2
<1>5. OutputOnce /\ ~InOutput(w) => OutputOnce'
  BY <1>2, <1>3, <1>4 DEF OutputOnce, InOutput
<1>6. Len(output) + 1 \in 1 .. Len(y) /\ \A n \in 1 .. Len(output) : n \in 1 .. Len(y)
  BY <1>2
<1>7. \A v : InOutput(v)' <=> InOutput(v) \/ v = w
  BY <1>2, <1>3, <1>4, <1>6 DEF InOutput
<1> QED
  BY <1>5, <1>7

(* The same output file has the same lines.                                *)
LEMMA OutputKept ==
  ASSUME output' = output
  PROVE  (OutputOnce' <=> OutputOnce) /\ \A v : InOutput(v)' <=> InOutput(v)
BY DEF OutputOnce, InOutput

(* Line v stays where it is.                                               *)
Stays(v) ==
  (InStdin(v)' <=> InStdin(v)) /\ (InData(v)' <=> InData(v)) /\ (InOutput(v)' <=> InOutput(v))

(* Line w moves from a tuple to stdin, or from stdin to the output or to a *)
(* tuple.                                                                  *)
Moves(w) ==
  \/ InData(w) /\ ~InData(w)' /\ InStdin(w)' /\ (InOutput(w)' <=> InOutput(w))
  \/ InStdin(w) /\ ~InStdin(w)' /\ InOutput(w)' /\ (InData(w)' <=> InData(w))
  \/ InStdin(w) /\ ~InStdin(w)' /\ InData(w)' /\ (InOutput(w)' <=> InOutput(w))

Enters(w) ==
  w = source.seq + 1 /\ source'.seq = w /\ InData(w)' /\ ~InStdin(w)' /\ ~InOutput(w)'

LineMoves ==
  \/ source'.seq = source.seq /\ \A v : Stays(v)
  \/ source'.seq = source.seq /\ \E w \in Lines : Moves(w) /\ \A v : v # w => Stays(v)
  \/ \E w \in Lines : Enters(w) /\ \A v : v # w => Stays(v)

(* A step moves at most one line, if no tuple is taken by two tasks.       *)
LEMMA OneMoves ==
  ASSUME TypeInv, GrowInv, IdInv, FreshInv, SettledInv, TakenOnce, ReadOnly, OnePlace, Apart,
         [Next]_vars, Growing'
  PROVE  OnePlace' /\ LineMoves
<1>i. NoneRetired /\ OnlyMapped /\ IdsIssued /\ IdsAgree /\ Backed
  BY DEF TakenOnce, GrowInv, IdInv
<1>o. DataOnce /\ StdinOnce /\ OutputOnce
  BY DEF OnePlace
<1>t. /\ Len(task) \in Nat /\ output \in Seq(Lines) /\ source.seq \in 0 .. NumLines
      /\ \A i \in 1 .. Len(task) : task[i].Stdin \in Seq(Lines)
      /\ \A m \in Data : m.val \in Lines
  BY PlacesTyped DEF TypeInv, LogsTyped
<1>a. \A v \in Lines : ~(InData(v) /\ InStdin(v)) /\ ~(InOutput(v) /\ (InStdin(v) \/ InData(v)))
  BY DEF Apart
<1>1. CASE Quiet
  <2>1. /\ Len(task') = Len(task) /\ \A j \in 1 .. Len(task) : task'[j].Stdin = task[j].Stdin
        /\ output' = output /\ source'.seq = source.seq
    BY <1>1, <1>t DEF Quiet, OthersStay, WorkStays
  <2>2. StdinOnce' /\ \A v : InStdin(v)' <=> InStdin(v)
    BY <1>o, <1>t, <2>1, StdinKept
  <2>3. DataOnce' /\ \A v : InData(v)' <=> InData(v)
    BY <1>o, <1>i, <1>t, <1>1, WaitingSteps, DataMoves
  <2>4. OutputOnce' /\ \A v : InOutput(v)' <=> InOutput(v)
    BY <1>o, <2>1, OutputKept
  <2>5. \A v : Stays(v)
    BY <2>2, <2>3, <2>4 DEF Stays
  <2> QED
    BY <2>1, <2>2, <2>3, <2>4, <2>5 DEF OnePlace, LineMoves
<1>2. CASE AddsIdle
  <2>1. /\ Len(task') = Len(task) + 1 /\ \A j \in 1 .. Len(task) : task'[j].Stdin = task[j].Stdin
        /\ task'[Len(task) + 1].Stdin = <<>> /\ output' = output /\ source' = source
    BY <1>2 DEF AddsIdle, WorkStays
  <2>2. StdinOnce' /\ \A v : InStdin(v)' <=> InStdin(v)
    BY <1>o, <1>t, <2>1, StdinKept
  <2>3. DataOnce' /\ \A v : InData(v)' <=> InData(v)
    BY <1>o, <1>i, <1>t, <1>2, WaitingSteps, DataMoves
  <2>4. OutputOnce' /\ \A v : InOutput(v)' <=> InOutput(v)
    BY <1>o, <2>1, OutputKept
  <2>5. \A v : Stays(v)
    BY <2>2, <2>3, <2>4 DEF Stays
  <2> QED
    BY <2>1, <2>2, <2>3, <2>4, <2>5 DEF OnePlace, LineMoves
<1>3. ASSUME NEW m \in Data, NEW i \in 1 .. Len(task), PushTuple(m), Accepts(m, i)
      PROVE  OnePlace' /\ LineMoves
  <2>1. PICK w \in Lines : w = m.val
    BY <1>t
  <2>o. <<m.id, m.val>> \in Waiting
    BY <1>3, TakenByOne DEF Waiting
  <2>q. PICK p \in Waiting : p = <<m.id, m.val>>
    BY <2>o
  <2>p. p[2] = w
    BY <2>1, <2>q
  <2>2. /\ Len(task') = Len(task) /\ output' = output /\ source' = source
        /\ task'[i].Stdin = Append(task[i].Stdin, w)
        /\ \A j \in 1 .. Len(task) : j # i => task'[j].Stdin = task[j].Stdin
    BY <1>3, <2>1 DEF Accepts, OthersStay, WorkStays
  <2>w. Waiting' = Waiting \ {p}
    BY <1>3, <1>i, <1>t, <2>q, WaitingSteps
  <2>3. DataOnce' /\ InData(w) /\ \A v : InData(v)' <=> InData(v) /\ v # w
    BY <1>o, <2>p, <2>w, DataMoves
  <2>4. ~InStdin(w)
    BY <1>a, <2>3
  <2>5. StdinOnce' /\ \A v : InStdin(v)' <=> InStdin(v) \/ v = w
    BY <1>o, <1>t, <2>2, <2>4, StdinGrows
  <2>6. OutputOnce' /\ \A v : InOutput(v)' <=> InOutput(v)
    BY <1>o, <2>2, OutputKept
  <2>7. Moves(w) /\ \A v : v # w => Stays(v)
    BY <2>3, <2>5, <2>6 DEF Moves, Stays
  <2> QED
    BY <2>2, <2>3, <2>5, <2>6, <2>7 DEF OnePlace, LineMoves
<1>4. ASSUME NEW i \in 1 .. Len(task), Works(i)
      PROVE  \E w \in Lines : /\ w = Head(task[i].Stdin) /\ source' = source
                              /\ InStdin(w) /\ StdinOnce'
                              /\ \A v : InStdin(v)' <=> InStdin(v) /\ v # w
  <2>1. /\ Len(task') = Len(task) /\ source' = source /\ task[i].Stdin # <<>>
        /\ task'[i].Stdin = Tail(task[i].Stdin)
        /\ \A j \in 1 .. Len(task) : j # i => task'[j].Stdin = task[j].Stdin
    BY <1>4 DEF Works, OthersStay, WorkStays
  <2> QED
    BY <1>o, <1>t, <2>1, StdinShrinks
<1>5. ASSUME NEW i \in 1 .. Len(task), Outputs(i) PROVE OnePlace' /\ LineMoves
  <2>1. PICK w \in Lines : /\ w = Head(task[i].Stdin) /\ source' = source
                           /\ InStdin(w) /\ StdinOnce'
                           /\ \A v : InStdin(v)' <=> InStdin(v) /\ v # w
    BY <1>4, <1>5 DEF Outputs
  <2>2. output' = Append(output, w) /\ Waiting' = Waiting
    BY <1>5, <1>i, <1>t, <2>1, WaitingSteps DEF Outputs
  <2>3. OutputOnce' /\ \A v : InOutput(v)' <=> InOutput(v) \/ v = w
    BY <1>a, <1>o, <1>t, <2>1, <2>2, OutputGrows
  <2>4. DataOnce' /\ \A v : InData(v)' <=> InData(v)
    BY <1>o, <2>2, DataMoves
  <2>5. Moves(w) /\ \A v : v # w => Stays(v)
    BY <2>1, <2>3, <2>4 DEF Moves, Stays
  <2> QED
    BY <2>1, <2>3, <2>4, <2>5 DEF OnePlace, LineMoves
<1>6. ASSUME NEW i \in 1 .. Len(task), NEW e, Sends(i, e) PROVE OnePlace' /\ LineMoves
  <2>1. PICK w \in Lines : /\ w = Head(task[i].Stdin) /\ source' = source
                           /\ InStdin(w) /\ StdinOnce'
                           /\ \A v : InStdin(v)' <=> InStdin(v) /\ v # w
    BY <1>4, <1>6 DEF Sends
  <2>n. NewTuple(e) /\ output' = output /\ e.val = w
    BY <1>6, <1>i, <2>1, NewTuples DEF Sends
  <2>q. PICK p : p = <<e.id, e.val>>
    OBVIOUS
  <2>p. p[2] = w
    BY <2>n, <2>q
  <2>2. output' = output /\ Waiting' = Waiting \cup {p}
    BY <1>i, <1>t, <2>n, <2>q, WaitingSteps
  <2>3. OutputOnce' /\ \A v : InOutput(v)' <=> InOutput(v)
    BY <1>o, <2>2, OutputKept
  <2>4. DataOnce' /\ \A v : InData(v)' <=> InData(v) \/ v = w
    BY <1>a, <1>o, <2>1, <2>2, <2>p, DataMoves
  <2>5. Moves(w) /\ \A v : v # w => Stays(v)
    BY <2>1, <2>3, <2>4 DEF Moves, Stays
  <2> QED
    BY <2>1, <2>3, <2>4, <2>5 DEF OnePlace, LineMoves
<1>7. ASSUME NEW e, Reads(e) PROVE OnePlace' /\ LineMoves
  <2>1. PICK w \in Lines : w = source.seq + 1 /\ source'.seq = w /\ e.val = w
    BY <1>7 DEF Reads
  <2>2. /\ Len(task') = Len(task) /\ \A j \in 1 .. Len(task) : task'[j].Stdin = task[j].Stdin
        /\ output' = output
    BY <1>7, <1>t DEF Reads, OthersStay, WorkStays
  <2>q. PICK p : p = <<e.id, e.val>>
    OBVIOUS
  <2>p. p[2] = w
    BY <2>1, <2>q
  <2>w. Waiting' = Waiting \cup {p}
    BY <1>7, <1>i, <1>t, <2>q, NewTuples, WaitingSteps
  <2>3. ~(w <= source.seq)
    BY <1>t, <2>1
  <2>4. ~InStdin(w) /\ ~InData(w) /\ ~InOutput(w)
    BY <2>3 DEF ReadOnly
  <2>5. StdinOnce' /\ \A v : InStdin(v)' <=> InStdin(v)
    BY <1>o, <1>t, <2>2, StdinKept
  <2>6. DataOnce' /\ \A v : InData(v)' <=> InData(v) \/ v = w
    BY <1>o, <2>p, <2>w, <2>4, DataMoves
  <2>7. OutputOnce' /\ \A v : InOutput(v)' <=> InOutput(v)
    BY <1>o, <2>2, OutputKept
  <2>8. Enters(w) /\ \A v : v # w => Stays(v)
    BY <2>1, <2>4, <2>5, <2>6, <2>7 DEF Enters, Stays
  <2> QED
    BY <2>5, <2>6, <2>7, <2>8 DEF OnePlace, LineMoves
<1> QED
  BY <1>1, <1>2, <1>3, <1>5, <1>6, <1>7, <1>i, TokenSteps

(* Every step of a growing job keeps TokenInv.                             *)
LEMMA NextTokens ==
  TypeInv /\ GrowInv /\ IdInv /\ FreshInv /\ SettledInv /\ TokenInv /\ [Next]_vars => TokenInv'
<1> SUFFICES ASSUME TypeInv, GrowInv, IdInv, FreshInv, SettledInv, TokenInv, [Next]_vars,
                    TakenOnce'
             PROVE  (ReadOnly /\ OnePlace /\ Apart)'
  BY DEF TokenInv
<1>0. Growing' /\ TakenOnce
  BY GrowingBefore, CountsBefore DEF TakenOnce
<1>1. ReadOnly /\ OnePlace /\ Apart
  BY <1>0 DEF TokenInv
<1>2. OnePlace' /\ LineMoves
  BY <1>0, <1>1, OneMoves
<1>3. source.seq \in Nat
  BY ConstTypes DEF TypeInv, SourceTyped, SourceRec
<1>4. CASE source'.seq = source.seq /\ \A v : Stays(v)
  <2>1. ReadOnly'
    BY <1>1, <1>4 DEF ReadOnly, Stays
  <2>2. Apart'
    BY <1>1, <1>4 DEF Apart, Stays
  <2> QED
    BY <1>2, <2>1, <2>2
<1>5. ASSUME NEW w \in Lines, source'.seq = source.seq, Moves(w), \A v : v # w => Stays(v)
      PROVE  ReadOnly' /\ Apart'
  <2>1. ASSUME NEW v \in Lines, InStdin(v)' \/ InData(v)' \/ InOutput(v)'
        PROVE  v <= source'.seq
    <3>1. InStdin(v) \/ InData(v) \/ InOutput(v)
      BY <1>5, <2>1 DEF Moves, Stays
    <3> QED
      BY <1>1, <1>5, <3>1 DEF ReadOnly
  <2>2. ASSUME NEW v \in Lines
        PROVE  ~(InData(v)' /\ InStdin(v)') /\ ~(InOutput(v)' /\ (InStdin(v)' \/ InData(v)'))
    <3>1. ~(InData(v) /\ InStdin(v)) /\ ~(InOutput(v) /\ (InStdin(v) \/ InData(v)))
      BY <1>1 DEF Apart
    <3>2. CASE v = w
      BY <1>5, <3>1, <3>2 DEF Moves
    <3>3. CASE v # w
      BY <1>5, <3>1, <3>3 DEF Stays
    <3> QED
      BY <3>2, <3>3
  <2> QED
    BY <2>1, <2>2 DEF ReadOnly, Apart
<1>6. ASSUME NEW w \in Lines, Enters(w), \A v : v # w => Stays(v)
      PROVE  ReadOnly' /\ Apart'
  <2>1. ASSUME NEW v \in Lines, InStdin(v)' \/ InData(v)' \/ InOutput(v)'
        PROVE  v <= source'.seq
    <3>1. v \in Nat /\ source'.seq = source.seq + 1 /\ w = source.seq + 1
      BY <1>6, ConstTypes DEF Enters
    <3>2. CASE v = w
      BY <1>3, <3>1, <3>2
    <3>3. CASE v # w
      <4>1. InStdin(v) \/ InData(v) \/ InOutput(v)
        BY <1>6, <2>1, <3>3 DEF Stays
      <4>2. v <= source.seq
        BY <1>1, <4>1 DEF ReadOnly
      <4> QED
        BY <1>3, <3>1, <4>2
    <3> QED
      BY <3>2, <3>3
  <2>2. ASSUME NEW v \in Lines
        PROVE  ~(InData(v)' /\ InStdin(v)') /\ ~(InOutput(v)' /\ (InStdin(v)' \/ InData(v)'))
    <3>1. ~(InData(v) /\ InStdin(v)) /\ ~(InOutput(v) /\ (InStdin(v) \/ InData(v)))
      BY <1>1 DEF Apart
    <3>2. CASE v = w
      BY <1>6, <3>2 DEF Enters
    <3>3. CASE v # w
      BY <1>6, <3>1, <3>3 DEF Stays
    <3> QED
      BY <3>2, <3>3
  <2> QED
    BY <2>1, <2>2 DEF ReadOnly, Apart
<1> QED
  BY <1>2, <1>4, <1>5, <1>6 DEF LineMoves

(* Every step of a growing job keeps PresentInv.                           *)
LEMMA NextPresent ==
  TypeInv /\ GrowInv /\ IdInv /\ PresentInv /\ [Next]_vars => PresentInv'
<1> SUFFICES ASSUME TypeInv, GrowInv, IdInv, PresentInv, [Next]_vars, Growing',
                    NEW v \in 1 .. source'.seq
             PROVE  InStdin(v)' \/ InData(v)' \/ InOutput(v)'
  BY DEF PresentInv
<1>i. NoneRetired /\ OnlyMapped /\ IdsIssued /\ IdsAgree /\ Backed /\ Growing
  BY GrowingBefore DEF GrowInv, IdInv
<1>t. /\ Len(task) \in Nat /\ output \in Seq(Lines) /\ source.seq \in 0 .. NumLines
      /\ \A i \in 1 .. Len(task) : task[i].Stdin \in Seq(Lines)
      /\ \A m \in Data : m.val \in Lines
  BY PlacesTyped DEF TypeInv, LogsTyped
<1>p. \A u \in 1 .. source.seq : InStdin(u) \/ InData(u) \/ InOutput(u)
  BY <1>i DEF PresentInv
<1>1. CASE Quiet \/ AddsIdle
  <2>1. /\ \A j \in 1 .. Len(task) : task'[j].Stdin = task[j].Stdin
        /\ output' = output /\ source'.seq = source.seq
        /\ \/ Len(task') = Len(task)
           \/ Len(task') = Len(task) + 1 /\ task'[Len(task) + 1].Stdin = <<>>
    BY <1>1, <1>t DEF Quiet, AddsIdle, OthersStay, WorkStays
  <2>2. InStdin(v)' <=> InStdin(v)
    BY <1>t, <2>1, StdinKept
  <2>3. InData(v)' <=> InData(v)
    BY <1>1, <1>i, <1>t, WaitingSteps DEF InData
  <2>4. InOutput(v)' <=> InOutput(v)
    BY <2>1, OutputKept
  <2> QED
    BY <1>p, <2>1, <2>2, <2>3, <2>4
<1>2. ASSUME NEW m \in Data, NEW i \in 1 .. Len(task), Accepts(m, i)
      PROVE  InStdin(v)' \/ InData(v)' \/ InOutput(v)'
  <2>1. PICK w \in Lines : w = m.val
    BY <1>t
  <2>2. /\ Len(task') = Len(task) /\ output' = output /\ source' = source
        /\ task'[i].Stdin = Append(task[i].Stdin, w)
        /\ \A j \in 1 .. Len(task) : j # i => task'[j].Stdin = task[j].Stdin
    BY <1>2, <2>1 DEF Accepts, OthersStay, WorkStays
  <2>3. InStdin(v)' <=> InStdin(v) \/ v = w
    BY <1>t, <2>2, StdinGrows
  <2>4. Waiting' = Waiting \ {<<m.id, m.val>>}
    BY <1>2, <1>i, <1>t, WaitingSteps
  <2>5. InData(v) => InData(v)' \/ v = w
    BY <2>1, <2>4 DEF InData
  <2>6. InOutput(v)' <=> InOutput(v)
    BY <2>2, OutputKept
  <2> QED
    BY <1>p, <2>2, <2>3, <2>5, <2>6
<1>3. ASSUME NEW i \in 1 .. Len(task), Works(i)
      PROVE  \E w \in Lines : /\ w = Head(task[i].Stdin) /\ source' = source
                              /\ InStdin(v) => InStdin(v)' \/ v = w
  <2>1. /\ Len(task') = Len(task) /\ source' = source /\ task[i].Stdin # <<>>
        /\ task'[i].Stdin = Tail(task[i].Stdin)
        /\ \A j \in 1 .. Len(task) : j # i => task'[j].Stdin = task[j].Stdin
    BY <1>3 DEF Works, OthersStay, WorkStays
  <2> QED
    BY <1>t, <2>1, StdinShrinks
<1>4. ASSUME NEW i \in 1 .. Len(task), Outputs(i) PROVE InStdin(v)' \/ InData(v)' \/ InOutput(v)'
  <2>1. PICK w \in Lines : /\ w = Head(task[i].Stdin) /\ source' = source
                           /\ InStdin(v) => InStdin(v)' \/ v = w
    BY <1>3, <1>4 DEF Outputs
  <2>2. output' = Append(output, w) /\ Waiting' = Waiting
    BY <1>4, <1>i, <1>t, <2>1, WaitingSteps DEF Outputs
  <2>3. InOutput(v)' <=> InOutput(v) \/ v = w
    BY <1>t, <2>2, OutputGrows
  <2>4. InData(v)' <=> InData(v)
    BY <2>2 DEF InData
  <2> QED
    BY <1>p, <2>1, <2>3, <2>4
<1>5. ASSUME NEW e, NewTuple(e)
      PROVE  InData(e.val)' /\ (InData(v) => InData(v)')
  <2>1. PICK p : p = <<e.id, e.val>>
    OBVIOUS
  <2>2. p[2] = e.val
    BY <2>1
  <2>3. Waiting' = Waiting \cup {p}
    BY <1>5, <1>i, <1>t, <2>1, WaitingSteps
  <2> QED
    BY <2>2, <2>3 DEF InData
<1>6. ASSUME NEW i \in 1 .. Len(task), NEW e, Sends(i, e)
      PROVE  InStdin(v)' \/ InData(v)' \/ InOutput(v)'
  <2>1. PICK w \in Lines : /\ w = Head(task[i].Stdin) /\ source' = source
                           /\ InStdin(v) => InStdin(v)' \/ v = w
    BY <1>3, <1>6 DEF Sends
  <2>2. NewTuple(e) /\ output' = output /\ e.val = w
    BY <1>6, <1>i, <2>1, NewTuples DEF Sends
  <2>3. InOutput(v)' <=> InOutput(v)
    BY <2>2, OutputKept
  <2>4. InData(w)' /\ (InData(v) => InData(v)')
    BY <1>5, <2>2
  <2> QED
    BY <1>p, <2>1, <2>3, <2>4
<1>7. ASSUME NEW e, Reads(e) PROVE InStdin(v)' \/ InData(v)' \/ InOutput(v)'
  <2>1. /\ Len(task') = Len(task) /\ \A j \in 1 .. Len(task) : task'[j].Stdin = task[j].Stdin
        /\ output' = output /\ source'.seq = source.seq + 1 /\ e.val = source'.seq
    BY <1>7, <1>t DEF Reads, OthersStay, WorkStays
  <2>2. InData(e.val)' /\ (InData(v) => InData(v)')
    BY <1>5, <1>7, <1>i, NewTuples
  <2>3. InStdin(v)' <=> InStdin(v)
    BY <1>t, <2>1, StdinKept
  <2>4. InOutput(v)' <=> InOutput(v)
    BY <2>1, OutputKept
  <2>5. v \in 1 .. source.seq \/ v = e.val
    BY <1>t, <2>1
  <2> QED
    BY <1>p, <2>2, <2>3, <2>4, <2>5
<1> QED
  BY <1>1, <1>2, <1>4, <1>6, <1>7, <1>i, TokenSteps

(* Initially no line is anywhere.                                          *)
LEMMA InitTokens == Init => TokenInv /\ PresentInv
<1> SUFFICES ASSUME Init
             PROVE  ReadOnly /\ OnePlace /\ Apart /\ \A v \in 1 .. source.seq : FALSE
  BY DEF TokenInv, PresentInv
<1>0. Len(<<>>) = 0
  OBVIOUS
<1>1. Data = {} /\ \A i \in 1 .. Len(task) : task[i].Stdin = <<>>
  BY InitTasks DEF Init, Data
<1>2. Len(output) = 0 /\ source.seq = 0
  BY <1>0 DEF Init
<1>3. \A i \in 1 .. Len(task) : Len(task[i].Stdin) = 0
  BY <1>0, <1>1
<1>w. Waiting = {}
  BY <1>1 DEF Waiting
<1>4. \A v : ~InStdin(v) /\ ~InData(v) /\ ~InOutput(v)
  BY <1>w, <1>2, <1>3 DEF InStdin, InData, InOutput
<1>5. OnePlace
  BY <1>w, <1>2, <1>3 DEF OnePlace, DataOnce, StdinOnce, OutputOnce
<1> QED
  BY <1>2, <1>4, <1>5 DEF ReadOnly, Apart

(* All that holds while the job only grows.                                *)
GrowthInv ==
  GrowInv /\ IdInv /\ FreshInv /\ SettledInv /\ TokenInv /\ PresentInv

(* GrowthInv holds in every reachable state.                               *)
LEMMA GrowHolds == Spec => []GrowthInv
<1>1. Init => TypeInv /\ RouteInv /\ GrowthInv
  BY InitTypes, InitRoutes, InitGrow, InitIds, InitTokens DEF GrowthInv
<1>2. TypeInv /\ RouteInv /\ GrowthInv /\ [Next]_vars => TypeInv' /\ RouteInv' /\ GrowthInv'
  BY NextTypes, NextRoute, NextGrow, NextIds, NextFresh, NextSettled, NextTokens, NextPresent
  DEF GrowthInv
<1> QED
  BY <1>1, <1>2, PTL DEF Spec

(* Each line that is in some place is on its way or written.               *)
LEMMA NoLossFollows == TypeInv /\ IdInv /\ PresentInv => NoLossWhileGrowing
<1> SUFFICES ASSUME TypeInv, IdInv, PresentInv, Growing, NEW v \in 1 .. source.seq
             PROVE  Written(v) # {} \/ OnItsWay(v)
  BY DEF NoLossWhileGrowing, AtLeastOnce
<1>t. /\ DOMAIN task = 1 .. Len(task) /\ DOMAIN output = 1 .. Len(output)
      /\ \A i \in 1 .. Len(task) : DOMAIN task[i].Stdin = 1 .. Len(task[i].Stdin)
  BY PlacesTyped DEF TypeInv, TasksTyped, LogsTyped
<1>1. InStdin(v) \/ InData(v) \/ InOutput(v)
  BY DEF PresentInv
<1>2. InStdin(v) => OnItsWay(v)
  BY <1>t DEF InStdin, OnItsWay
<1>3. InData(v) => OnItsWay(v)
  <2> SUFFICES ASSUME InData(v) PROVE OnItsWay(v)
    OBVIOUS
  <2>1. PICK m \in Data : ~Accepted(m.id) /\ m.val = v
    BY DEF InData, Waiting
  <2>2. PICK n \in Data : n.id = m.id /\ n.late = 0
    BY <2>1 DEF IdInv, Backed
  <2>3. n.val = v
    BY <2>1, <2>2 DEF IdInv, IdsAgree, Copies
  <2> QED
    BY <2>2, <2>3 DEF Data, OnItsWay
<1>4. InOutput(v) => Written(v) # {}
  BY <1>t DEF InOutput, Written
<1> QED
  BY <1>1, <1>2, <1>3, <1>4

(* Adding tasks loses nothing: as long as the job only grows, a line that  *)
(* the source has sent is in the output or on its way to it, whatever      *)
(* calls of the scaler are lost and whatever calls of PushTuple are given  *)
(* up; old routing lists still lead to tasks that the map has, and the     *)
(* caller of a tuple that no task has taken goes on.                       *)
THEOREM GrowthLosesNothing == Spec => []NoLossWhileGrowing
<1>1. TypeInv /\ GrowthInv => NoLossWhileGrowing
  BY NoLossFollows DEF GrowthInv
<1> QED
  BY <1>1, TypesHold, GrowHolds, PTL

(* A line that is in one place of the output is written once.              *)
LEMMA NoDuplicateFollows == TypeInv /\ TokenInv => NoDuplicateWhileGrowing
<1> SUFFICES ASSUME TypeInv, TokenInv, TakenOnce, NEW v \in Lines
             PROVE  Cardinality(Written(v)) <= 1
  BY DEF NoDuplicateWhileGrowing, TakenOnce
<1>1. DOMAIN output = 1 .. Len(output) /\ OutputOnce
  BY DEF TypeInv, LogsTyped, TokenInv, OnePlace
<1>2. CASE Written(v) = {}
  BY <1>2, FS_EmptySet
<1>3. CASE Written(v) # {}
  <2>1. PICK n : n \in Written(v)
    BY <1>3
  <2>2. Written(v) = {n}
    BY <1>1, <2>1 DEF Written, OutputOnce
  <2> QED
    BY <2>2, FS_Singleton
<1> QED
  BY <1>2, <1>3

(* No line is twice in the output of a job to which tasks were added, or   *)
(* in which calls of PushTuple were given up, but not both: without calls  *)
(* given up no tuple is sent after it was taken, and without added tasks   *)
(* it is sent again to the task that took it, which knows its id, whenever *)
(* the calls that were given up are served.                                *)
THEOREM GrowthRepeatsNothing == Spec => []NoDuplicateWhileGrowing
<1>1. TypeInv /\ GrowthInv => NoDuplicateWhileGrowing
  BY NoDuplicateFollows DEF GrowthInv
<1> QED
  BY <1>1, TypesHold, GrowHolds, PTL
=============================================================================
