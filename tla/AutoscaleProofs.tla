-------------------------- MODULE AutoscaleProofs ---------------------------
(***************************************************************************)
(* Proofs about Autoscale, for any number of stages, tasks, workers, lines *)
(* and scalings.  IndexIsTaskID speaks of cardinalities; what is inductive *)
(* is that the ids of every stage are an interval from 0, together with    *)
(* the stage that the monitor remembers while it adds a task (IndexInv).   *)
(* The types need what travels to be typed too (TypeInv).  RoutesCurrent   *)
(* needs that an update is on its way to every worker with a task that     *)
(* routes by an old list, until the monitor has waited for it (RouteInv).  *)
(***************************************************************************)
EXTENDS Autoscale, FiniteSetTheorems, WellFoundedInduction, TLAPS

(* S is 0 .. n - 1 for some n > 0.                                         *)
Contiguous(S) == \E n \in Nat \ {0} : S = 0 .. n - 1

MapContiguous ==
  /\ DOMAIN GlobalTaskMap = Stages
  /\ \A s \in Stages : Contiguous(DOMAIN GlobalTaskMap[s])

ScalerStage ==
  /\ {"pc", "stage"} \subseteq DOMAIN scaler
  /\ scaler.pc = "map" => scaler.stage \in Stages

IndexInv == MapContiguous /\ ScalerStage

-----------------------------------------------------------------------------
(* The greatest id of a stage is the number of its tasks minus one.        *)
LEMMA MaxIdIsLast ==
  ASSUME NEW s, NEW n \in Nat \ {0}, DOMAIN GlobalTaskMap[s] = 0 .. n - 1
  PROVE  MaxId(s) = n - 1 /\ Count(s) = n
<1> DEFINE Greatest(t) == \A u \in 0 .. n - 1 : u <= t
<1>1. n - 1 \in 0 .. n - 1 /\ Greatest(n - 1)
  OBVIOUS
<1>2. \A t \in 0 .. n - 1 : Greatest(t) => t = n - 1
  OBVIOUS
<1>3. MaxId(s) = CHOOSE t \in 0 .. n - 1 : Greatest(t)
  BY DEF MaxId
<1> HIDE DEF Greatest
<1>4. MaxId(s) = n - 1
  BY <1>1, <1>2, <1>3
<1>5. Count(s) = n
  <2>1. 0 \in Int /\ n - 1 \in Int /\ ~(0 > n - 1)
    OBVIOUS
  <2>2. Cardinality(0 .. n - 1) = n - 1 - 0 + 1
    BY <2>1, FS_Interval
  <2>3. QED BY <2>2 DEF Count
<1>6. QED BY <1>4, <1>5

(* A new entry extends the keys of a Go map by its key.                    *)
LEMMA PutDomain ==
  ASSUME NEW f, NEW k, NEW v
  PROVE  DOMAIN Put(f, k, v) = DOMAIN f \cup {k}
BY DEF Put

(* The ids of every stage are an interval initially.                       *)
LEMMA InitIndex == Init => IndexInv
<1> SUFFICES ASSUME Init PROVE IndexInv
  OBVIOUS
<1>1. DOMAIN GlobalTaskMap = Stages
  BY DEF Init
<1>2. \A s \in Stages : DOMAIN GlobalTaskMap[s] = 0 .. NumTasks - 1
  BY DEF Init
<1>3. MapContiguous
  BY <1>1, <1>2, AutoscaleAssumption DEF MapContiguous, Contiguous
<1>4. ScalerStage
  BY DEF Init, ScalerStage
<1>5. QED BY <1>3, <1>4 DEF IndexInv

(* The id of an added task continues the interval.                         *)
LEMMA ScaleUpContiguous ==
  ASSUME IndexInv, ScaleUpMap
  PROVE  IndexInv'
<1> DEFINE s == scaler.stage
<1>1. s \in Stages /\ DOMAIN GlobalTaskMap = Stages
  BY DEF IndexInv, ScalerStage, MapContiguous, ScaleUpMap
<1>2. PICK n \in Nat \ {0} : DOMAIN GlobalTaskMap[s] = 0 .. n - 1
  BY <1>1 DEF IndexInv, MapContiguous, Contiguous
<1>3. NewId(s) = n
  <2>1. MaxId(s) = n - 1
    BY <1>2, MaxIdIsLast
  <2>2. QED BY <2>1 DEF NewId
<1>4. PICK e : GlobalTaskMap' = [GlobalTaskMap EXCEPT ![s] = Put(@, NewId(s), e)]
  BY DEF ScaleUpMap
<1>5. DOMAIN GlobalTaskMap'[s] = (0 .. n - 1) \cup {n}
  BY <1>1, <1>2, <1>3, <1>4, PutDomain
<1>6. \A r \in Stages : r # s => GlobalTaskMap'[r] = GlobalTaskMap[r]
  BY <1>1, <1>4
<1>7. MapContiguous'
  <2>1. (0 .. n - 1) \cup {n} = 0 .. (n + 1) - 1 /\ n + 1 \in Nat \ {0}
    OBVIOUS
  <2>2. Contiguous(DOMAIN GlobalTaskMap'[s])
    BY <1>5, <2>1 DEF Contiguous
  <2>3. \A r \in Stages : Contiguous(DOMAIN GlobalTaskMap'[r])
    BY <2>2, <1>6 DEF IndexInv, MapContiguous
  <2>4. DOMAIN GlobalTaskMap' = Stages
    BY <1>1, <1>4
  <2>5. QED BY <2>3, <2>4 DEF MapContiguous
<1>8. ScalerStage'
  BY DEF ScaleUpMap, IndexInv, ScalerStage
<1>9. QED BY <1>7, <1>8 DEF IndexInv

(* The victim is the end of the interval, and the stage has another task.  *)
LEMMA ScaleDownContiguous ==
  ASSUME IndexInv, NEW s \in Stages, ScaleDownMap(s)
  PROVE  IndexInv'
<1>1. DOMAIN GlobalTaskMap = Stages
  BY DEF IndexInv, MapContiguous
<1>2. PICK n \in Nat \ {0} : DOMAIN GlobalTaskMap[s] = 0 .. n - 1
  BY DEF IndexInv, MapContiguous, Contiguous
<1>3. Victim(s) = n - 1 /\ n > 1
  BY <1>2, MaxIdIsLast DEF Victim, ScaleDownMap, ScalesDown
<1>4. GlobalTaskMap' = [GlobalTaskMap EXCEPT ![s] =
        Restrict(GlobalTaskMap[s], DOMAIN GlobalTaskMap[s] \ {Victim(s)})]
  BY DEF ScaleDownMap
<1>5. DOMAIN GlobalTaskMap'[s] = (0 .. n - 1) \ {n - 1}
  BY <1>1, <1>2, <1>3, <1>4 DEF Restrict
<1>6. \A r \in Stages : r # s => GlobalTaskMap'[r] = GlobalTaskMap[r]
  BY <1>1, <1>4
<1>7. MapContiguous'
  <2>1. (0 .. n - 1) \ {n - 1} = 0 .. (n - 1) - 1 /\ n - 1 \in Nat \ {0}
    BY <1>3
  <2>2. Contiguous(DOMAIN GlobalTaskMap'[s])
    BY <1>5, <2>1 DEF Contiguous
  <2>3. \A r \in Stages : Contiguous(DOMAIN GlobalTaskMap'[r])
    BY <2>2, <1>6 DEF IndexInv, MapContiguous
  <2>4. DOMAIN GlobalTaskMap' = Stages
    BY <1>1, <1>4
  <2>5. QED BY <2>3, <2>4 DEF MapContiguous
<1>8. ScalerStage'
  BY DEF ScaleDownMap, ScalerStage
<1>9. QED BY <1>7, <1>8 DEF IndexInv

(* A restart changes the PID of an entry.                                  *)
LEMMA RestartContiguous ==
  ASSUME IndexInv, NEW r, RestartMap(r)
  PROVE  IndexInv'
<1>1. \/ GlobalTaskMap' = GlobalTaskMap
      \/ GlobalTaskMap' = [GlobalTaskMap EXCEPT ![r.stage][r.id].PID = r.pid]
  BY DEF RestartMap
<1>2. /\ DOMAIN GlobalTaskMap' = DOMAIN GlobalTaskMap
      /\ \A s \in DOMAIN GlobalTaskMap :
           DOMAIN GlobalTaskMap'[s] = DOMAIN GlobalTaskMap[s]
  BY <1>1
<1>3. MapContiguous'
  BY <1>2 DEF IndexInv, MapContiguous
<1>4. ScalerStage'
  BY DEF RestartMap, IndexInv, ScalerStage
<1>5. QED BY <1>3, <1>4 DEF IndexInv

(* No other step touches the map, and what the monitor remembers is the    *)
(* stage that it scales.                                                   *)
LEMMA OtherSteps ==
  ASSUME IndexInv, UNCHANGED GlobalTaskMap,
         \/ UNCHANGED scaler
         \/ \E s \in Stages : ScaleUpStart(s)
         \/ BroadcastUpstream
         \/ ScalerStops
  PROVE  IndexInv'
<1>1. MapContiguous'
  BY DEF IndexInv, MapContiguous
<1>2. ScalerStage'
  <2>1. CASE UNCHANGED scaler
    BY <2>1 DEF IndexInv, ScalerStage
  <2>2. CASE \E s \in Stages : ScaleUpStart(s)
    BY <2>2 DEF ScaleUpStart, Tick, ScalerStage
  <2>3. CASE BroadcastUpstream
    BY <2>3 DEF BroadcastUpstream, Tick, ScalerStage
  <2>4. CASE ScalerStops
    BY <2>4 DEF ScalerStops, IndexInv, ScalerStage
  <2>5. QED BY <2>1, <2>2, <2>3, <2>4
<1>3. QED BY <1>1, <1>2 DEF IndexInv

(* Every step keeps IndexInv.                                              *)
LEMMA NextIndex == IndexInv /\ [Next]_vars => IndexInv'
<1> SUFFICES ASSUME IndexInv, [Next]_vars PROVE IndexInv'
  OBVIOUS
<1> USE DEF leaderVars
<1>1. CASE UNCHANGED vars
  BY <1>1, OtherSteps DEF vars
<1>2. CASE \E i \in DOMAIN task : UpdateRate(i) \/ TaskStep(i)
  BY <1>2, OtherSteps
  DEF UpdateRate, TaskStep, Operator, OperatorExit, HandleEOF, HandleEOSSent
<1>3. CASE \E c \in rates : StoreRate(c)
  BY <1>3, OtherSteps DEF StoreRate
<1>4. CASE Scaler
  <2>1. CASE \E s \in Stages : ScaleUpStart(s)
    <3>1. UNCHANGED GlobalTaskMap
      BY <2>1 DEF ScaleUpStart
    <3>2. QED BY <2>1, <3>1, OtherSteps
  <2>2. CASE \E s \in Stages : ScaleDownMap(s)
    BY <2>2, ScaleDownContiguous
  <2>3. CASE ScaleUpMap
    BY <2>3, ScaleUpContiguous
  <2>4. CASE BroadcastUpstream
    <3>1. UNCHANGED GlobalTaskMap
      BY <2>4 DEF BroadcastUpstream
    <3>2. QED BY <2>4, <3>1, OtherSteps
  <2>5. CASE ScalerStops
    <3>1. UNCHANGED GlobalTaskMap
      BY <2>5 DEF ScalerStops
    <3>2. QED BY <2>5, <3>1, OtherSteps
  <2>6. QED BY <1>4, <2>1, <2>2, <2>3, <2>4, <2>5 DEF Scaler
<1>5. CASE \E c \in calls : Handle(c) \/ CallLost(c)
  BY <1>5, OtherSteps
  DEF Handle, CallLost, UpdateDownstream, UpdateUpstream, KillTask,
      ProcessOrphanLog
<1>6. CASE \E g \in replays : ReplayLine(g)
  BY <1>6, OtherSteps DEF ReplayLine
<1>7. CASE \E m \in pushes : PushStep(m) \/ PushGivenUp(m)
  BY <1>7, OtherSteps
  DEF PushStep, SendTuple, PushNotFound, PushEOS, PushDuplicate, PushTuple,
      PushWriteFails, PushGivenUp
<1>8. CASE SourceLine \/ SourceStops \/ SourceEOS
  BY <1>8, OtherSteps DEF SourceLine, SourceStops, SourceEOS
<1>9. CASE \E r \in reports : TaskFinished(r)
  BY <1>9, OtherSteps DEF TaskFinished
<1>10. CASE \E r \in restarts : Restart(r) \/ RestartMap(r)
  <2>1. CASE \E r \in restarts : Restart(r)
    BY <2>1, OtherSteps DEF Restart
  <2>2. CASE \E r \in restarts : RestartMap(r)
    BY <2>2, RestartContiguous
  <2>3. QED BY <1>10, <2>1, <2>2
<1>11. QED
  BY <1>1, <1>2, <1>3, <1>4, <1>5, <1>6, <1>7, <1>8, <1>9, <1>10 DEF Next

(* An interval from 0 has as many ids as its end says.                     *)
LEMMA IndexFollows == IndexInv => IndexIsTaskID
<1> SUFFICES ASSUME IndexInv, NEW s \in Stages
             PROVE  DOMAIN GlobalTaskMap[s] = 0 .. Count(s) - 1 /\ Count(s) > 0
  BY DEF IndexIsTaskID
<1>1. PICK n \in Nat \ {0} : DOMAIN GlobalTaskMap[s] = 0 .. n - 1
  BY DEF IndexInv, MapContiguous, Contiguous
<1>2. Count(s) = n
  BY <1>1, MaxIdIsLast
<1>3. QED BY <1>1, <1>2

(* The position of a task in the list that getSortedStageWorkers returns   *)
(* is its task id, and every stage keeps a task, whatever is scaled,       *)
(* restarted or lost: scaleUp takes the greatest id plus one, scaleDown    *)
(* the greatest, and only from a stage with more than one task.            *)
THEOREM ListIndexIsTaskID == Spec => []IndexIsTaskID
<1>1. Init => IndexInv
  BY InitIndex
<1>2. IndexInv /\ [Next]_vars => IndexInv'
  BY NextIndex
<1>3. IndexInv => IndexIsTaskID
  BY IndexFollows
<1>4. QED BY <1>1, <1>2, <1>3, PTL DEF Spec
-----------------------------------------------------------------------------
(* Types.  TypeOK is not inductive: the types of the calls, pushes, logs   *)
(* and reports on their way are needed, and the bounds that keep ids, PIDs *)
(* and the indices of worker lists in range.                               *)

WorkerList(l) == l \in Seq(VMs) /\ Len(l) <= NumTasks + MaxUps

(* l may be the list by which a task of stage s routes.                    *)
ListFor(s, l) == WorkerList(l) /\ (s < NumStages => Len(l) > 0)

TasksTyped ==
  /\ task \in Seq(TaskRec) /\ ups \in 0 .. MaxUps
  /\ Len(task) <= MaxProcs - (MaxUps - ups)
  /\ \A i \in 1 .. Len(task) :
       task[i].log <= Len(task) /\ ListFor(task[i].stage, task[i].DownstreamList)

NodesTyped ==
  /\ rsTasks \in [VMs -> [Keys -> 0 .. Len(task)]]
  /\ pids \subseteq 1 .. Len(task)

LogsTyped ==
  /\ dedup \in Seq(Seq(Entries)) /\ Len(dedup) = Len(task)
  /\ output \in Seq(Lines)

PushFits(m) ==
  /\ m \in PushRec /\ m.org <= Len(task)
  /\ m.kind = "data" => m.val \in Lines
  /\ m.kind = "EOS" => m.pc = "call"
  /\ m.pc = "call" => m.vm \in VMs
  /\ m.late > 0 => m.pc = "call"
  /\ m.org = Source => m.stage = 1
  /\ m.org # Source => m.stage = task[m.org].stage + 1

PushesTyped == \A m \in pushes : PushFits(m)

ReplayFits(g) ==
  /\ g \in ReplayRec
  /\ g.task <= Len(task) /\ g.rest # <<>>

ReplaysTyped == \A g \in replays : ReplayFits(g)

SourceTyped == source \in SourceRec

InfoFits(e, s) ==
  e \in InfoRec /\ e.PID <= Len(task) /\ e.log <= Len(task) /\ ListFor(s, e.down)

MapTyped ==
  \A s \in Stages : \A t \in DOMAIN GlobalTaskMap[s] : InfoFits(GlobalTaskMap[s][t], s)

(* While a task that was started is not yet in the map, there is room.     *)
MapBounded ==
  \A s \in Stages : \A t \in DOMAIN GlobalTaskMap[s] :
    t < NumTasks + ups /\ (scaler.pc = "map" => t + 1 < NumTasks + ups)

RatesTyped ==
  /\ \A c \in rates : c \in RateRec
  /\ DOMAIN TaskRates = Stages
  /\ \A s \in Stages :
       /\ DOMAIN TaskRates[s] \subseteq Ids
       /\ \A t \in DOMAIN TaskRates[s] : TaskRates[s][t] \in Nat

ScalerTyped ==
  /\ scaler \in ScalerRec /\ scaler.pid <= Len(task)
  /\ scaler.pc \in {"map", "waiting"} => scaler.stage \in Stages /\ scaler.pid # 0

CallFits(c) ==
  /\ c \in CallRec /\ c.stage \in Stages /\ c.id \in Ids /\ c.vm \in VMs
  /\ \/ c.kind = "UpdateDownstream" /\ WorkerList(c.arg) /\ Len(c.arg) > 0
     \/ c.kind = "UpdateUpstream" /\ c.arg[1] \in Nat
     \/ c.kind \in {"KillTask", "ProcessOrphanLog"} /\ c.arg[1] \in 1 .. Len(task)

CallsTyped == \A c \in calls : CallFits(c)

ReportsTyped == \A r \in reports : r \in ReportRec

RestartFits(r) ==
  /\ r \in RestartRec /\ r.pid <= Len(task) /\ InfoFits(r.info, r.stage)

RestartsTyped == \A r \in restarts : RestartFits(r)

Counted == TotalTasks = Cardinality(Mapped) /\ FinishedTasks \in Nat

CountsTyped ==
  /\ downs \in 0 .. MaxDowns /\ reported \in 0 .. MaxReports
  /\ unanswered \in Nat /\ losses \in Nat /\ losses + unanswered <= MaxLosses

TypeInv ==
  /\ TasksTyped /\ NodesTyped /\ LogsTyped /\ PushesTyped /\ ReplaysTyped
  /\ SourceTyped /\ MapTyped /\ MapBounded /\ RatesTyped /\ ScalerTyped
  /\ CallsTyped /\ ReportsTyped /\ RestartsTyped /\ Counted
  /\ CountsTyped /\ IndexInv

-----------------------------------------------------------------------------
(* What the assumptions give.                                              *)
LEMMA ConstTypes ==
  /\ NumStages \in Nat \ {0} /\ NumTasks \in Nat \ {0} /\ NumVMs \in Nat \ {0}
  /\ NumLines \in Nat /\ MaxUps \in Nat /\ MaxProcs \in Nat /\ MaxDowns \in Nat
  /\ MaxLosses \in Nat /\ MaxReports \in Nat
  /\ NumStages * NumTasks \in Nat
  /\ 0 \in Ids /\ 1 \in Stages /\ 1 \in VMs /\ EOSId \in MsgIds
  /\ Stages \subseteq Nat /\ Ids \subseteq Nat /\ VMs \subseteq Nat /\ Lines \subseteq Nat
<1>1. NumStages * NumTasks \in Nat
  BY AutoscaleAssumption
<1>2. MaxProcs \in Nat
  BY <1>1, AutoscaleAssumption DEF MaxProcs
<1>3. 0 \in Ids /\ 1 \in Stages /\ 1 \in VMs /\ 0 \in 0 .. NumStages
  BY AutoscaleAssumption DEF Ids, Stages, VMs
<1>4. EOSId \in MsgIds
  BY <1>3 DEF EOSId, MsgIds
<1> QED
  BY <1>1, <1>2, <1>3, <1>4, AutoscaleAssumption DEF Stages, Ids, VMs, Lines

(* PIDs are in range.                                                      *)
LEMMA PidRange ==
  ASSUME TasksTyped
  PROVE  /\ Len(task) \in Nat /\ Len(task) <= MaxProcs /\ 1 .. Len(task) \subseteq Procs
         /\ 0 .. Len(task) \subseteq 0 .. MaxProcs /\ 0 .. Len(task) \subseteq {Source} \cup Procs
<1>1. Len(task) \in Nat /\ Len(task) <= MaxProcs /\ MaxProcs \in Nat
  BY ConstTypes DEF TasksTyped
<1> QED
  BY <1>1 DEF Procs, Source

(* The PID of an entry of the map is one of those given out.               *)
LEMMA InfoPid ==
  ASSUME NEW s, NEW e, InfoFits(e, s)
  PROVE  e.PID \in Nat /\ e.PID # 0 /\ e.PID <= Len(task)
<1>1. e \in InfoRec /\ e.PID <= Len(task)
  BY DEF InfoFits
<1>2. e.PID \in 1 .. MaxProcs
  BY <1>1 DEF InfoRec, Procs
<1>3. MaxProcs \in Nat
  BY ConstTypes
<1> QED
  BY <1>1, <1>2, <1>3

(* The stage after one that is not the last.                               *)
LEMMA NextStage ==
  ASSUME NEW w \in Stages, w < NumStages PROVE w + 1 \in Stages
<1>1. NumStages \in Nat
  BY ConstTypes
<1> QED
  BY <1>1 DEF Stages

(* A task's next message id.                                               *)
LEMMA IdMade ==
  ASSUME NEW w \in Stages, NEW t \in Ids, NEW n \in Nat
  PROVE  <<w, t, n + 1>> \in MsgIds
<1>1. NumStages \in Nat
  BY ConstTypes
<1>2. w \in 0 .. NumStages /\ n + 1 \in Nat
  BY <1>1 DEF Stages
<1> QED
  BY <1>2 DEF MsgIds

(* A nonempty set of natural numbers has a least element.                  *)
LEMMA LeastElement ==
  ASSUME NEW T \in SUBSET Nat, T # {}
  PROVE  \E m \in T : \A k \in T : m <= k
<1>1. PICK x \in T : \A y \in T : <<y, x>> \notin OpToRel(<, Nat)
  BY WFMin, NatLessThanWellFounded
<1>2. \A y \in T : ~(y < x)
  BY <1>1 DEF OpToRel
<1> QED
  BY <1>2

(* getSortedStageWorkers lists the worker of task n at position n.         *)
LEMMA WorkersInOrder ==
  ASSUME NEW f, NEW n \in Nat \ {0}, DOMAIN f = 0 .. n - 1
  PROVE  Workers(f) = [k \in 1 .. n |-> f[k - 1].vm]
<1> DEFINE Before(t) == {u \in 0 .. n - 1 : u < t}
<1>1. \A t \in 0 .. n - 1 : Cardinality(Before(t)) = t
  <2> TAKE t \in 0 .. n - 1
  <2>1. Before(t) = 0 .. t - 1 /\ t - 1 \in Int /\ 0 \in Int
    OBVIOUS
  <2>2. Cardinality(0 .. t - 1) = IF 0 > t - 1 THEN 0 ELSE t - 1 - 0 + 1
    BY <2>1, FS_Interval
  <2>3. Cardinality(0 .. t - 1) = t
    BY <2>2
  <2> QED
    BY <2>1, <2>3
<1> DEFINE nth(k) == CHOOSE t \in 0 .. n - 1 : Cardinality(Before(t)) = k - 1
<1>2. \A k \in 1 .. n : nth(k) = k - 1
  <2> TAKE k \in 1 .. n
  <2>1. k - 1 \in 0 .. n - 1
    OBVIOUS
  <2> HIDE DEF Before
  <2>2. \A t \in 0 .. n - 1 : Cardinality(Before(t)) = k - 1 <=> t = k - 1
    BY <1>1
  <2> QED
    BY <2>1, <2>2
<1>3. Cardinality(0 .. n - 1) = n
  <2>1. n - 1 \in Int /\ 0 \in Int /\ ~(0 > n - 1)
    OBVIOUS
  <2> QED
    BY <2>1, FS_Interval
<1>4. Workers(f) = [k \in 1 .. Cardinality(0 .. n - 1) |-> f[nth(k)].vm]
  BY DEF Workers
<1> HIDE DEF nth
<1> QED
  BY <1>2, <1>3, <1>4

(* There are finitely many keys.                                           *)
LEMMA KeysFinite == IsFiniteSet(Keys) /\ \A S \in SUBSET Keys : IsFiniteSet(S)
<1>1. NumStages \in Int /\ NumTasks + MaxUps - 1 \in Int /\ 0 \in Int /\ 1 \in Int
  BY ConstTypes
<1>2. IsFiniteSet(Stages) /\ IsFiniteSet(Ids)
  BY <1>1, FS_Interval DEF Stages, Ids
<1>3. IsFiniteSet(Keys)
  BY <1>2, FS_Product DEF Keys
<1> QED
  BY <1>3, FS_Subset

(* getLeastLoadedWorker finds a worker.                                    *)
LEMMA LeastLoaded == LeastLoadedWorker \in VMs
<1>1. \A v \in VMs : Load(v) \in Nat
  BY KeysFinite, FS_CardinalityType DEF Load, Mapped
<1> DEFINE Loads == {Load(v) : v \in VMs}
<1>2. Loads \in SUBSET Nat /\ Loads # {}
  BY <1>1, ConstTypes
<1>3. PICK l \in Loads : \A k \in Loads : l <= k
  BY <1>2, LeastElement
<1> DEFINE Least == {v \in VMs : Load(v) = l}
<1>4. Least \in SUBSET Nat /\ Least # {}
  BY <1>3, ConstTypes
<1>5. PICK v \in Least : \A w \in Least : v <= w
  BY <1>4, LeastElement
<1>6. \A w \in VMs : Load(v) < Load(w) \/ (Load(v) = Load(w) /\ v <= w)
  <2> TAKE w \in VMs
  <2>1. Load(w) \in Nat /\ Load(v) \in Nat /\ Load(v) = l /\ l <= Load(w)
    BY <1>1, <1>3, <1>5
  <2>2. CASE Load(w) = l
    BY <1>5, <2>1, <2>2
  <2>3. CASE Load(w) # l
    BY <2>1, <2>3
  <2> QED
    BY <2>2, <2>3
<1> HIDE DEF Least
<1>7. v \in VMs
  BY <1>5 DEF Least
<1> QED
  BY <1>6, <1>7 DEF LeastLoadedWorker

-----------------------------------------------------------------------------
(* What the steps do to the tasks.                                         *)

(* What never changes of a task.                                           *)
SameTask(i) ==
  /\ task'[i].stage = task[i].stage /\ task'[i].id = task[i].id
  /\ task'[i].vm = task[i].vm /\ task'[i].log = task[i].log

TasksStay ==
  /\ task' \in Seq(TaskRec) /\ Len(task') = Len(task)
  /\ \A j \in 1 .. Len(task) : SameTask(j)

TaskBecomes(i, proc, pipe, stdin, ids, seq, eos, handler) ==
  /\ TasksStay
  /\ \A j \in 1 .. Len(task) : j # i => task'[j] = task[j]
  /\ task'[i].proc = proc /\ task'[i].pipe = pipe /\ task'[i].Stdin = stdin
  /\ task'[i].ProcessedIDs = ids /\ task'[i].SeqNum = seq
  /\ task'[i].EOSCount = eos /\ task'[i].handler = handler
  /\ task'[i].DownstreamList = task[i].DownstreamList
  /\ task'[i].NumUpstream = task[i].NumUpstream

(* The types of the fields of a task.                                      *)
LEMMA TaskFields ==
  ASSUME TasksTyped, NEW i \in 1 .. Len(task)
  PROVE  /\ task[i] \in TaskRec /\ task[i].stage \in Stages /\ task[i].id \in Ids
         /\ task[i].vm \in VMs /\ task[i].log \in 1 .. Len(task)
         /\ task[i].Stdin \in Seq(Lines) /\ task[i].ProcessedIDs \in SUBSET MsgIds
         /\ task[i].SeqNum \in Nat /\ task[i].EOSCount \in Nat /\ task[i].NumUpstream \in Nat
         /\ task[i].proc \in {"running", "dead"} /\ task[i].pipe \in {"open", "closed"}
         /\ task[i].handler \in {"scan", "eos", "done"}
         /\ ListFor(task[i].stage, task[i].DownstreamList)
<1>1. task[i] \in TaskRec /\ task[i].log <= Len(task)
  BY DEF TasksTyped
<1>2. Len(task) \in Nat
  BY DEF TasksTyped
<1>3. task[i].log \in 1 .. Len(task)
  BY <1>1, <1>2, ConstTypes DEF TaskRec, Procs
<1> QED
  BY <1>1, <1>3 DEF TasksTyped, TaskRec

(* A step that replaces the record of one task.                            *)
LEMMA TaskSet ==
  ASSUME TasksTyped, NEW i \in 1 .. Len(task), NEW q \in TaskRec,
         q.stage = task[i].stage, q.id = task[i].id, q.vm = task[i].vm,
         q.log = task[i].log, q.DownstreamList = task[i].DownstreamList,
         q.NumUpstream = task[i].NumUpstream, task' = [task EXCEPT ![i] = q]
  PROVE  TaskBecomes(i, q.proc, q.pipe, q.Stdin, q.ProcessedIDs, q.SeqNum, q.EOSCount,
                     q.handler)
<1>1. task \in Seq(TaskRec) /\ DOMAIN task = 1 .. Len(task)
  BY DEF TasksTyped
<1>2. task' \in Seq(TaskRec) /\ Len(task') = Len(task)
  BY <1>1
<1>3. task'[i] = q /\ \A j \in 1 .. Len(task) : j # i => task'[j] = task[j]
  BY <1>1
<1> QED
  BY <1>2, <1>3 DEF TaskBecomes, TasksStay, SameTask

(* A step in which the operator process ends.                              *)
LEMMA DeadSet ==
  ASSUME TasksTyped, NEW i \in 1 .. Len(task),
         NEW p \in {"running", "dead"},
         task' = [task EXCEPT ![i].proc = p]
  PROVE  TaskBecomes(i, p, task[i].pipe, task[i].Stdin, task[i].ProcessedIDs,
         task[i].SeqNum, task[i].EOSCount, task[i].handler)
<1> DEFINE q == [task[i] EXCEPT !.proc = p]
<1>1. task[i] \in TaskRec
  BY DEF TasksTyped
<1>2. /\ q \in TaskRec /\ q.stage = task[i].stage /\ q.id = task[i].id
      /\ q.vm = task[i].vm /\ q.log = task[i].log
      /\ q.DownstreamList = task[i].DownstreamList /\ q.NumUpstream = task[i].NumUpstream
      /\ q.proc = p
      /\ q.pipe = task[i].pipe
      /\ q.Stdin = task[i].Stdin
      /\ q.ProcessedIDs = task[i].ProcessedIDs
      /\ q.SeqNum = task[i].SeqNum
      /\ q.EOSCount = task[i].EOSCount
      /\ q.handler = task[i].handler
  BY <1>1 DEF TaskRec
<1>3. task' = [task EXCEPT ![i] = q]
  OBVIOUS
<1> HIDE DEF q
<1>4. TaskBecomes(i, q.proc, q.pipe, q.Stdin, q.ProcessedIDs, q.SeqNum, q.EOSCount,
                  q.handler)
  BY <1>2, <1>3, TaskSet
<1> QED
  BY <1>2, <1>4

(* A step in which the operator process is killed with what its stdin      *)
(* holds.                                                                  *)
LEMMA KilledSet ==
  ASSUME TasksTyped, NEW i \in 1 .. Len(task),
         NEW p \in {"running", "dead"},
         NEW x \in Seq(Lines),
         task' = [task EXCEPT ![i].proc = p, ![i].Stdin = x]
  PROVE  TaskBecomes(i, p, task[i].pipe, x, task[i].ProcessedIDs, task[i].SeqNum,
         task[i].EOSCount, task[i].handler)
<1> DEFINE q == [task[i] EXCEPT !.proc = p, !.Stdin = x]
<1>1. task[i] \in TaskRec
  BY DEF TasksTyped
<1>2. /\ q \in TaskRec /\ q.stage = task[i].stage /\ q.id = task[i].id
      /\ q.vm = task[i].vm /\ q.log = task[i].log
      /\ q.DownstreamList = task[i].DownstreamList /\ q.NumUpstream = task[i].NumUpstream
      /\ q.proc = p
      /\ q.pipe = task[i].pipe
      /\ q.Stdin = x
      /\ q.ProcessedIDs = task[i].ProcessedIDs
      /\ q.SeqNum = task[i].SeqNum
      /\ q.EOSCount = task[i].EOSCount
      /\ q.handler = task[i].handler
  BY <1>1 DEF TaskRec
<1>3. task' = [task EXCEPT ![i] = q]
  OBVIOUS
<1> HIDE DEF q
<1>4. TaskBecomes(i, q.proc, q.pipe, q.Stdin, q.ProcessedIDs, q.SeqNum, q.EOSCount,
                  q.handler)
  BY <1>2, <1>3, TaskSet
<1> QED
  BY <1>2, <1>4

(* A step that counts an EOS and may close stdin.                          *)
LEMMA EOSSet ==
  ASSUME TasksTyped, NEW i \in 1 .. Len(task),
         NEW n \in Nat,
         NEW c \in {"open", "closed"},
         task' = [task EXCEPT ![i].EOSCount = n, ![i].pipe = c]
  PROVE  TaskBecomes(i, task[i].proc, c, task[i].Stdin, task[i].ProcessedIDs,
         task[i].SeqNum, n, task[i].handler)
<1> DEFINE q == [task[i] EXCEPT !.EOSCount = n, !.pipe = c]
<1>1. task[i] \in TaskRec
  BY DEF TasksTyped
<1>2. /\ q \in TaskRec /\ q.stage = task[i].stage /\ q.id = task[i].id
      /\ q.vm = task[i].vm /\ q.log = task[i].log
      /\ q.DownstreamList = task[i].DownstreamList /\ q.NumUpstream = task[i].NumUpstream
      /\ q.proc = task[i].proc
      /\ q.pipe = c
      /\ q.Stdin = task[i].Stdin
      /\ q.ProcessedIDs = task[i].ProcessedIDs
      /\ q.SeqNum = task[i].SeqNum
      /\ q.EOSCount = n
      /\ q.handler = task[i].handler
  BY <1>1 DEF TaskRec
<1>3. task' = [task EXCEPT ![i] = q]
  OBVIOUS
<1> HIDE DEF q
<1>4. TaskBecomes(i, q.proc, q.pipe, q.Stdin, q.ProcessedIDs, q.SeqNum, q.EOSCount,
                  q.handler)
  BY <1>2, <1>3, TaskSet
<1> QED
  BY <1>2, <1>4

(* A step that writes to stdin and marks tuples.                           *)
LEMMA WriteSet ==
  ASSUME TasksTyped, NEW i \in 1 .. Len(task),
         NEW x \in Seq(Lines),
         NEW S \in SUBSET MsgIds,
         task' = [task EXCEPT ![i].Stdin = x, ![i].ProcessedIDs = S]
  PROVE  TaskBecomes(i, task[i].proc, task[i].pipe, x, S, task[i].SeqNum,
         task[i].EOSCount, task[i].handler)
<1> DEFINE q == [task[i] EXCEPT !.Stdin = x, !.ProcessedIDs = S]
<1>1. task[i] \in TaskRec
  BY DEF TasksTyped
<1>2. /\ q \in TaskRec /\ q.stage = task[i].stage /\ q.id = task[i].id
      /\ q.vm = task[i].vm /\ q.log = task[i].log
      /\ q.DownstreamList = task[i].DownstreamList /\ q.NumUpstream = task[i].NumUpstream
      /\ q.proc = task[i].proc
      /\ q.pipe = task[i].pipe
      /\ q.Stdin = x
      /\ q.ProcessedIDs = S
      /\ q.SeqNum = task[i].SeqNum
      /\ q.EOSCount = task[i].EOSCount
      /\ q.handler = task[i].handler
  BY <1>1 DEF TaskRec
<1>3. task' = [task EXCEPT ![i] = q]
  OBVIOUS
<1> HIDE DEF q
<1>4. TaskBecomes(i, q.proc, q.pipe, q.Stdin, q.ProcessedIDs, q.SeqNum, q.EOSCount,
                  q.handler)
  BY <1>2, <1>3, TaskSet
<1> QED
  BY <1>2, <1>4

(* A step that marks tuples and writes to stdin, in the order of           *)
(* replayLogData.                                                          *)
LEMMA MarkSet ==
  ASSUME TasksTyped, NEW i \in 1 .. Len(task),
         NEW S \in SUBSET MsgIds,
         NEW x \in Seq(Lines),
         task' = [task EXCEPT ![i].ProcessedIDs = S, ![i].Stdin = x]
  PROVE  TaskBecomes(i, task[i].proc, task[i].pipe, x, S, task[i].SeqNum,
         task[i].EOSCount, task[i].handler)
<1> DEFINE q == [task[i] EXCEPT !.ProcessedIDs = S, !.Stdin = x]
<1>1. task[i] \in TaskRec
  BY DEF TasksTyped
<1>2. /\ q \in TaskRec /\ q.stage = task[i].stage /\ q.id = task[i].id
      /\ q.vm = task[i].vm /\ q.log = task[i].log
      /\ q.DownstreamList = task[i].DownstreamList /\ q.NumUpstream = task[i].NumUpstream
      /\ q.proc = task[i].proc
      /\ q.pipe = task[i].pipe
      /\ q.Stdin = x
      /\ q.ProcessedIDs = S
      /\ q.SeqNum = task[i].SeqNum
      /\ q.EOSCount = task[i].EOSCount
      /\ q.handler = task[i].handler
  BY <1>1 DEF TaskRec
<1>3. task' = [task EXCEPT ![i] = q]
  OBVIOUS
<1> HIDE DEF q
<1>4. TaskBecomes(i, q.proc, q.pipe, q.Stdin, q.ProcessedIDs, q.SeqNum, q.EOSCount,
                  q.handler)
  BY <1>2, <1>3, TaskSet
<1> QED
  BY <1>2, <1>4

(* A step that takes a line from stdin and counts it.                      *)
LEMMA WorkSet ==
  ASSUME TasksTyped, NEW i \in 1 .. Len(task),
         NEW x \in Seq(Lines),
         NEW n \in Nat,
         task' = [task EXCEPT ![i].Stdin = x, ![i].SeqNum = n]
  PROVE  TaskBecomes(i, task[i].proc, task[i].pipe, x, task[i].ProcessedIDs, n,
         task[i].EOSCount, task[i].handler)
<1> DEFINE q == [task[i] EXCEPT !.Stdin = x, !.SeqNum = n]
<1>1. task[i] \in TaskRec
  BY DEF TasksTyped
<1>2. /\ q \in TaskRec /\ q.stage = task[i].stage /\ q.id = task[i].id
      /\ q.vm = task[i].vm /\ q.log = task[i].log
      /\ q.DownstreamList = task[i].DownstreamList /\ q.NumUpstream = task[i].NumUpstream
      /\ q.proc = task[i].proc
      /\ q.pipe = task[i].pipe
      /\ q.Stdin = x
      /\ q.ProcessedIDs = task[i].ProcessedIDs
      /\ q.SeqNum = n
      /\ q.EOSCount = task[i].EOSCount
      /\ q.handler = task[i].handler
  BY <1>1 DEF TaskRec
<1>3. task' = [task EXCEPT ![i] = q]
  OBVIOUS
<1> HIDE DEF q
<1>4. TaskBecomes(i, q.proc, q.pipe, q.Stdin, q.ProcessedIDs, q.SeqNum, q.EOSCount,
                  q.handler)
  BY <1>2, <1>3, TaskSet
<1> QED
  BY <1>2, <1>4

(* A step that moves only the output goroutine.                            *)
LEMMA HandlerSet ==
  ASSUME TasksTyped, NEW i \in 1 .. Len(task),
         NEW h \in {"scan", "eos", "done"},
         task' = [task EXCEPT ![i].handler = h]
  PROVE  TaskBecomes(i, task[i].proc, task[i].pipe, task[i].Stdin,
         task[i].ProcessedIDs, task[i].SeqNum, task[i].EOSCount, h)
<1> DEFINE q == [task[i] EXCEPT !.handler = h]
<1>1. task[i] \in TaskRec
  BY DEF TasksTyped
<1>2. /\ q \in TaskRec /\ q.stage = task[i].stage /\ q.id = task[i].id
      /\ q.vm = task[i].vm /\ q.log = task[i].log
      /\ q.DownstreamList = task[i].DownstreamList /\ q.NumUpstream = task[i].NumUpstream
      /\ q.proc = task[i].proc
      /\ q.pipe = task[i].pipe
      /\ q.Stdin = task[i].Stdin
      /\ q.ProcessedIDs = task[i].ProcessedIDs
      /\ q.SeqNum = task[i].SeqNum
      /\ q.EOSCount = task[i].EOSCount
      /\ q.handler = h
  BY <1>1 DEF TaskRec
<1>3. task' = [task EXCEPT ![i] = q]
  OBVIOUS
<1> HIDE DEF q
<1>4. TaskBecomes(i, q.proc, q.pipe, q.Stdin, q.ProcessedIDs, q.SeqNum, q.EOSCount,
                  q.handler)
  BY <1>2, <1>3, TaskSet
<1> QED
  BY <1>2, <1>4

(* The types of the fields of a push, and of the task that it finds.       *)
LEMMA PushFacts ==
  ASSUME TypeInv, NEW m \in pushes
  PROVE  /\ m \in PushRec /\ m.org \in 0 .. Len(task) /\ m.kind \in {"data", "EOS"}
         /\ m.stage \in Stages /\ m.id \in MsgIds /\ m.pc \in {"route", "call"}
         /\ m.dest \in Ids /\ m.val \in 0 .. NumLines /\ m.late \in Nat
         /\ m.kind = "data" => m.val \in Lines
         /\ m.pc = "call" => m.vm \in VMs /\ Target(m) \in 0 .. Len(task)
<1>1. PushFits(m) /\ Len(task) \in Nat
  BY DEF TypeInv, PushesTyped, TasksTyped
<1>2. /\ m \in PushRec /\ m.org \in Nat /\ m.kind \in {"data", "EOS"}
      /\ m.stage \in Stages /\ m.id \in MsgIds /\ m.pc \in {"route", "call"}
      /\ m.dest \in Ids /\ m.val \in 0 .. NumLines /\ m.late \in Nat
  BY <1>1, ConstTypes DEF PushFits, PushRec, Source, Procs
<1>3. m.pc = "call" => m.vm \in VMs /\ <<m.stage, m.dest>> \in Keys
  BY <1>1, <1>2 DEF PushFits, Keys
<1>4. m.pc = "call" => Target(m) \in 0 .. Len(task)
  BY <1>3 DEF Target, TypeInv, NodesTyped
<1> QED
  BY <1>1, <1>2, <1>3, <1>4 DEF PushFits

(* Effect of PushEOS: the EOS is counted, and the last one closes stdin.   *)
LEMMA PushEOSOp ==
  ASSUME TypeInv, NEW m \in pushes, PushEOS(m)
  PROVE  \E c \in {"open", "closed"} :
           LET i == Target(m) IN
           /\ i \in 1 .. Len(task) /\ m.pc = "call" /\ m.kind = "EOS"
           /\ TaskBecomes(i, task[i].proc, c, task[i].Stdin, task[i].ProcessedIDs,
                          task[i].SeqNum, task[i].EOSCount + 1, task[i].handler)
           /\ pushes' = pushes \ {m}
<1> DEFINE i == Target(m)
           n == task[i].EOSCount + 1
           c == IF n >= task[i].NumUpstream THEN "closed" ELSE task[i].pipe
<1>1. i \in 1 .. Len(task) /\ m.pc = "call" /\ m.kind = "EOS"
  BY PushFacts DEF PushEOS
<1>2. TasksTyped
  BY DEF TypeInv
<1>3. n \in Nat /\ c \in {"open", "closed"}
  BY <1>1, <1>2, TaskFields
<1>4. task' = [task EXCEPT ![i].EOSCount = n, ![i].pipe = c]
  BY DEF PushEOS
<1>5. pushes' = pushes \ {m}
  BY DEF PushEOS, Answer
<1> HIDE DEF i, c
<1> QED
  BY <1>1, <1>2, <1>3, <1>4, <1>5, EOSSet DEF i

(* A tuple that its task does not know.                                    *)
LEMMA FreshFacts ==
  ASSUME TypeInv, NEW m \in pushes, Fresh(m)
  PROVE  /\ Target(m) \in 1 .. Len(task) /\ m.pc = "call" /\ m.kind = "data"
         /\ m.id \notin task[Target(m)].ProcessedIDs /\ m.val \in Lines
         /\ task[Target(m)].log \in 1 .. Len(task) /\ <<m.id, m.val>> \in Entries
<1>1. Target(m) \in 1 .. Len(task) /\ m.val \in Lines /\ m.id \in MsgIds
  BY PushFacts DEF Fresh
<1>2. task[Target(m)].log \in 1 .. Len(task)
  BY <1>1, TaskFields DEF TypeInv
<1> QED
  BY <1>1, <1>2 DEF Fresh, Entries

(* Effect of PushTuple: the tuple is in stdin and marked, and answered.    *)
LEMMA PushTupleOp ==
  ASSUME TypeInv, NEW m \in pushes, PushTuple(m)
  PROVE  LET i == Target(m) IN
         /\ Fresh(m) /\ Writable(i) /\ LogTuple(m)
         /\ TaskBecomes(i, task[i].proc, task[i].pipe, Append(task[i].Stdin, m.val),
                        task[i].ProcessedIDs \cup {m.id}, task[i].SeqNum,
                        task[i].EOSCount, task[i].handler)
         /\ pushes' = pushes \ {m}
<1> DEFINE i == Target(m)
           x == Append(task[i].Stdin, m.val)
           S == task[i].ProcessedIDs \cup {m.id}
<1>1. Fresh(m) /\ Writable(i) /\ LogTuple(m) /\ pushes' = pushes \ {m}
  BY DEF PushTuple, Answer
<1>2. i \in 1 .. Len(task) /\ m.val \in Lines /\ m.id \in MsgIds /\ TasksTyped
  BY <1>1, FreshFacts, PushFacts DEF TypeInv
<1>3. x \in Seq(Lines) /\ S \in SUBSET MsgIds
  BY <1>2, TaskFields
<1>4. task' = [task EXCEPT ![i].Stdin = x, ![i].ProcessedIDs = S]
  BY DEF PushTuple
<1> HIDE DEF i, x, S
<1>5. TaskBecomes(i, task[i].proc, task[i].pipe, x, S, task[i].SeqNum,
                  task[i].EOSCount, task[i].handler)
  BY <1>2, <1>3, <1>4, WriteSet
<1> QED
  BY <1>1, <1>5 DEF i, x, S

(* Effect of Operator: a line leaves stdin for the output or for a push.   *)
LEMMA OperatorOp ==
  ASSUME TypeInv, NEW i \in 1 .. Len(task), Operator(i)
  PROVE  LET v == Head(task[i].Stdin)
             n == task[i].SeqNum + 1
             e == DataPush(i, task[i].stage + 1, <<task[i].stage, task[i].id, n>>, v)
         IN
         /\ task[i].Stdin # <<>> /\ v \in Lines
         /\ TaskBecomes(i, task[i].proc, task[i].pipe, Tail(task[i].Stdin),
                        task[i].ProcessedIDs, n, task[i].EOSCount, task[i].handler)
         /\ \/ /\ task[i].stage = NumStages /\ output' = Append(output, v)
               /\ pushes' = pushes
            \/ /\ task[i].stage < NumStages /\ output' = output
               /\ pushes' = pushes \cup {e}
<1> DEFINE v == Head(task[i].Stdin)
           x == Tail(task[i].Stdin)
           n == task[i].SeqNum + 1
           e == DataPush(i, task[i].stage + 1, <<task[i].stage, task[i].id, n>>, v)
<1>1. TasksTyped /\ task[i].Stdin # <<>>
  BY DEF TypeInv, Operator
<1>2. x \in Seq(Lines) /\ v \in Lines /\ n \in Nat /\ task[i].stage \in Stages
  BY <1>1, TaskFields
<1>3. task' = [task EXCEPT ![i].Stdin = x, ![i].SeqNum = n]
  BY DEF Operator
<1>4. \/ /\ task[i].stage = NumStages /\ output' = Append(output, v)
         /\ pushes' = pushes
      \/ /\ task[i].stage # NumStages /\ output' = output
         /\ pushes' = pushes \cup {e}
  BY DEF Operator
<1>5. task[i].stage # NumStages => task[i].stage < NumStages
  BY <1>2, ConstTypes DEF Stages
<1> HIDE DEF v, x, n, e
<1>6. TaskBecomes(i, task[i].proc, task[i].pipe, x, task[i].ProcessedIDs, n,
                  task[i].EOSCount, task[i].handler)
  BY <1>1, <1>2, <1>3, WorkSet
<1> QED
  BY <1>1, <1>2, <1>4, <1>5, <1>6 DEF v, x, n, e

(* Effect of OperatorExit: the operator dies with an empty stdin.          *)
LEMMA OperatorExitOp ==
  ASSUME TypeInv, NEW i \in 1 .. Len(task), OperatorExit(i)
  PROVE  TaskBecomes(i, "dead", task[i].pipe, task[i].Stdin, task[i].ProcessedIDs,
                     task[i].SeqNum, task[i].EOSCount, task[i].handler)
BY DeadSet DEF OperatorExit, TypeInv

(* Effect of HandleEOF: the output goroutine reports, or sends its EOSs.   *)
LEMMA HandleEOFOp ==
  ASSUME TypeInv, NEW i \in 1 .. Len(task), HandleEOF(i)
  PROVE  \E h \in {"eos", "done"} :
           /\ TaskBecomes(i, task[i].proc, task[i].pipe, task[i].Stdin,
                          task[i].ProcessedIDs, task[i].SeqNum, task[i].EOSCount, h)
           /\ \/ /\ task[i].stage < NumStages /\ reports' = reports
                 /\ pushes' = pushes \cup
                      EOSPushes(i, task[i].stage + 1, task[i].DownstreamList)
              \/ /\ pushes' = pushes
                 /\ Report(i, "Success") \/ Report(i, "Failure")
<1> DEFINE sends == task[i].EOSCount >= task[i].NumUpstream /\ task[i].stage < NumStages
           h == IF sends THEN "eos" ELSE "done"
<1>1. TasksTyped /\ h \in {"eos", "done"} /\ h \in {"scan", "eos", "done"}
  BY DEF TypeInv
<1>2. task' = [task EXCEPT ![i].handler = h]
  BY DEF HandleEOF
<1>3. \/ /\ task[i].stage < NumStages /\ reports' = reports
         /\ pushes' = pushes \cup EOSPushes(i, task[i].stage + 1, task[i].DownstreamList)
      \/ pushes' = pushes /\ (Report(i, "Success") \/ Report(i, "Failure"))
  BY DEF HandleEOF
<1> HIDE DEF h
<1>4. TaskBecomes(i, task[i].proc, task[i].pipe, task[i].Stdin, task[i].ProcessedIDs,
                  task[i].SeqNum, task[i].EOSCount, h)
  BY <1>1, <1>2, HandlerSet
<1> QED
  BY <1>1, <1>3, <1>4

(* Effect of HandleEOSSent: the task reports its success.                  *)
LEMMA HandleEOSSentOp ==
  ASSUME TypeInv, NEW i \in 1 .. Len(task), HandleEOSSent(i)
  PROVE  /\ TaskBecomes(i, task[i].proc, task[i].pipe, task[i].Stdin,
                        task[i].ProcessedIDs, task[i].SeqNum, task[i].EOSCount, "done")
         /\ Report(i, "Success")
BY HandlerSet DEF HandleEOSSent, TypeInv

(* Effect of KillTask: the process is dead, and the key that it was        *)
(* registered under is free.                                               *)
LEMMA KillTaskOp ==
  ASSUME TypeInv, NEW c \in calls, KillTask(c)
  PROVE  LET i == c.arg[1] IN
         /\ i \in 1 .. Len(task) /\ c.kind = "KillTask"
         /\ TaskBecomes(i, "dead", task[i].pipe, <<>>, task[i].ProcessedIDs,
                        task[i].SeqNum, task[i].EOSCount, task[i].handler)
<1> DEFINE i == c.arg[1]
<1>1. i \in 1 .. Len(task) /\ c.kind = "KillTask"
  BY DEF TypeInv, CallsTyped, CallFits, KillTask
<1>2. TasksTyped /\ <<>> \in Seq(Lines) /\ "dead" \in {"running", "dead"}
  BY DEF TypeInv
<1>3. task' = [task EXCEPT ![i].proc = "dead", ![i].Stdin = <<>>]
  BY DEF KillTask
<1> HIDE DEF i
<1>4. TaskBecomes(i, "dead", task[i].pipe, <<>>, task[i].ProcessedIDs, task[i].SeqNum,
                  task[i].EOSCount, task[i].handler)
  BY <1>1, <1>2, <1>3, KilledSet
<1> QED
  BY <1>1, <1>4 DEF i

(* Effect of ReplayLine: the task may get a line and a mark.               *)
LEMMA ReplayLineOp ==
  ASSUME TypeInv, NEW g \in replays, ReplayLine(g)
  PROVE  \E x \in Seq(Lines), S \in SUBSET MsgIds :
           LET i == g.task IN
           /\ i \in 1 .. Len(task)
           /\ TaskBecomes(i, task[i].proc, task[i].pipe, x, S, task[i].SeqNum,
                          task[i].EOSCount, task[i].handler)
<1> DEFINE i == g.task
           e == Head(g.rest)
           x == IF ~Skips(g) /\ Writable(i) THEN Append(task[i].Stdin, e[2]) ELSE task[i].Stdin
           S == IF g.check THEN task[i].ProcessedIDs \cup {e[1]} ELSE task[i].ProcessedIDs
<1>1. g.task \in Procs /\ g.task <= Len(task) /\ g.rest \in Seq(Entries) /\ g.rest # <<>>
  BY DEF TypeInv, ReplaysTyped, ReplayFits, ReplayRec
<1>2. TasksTyped /\ Len(task) \in Nat
  BY DEF TypeInv, TasksTyped
<1>3. i \in 1 .. Len(task) /\ e \in Entries
  BY <1>1, <1>2, ConstTypes DEF Procs
<1>4. e[1] \in MsgIds /\ e[2] \in Lines
  BY <1>3 DEF Entries
<1>5. task[i].Stdin \in Seq(Lines) /\ task[i].ProcessedIDs \in SUBSET MsgIds
  BY <1>2, <1>3, TaskFields
<1>6. task' = [task EXCEPT ![i].ProcessedIDs = S, ![i].Stdin = x]
  BY DEF ReplayLine
<1>7. x \in Seq(Lines) /\ S \in SUBSET MsgIds
  <2> HIDE DEF e, i
  <2> QED
    BY <1>4, <1>5
<1> HIDE DEF x, S, i
<1>8. TaskBecomes(i, task[i].proc, task[i].pipe, x, S, task[i].SeqNum,
                  task[i].EOSCount, task[i].handler)
  BY <1>2, <1>3, <1>6, <1>7, MarkSet
<1> QED
  BY <1>3, <1>7, <1>8 DEF i

(* What a routing update leaves alone.                                     *)
SameWork(j) ==
  /\ task'[j].proc = task[j].proc /\ task'[j].pipe = task[j].pipe
  /\ task'[j].Stdin = task[j].Stdin /\ task'[j].ProcessedIDs = task[j].ProcessedIDs
  /\ task'[j].SeqNum = task[j].SeqNum /\ task'[j].EOSCount = task[j].EOSCount
  /\ task'[j].handler = task[j].handler

(* Effect of UpdateDownstream: the tasks of the stage on the VM route by   *)
(* the list of the call.                                                   *)
LEMMA UpdateDownstreamOp ==
  ASSUME TypeInv, NEW c \in calls, UpdateDownstream(c)
  PROVE  /\ c.kind = "UpdateDownstream" /\ calls' = calls \ {c} /\ TasksStay
         /\ \A j \in 1 .. Len(task) :
              /\ SameWork(j)
              /\ task'[j].DownstreamList = IF j \in TasksOn(c.vm, c.stage)
                                             THEN c.arg ELSE task[j].DownstreamList
<1>1. c.kind = "UpdateDownstream" /\ calls' = calls \ {c} /\ c.arg \in Seq(VMs)
  BY DEF TypeInv, CallsTyped, CallFits, UpdateDownstream, WorkerList
<1>2. task \in Seq(TaskRec) /\ DOMAIN task = 1 .. Len(task)
  BY DEF TypeInv, TasksTyped
<1>3. task' = [i \in 1 .. Len(task) |-> IF i \in TasksOn(c.vm, c.stage)
                 THEN [task[i] EXCEPT !.DownstreamList = c.arg] ELSE task[i]]
  BY <1>2 DEF UpdateDownstream
<1> DEFINE q(j) == [task[j] EXCEPT !.DownstreamList = c.arg]
<1>4. \A j \in 1 .. Len(task) :
        /\ q(j) \in TaskRec /\ q(j).stage = task[j].stage /\ q(j).id = task[j].id
        /\ q(j).vm = task[j].vm /\ q(j).log = task[j].log /\ q(j).proc = task[j].proc
        /\ q(j).pipe = task[j].pipe /\ q(j).Stdin = task[j].Stdin
        /\ q(j).ProcessedIDs = task[j].ProcessedIDs /\ q(j).SeqNum = task[j].SeqNum
        /\ q(j).EOSCount = task[j].EOSCount /\ q(j).handler = task[j].handler
        /\ q(j).DownstreamList = c.arg
  <2> TAKE j \in 1 .. Len(task)
  <2>1. task[j] \in TaskRec
    BY <1>2
  <2> QED
    BY <1>1, <2>1 DEF TaskRec
<1>5. \A j \in 1 .. Len(task) :
        task'[j] = IF j \in TasksOn(c.vm, c.stage) THEN q(j) ELSE task[j]
  BY <1>3
<1> HIDE DEF q
<1>6. \A j \in 1 .. Len(task) : task'[j] \in TaskRec
  BY <1>2, <1>4, <1>5
<1>7. task' \in Seq(TaskRec) /\ Len(task') = Len(task)
  <2>1. Len(task) \in Nat /\ task' = [i \in 1 .. Len(task) |-> task'[i]]
    BY <1>2, <1>3
  <2> QED
    BY <2>1, <1>6
<1> QED
  BY <1>1, <1>4, <1>5, <1>7 DEF TasksStay, SameTask, SameWork

(* Effect of UpdateUpstream: the tasks of the stage on the VM count their  *)
(* EOSs against the number of the call.                                    *)
LEMMA UpdateUpstreamOp ==
  ASSUME TypeInv, NEW c \in calls, UpdateUpstream(c)
  PROVE  /\ c.kind = "UpdateUpstream" /\ calls' = calls \ {c} /\ TasksStay
         /\ \A j \in 1 .. Len(task) :
              SameWork(j) /\ task'[j].DownstreamList = task[j].DownstreamList
<1>1. c.kind = "UpdateUpstream" /\ calls' = calls \ {c} /\ c.arg[1] \in Nat
  BY DEF TypeInv, CallsTyped, CallFits, UpdateUpstream
<1>2. task \in Seq(TaskRec) /\ DOMAIN task = 1 .. Len(task)
  BY DEF TypeInv, TasksTyped
<1>3. task' = [i \in 1 .. Len(task) |-> IF i \in TasksOn(c.vm, c.stage)
                 THEN [task[i] EXCEPT !.NumUpstream = c.arg[1]] ELSE task[i]]
  BY <1>2 DEF UpdateUpstream
<1> DEFINE q(j) == [task[j] EXCEPT !.NumUpstream = c.arg[1]]
<1>4. \A j \in 1 .. Len(task) :
        /\ q(j) \in TaskRec /\ q(j).stage = task[j].stage /\ q(j).id = task[j].id
        /\ q(j).vm = task[j].vm /\ q(j).log = task[j].log /\ q(j).proc = task[j].proc
        /\ q(j).pipe = task[j].pipe /\ q(j).Stdin = task[j].Stdin
        /\ q(j).ProcessedIDs = task[j].ProcessedIDs /\ q(j).SeqNum = task[j].SeqNum
        /\ q(j).EOSCount = task[j].EOSCount /\ q(j).handler = task[j].handler
        /\ q(j).DownstreamList = task[j].DownstreamList
  <2> TAKE j \in 1 .. Len(task)
  <2>1. task[j] \in TaskRec
    BY <1>2
  <2> QED
    BY <1>1, <2>1 DEF TaskRec
<1>5. \A j \in 1 .. Len(task) :
        task'[j] = IF j \in TasksOn(c.vm, c.stage) THEN q(j) ELSE task[j]
  BY <1>3
<1> HIDE DEF q
<1>6. \A j \in 1 .. Len(task) : task'[j] \in TaskRec
  BY <1>2, <1>4, <1>5
<1>7. task' \in Seq(TaskRec) /\ Len(task') = Len(task)
  <2>1. Len(task) \in Nat /\ task' = [i \in 1 .. Len(task) |-> task'[i]]
    BY <1>2, <1>3
  <2> QED
    BY <2>1, <1>6
<1> QED
  BY <1>1, <1>4, <1>5, <1>7 DEF TasksStay, SameTask, SameWork

(* The tasks of a stage, their number and their list of workers.           *)
LEMMA StageFacts ==
  ASSUME TypeInv, NEW s \in Stages
  PROVE  \E n \in Nat \ {0} :
           /\ DOMAIN GlobalTaskMap[s] = 0 .. n - 1 /\ Count(s) = n /\ MaxId(s) = n - 1
           /\ n <= NumTasks + ups /\ (scaler.pc = "map" => n < NumTasks + ups)
           /\ SortedWorkers(s) = [k \in 1 .. n |-> GlobalTaskMap[s][k - 1].vm]
           /\ WorkerList(SortedWorkers(s)) /\ Len(SortedWorkers(s)) = n
<1>1. PICK n \in Nat \ {0} : DOMAIN GlobalTaskMap[s] = 0 .. n - 1
  BY DEF TypeInv, IndexInv, MapContiguous, Contiguous
<1>2. Count(s) = n /\ MaxId(s) = n - 1
  BY <1>1, MaxIdIsLast
<1>3. n - 1 \in DOMAIN GlobalTaskMap[s] /\ ups \in 0 .. MaxUps
  BY <1>1 DEF TypeInv, TasksTyped
<1>4. n <= NumTasks + ups /\ (scaler.pc = "map" => n < NumTasks + ups)
  BY <1>3, ConstTypes DEF TypeInv, MapBounded
<1>5. SortedWorkers(s) = [k \in 1 .. n |-> GlobalTaskMap[s][k - 1].vm]
  BY <1>1, WorkersInOrder DEF SortedWorkers
<1>6. \A k \in 1 .. n : GlobalTaskMap[s][k - 1].vm \in VMs
  <2> TAKE k \in 1 .. n
  <2>1. InfoFits(GlobalTaskMap[s][k - 1], s)
    BY <1>1 DEF TypeInv, MapTyped
  <2> QED
    BY <2>1 DEF InfoFits, InfoRec
<1>7. SortedWorkers(s) \in Seq(VMs) /\ Len(SortedWorkers(s)) = n
  BY <1>5, <1>6
<1>8. n <= NumTasks + MaxUps
  BY <1>3, <1>4, ConstTypes
<1> QED
  BY <1>1, <1>2, <1>4, <1>5, <1>7, <1>8 DEF WorkerList

(* The routing list of a task that is added to stage s.                    *)
LEMMA DownstreamsType ==
  ASSUME TypeInv, NEW s \in Stages
  PROVE  /\ ListFor(s, Downstreams(s)) /\ Upstreams(s) \in Nat
         /\ s < NumStages => s + 1 \in Stages /\ Downstreams(s) = SortedWorkers(s + 1)
<1>1. s < NumStages => s + 1 \in Stages
  BY ConstTypes DEF Stages
<1>2. s # 1 => s - 1 \in Stages
  BY ConstTypes DEF Stages
<1>3. ListFor(s, Downstreams(s))
  <2>1. CASE s = NumStages
    BY <2>1, ConstTypes DEF Downstreams, ListFor, WorkerList
  <2>2. CASE s # NumStages
    <3>1. s + 1 \in Stages
      BY <1>1, <2>2, ConstTypes DEF Stages
    <3>2. WorkerList(SortedWorkers(s + 1)) /\ Len(SortedWorkers(s + 1)) > 0
      BY <3>1, StageFacts
    <3> QED
      BY <2>2, <3>2 DEF Downstreams, ListFor
  <2> QED
    BY <2>1, <2>2
<1>4. Upstreams(s) \in Nat
  BY <1>2, StageFacts DEF Upstreams
<1>5. s < NumStages => Downstreams(s) = SortedWorkers(s + 1)
  BY ConstTypes DEF Downstreams, Stages
<1> QED
  BY <1>1, <1>3, <1>4, <1>5

(* The ids of a dedup log.                                                 *)
LEMMA IdsOfType == ASSUME NEW l \in Seq(Entries) PROVE IdsOf(l) \in SUBSET MsgIds
<1>1. \A n \in 1 .. Len(l) : l[n][1] \in MsgIds
  BY DEF Entries
<1> QED
  BY <1>1 DEF IdsOf

(* What every start of a task has in common.                               *)
Starts(s, t, v, file, down) ==
  LET i == Len(task) + 1 IN
  /\ task' \in Seq(TaskRec) /\ Len(task') = i
  /\ \A j \in 1 .. Len(task) : task'[j] = task[j]
  /\ task'[i].stage = s /\ task'[i].id = t /\ task'[i].vm = v
  /\ task'[i].log = file /\ task'[i].Stdin = <<>> /\ task'[i].SeqNum = 0
  /\ task'[i].DownstreamList = down
  /\ file = i => task'[i].ProcessedIDs = {} /\ replays' = replays
  /\ dedup' = Append(dedup, <<>>) /\ pids' = pids \cup {i}
  /\ rsTasks' = [rsTasks EXCEPT ![v][<<s, t>>] = i]
  /\ \A g \in replays' : \/ g \in replays
                         \/ /\ g \in ReplayRec
                            /\ g.task = i /\ g.rest # <<>>

(* Effect of StartTask: one more task, registered under its key.           *)
LEMMA StartTaskOp ==
  ASSUME TypeInv, NEW s \in Stages, NEW t \in Ids, NEW v \in VMs,
         NEW i, i = Len(task) + 1, i <= MaxProcs, NEW file \in 1 .. i,
         NEW down, ListFor(s, down), NEW u \in Nat, StartTask(i, s, t, v, file, down, u)
  PROVE  Starts(s, t, v, file, down)
<1> DEFINE log == IF file = i THEN <<>> ELSE dedup[file]
           q == NewTask(s, t, v, file, log, down, u)
<1>1. /\ task \in Seq(TaskRec) /\ Len(task) \in Nat /\ dedup \in Seq(Seq(Entries))
      /\ Len(dedup) = Len(task)
  BY DEF TypeInv, TasksTyped, LogsTyped
<1>2. log \in Seq(Entries) /\ (file = i => log = <<>>)
  BY <1>1
<1>3. i \in Procs /\ file \in Procs /\ down \in Seq(VMs)
  BY <1>1, ConstTypes DEF Procs, ListFor, WorkerList
<1>4. /\ task' = Append(task, q) /\ dedup' = Append(dedup, <<>>) /\ pids' = pids \cup {i}
      /\ rsTasks' = [rsTasks EXCEPT ![v][<<s, t>>] = i]
      /\ replays' = IF log = <<>> THEN replays
                    ELSE replays \cup {[task |-> i, rest |-> log, check |-> FALSE]}
  BY DEF StartTask
<1> HIDE DEF log
<1>5. IdsOf(log) \in SUBSET MsgIds /\ (log = <<>> => IdsOf(log) = {})
  BY <1>2, IdsOfType DEF IdsOf
<1>6. /\ q \in TaskRec /\ q.stage = s /\ q.id = t /\ q.vm = v /\ q.log = file
      /\ q.Stdin = <<>> /\ q.SeqNum = 0 /\ q.DownstreamList = down
      /\ q.ProcessedIDs = IdsOf(log)
  BY <1>3, <1>5 DEF NewTask, TaskRec
<1> HIDE DEF q
<1>7. /\ task' \in Seq(TaskRec) /\ Len(task') = i /\ task'[i] = q
      /\ \A j \in 1 .. Len(task) : task'[j] = task[j]
  BY <1>1, <1>4, <1>6
<1> DEFINE e == [task |-> i, rest |-> log, check |-> FALSE]
<1>8. \A g \in replays' : g \in replays \/ (log # <<>> /\ g = e)
  BY <1>4
<1>9. e \in ReplayRec /\ e.task = i /\ e.rest = log
  BY <1>2, <1>3 DEF ReplayRec
<1> HIDE DEF e
<1>10. \A g \in replays' : \/ g \in replays
                           \/ /\ g \in ReplayRec
                              /\ g.task = i /\ g.rest # <<>>
  BY <1>8, <1>9
<1> QED
  BY <1>2, <1>4, <1>5, <1>6, <1>7, <1>10 DEF Starts

(* Effect of ScaleUpStart: a task with the next id, of which the leader    *)
(* knows or not.                                                           *)
LEMMA ScaleUpStartOp ==
  ASSUME TypeInv, NEW s \in Stages, ScaleUpStart(s)
  PROVE  LET i == Len(task) + 1 IN
         /\ NewId(s) \in Ids /\ LeastLoadedWorker \in VMs /\ ListFor(s, Downstreams(s))
         /\ Starts(s, NewId(s), LeastLoadedWorker, i, Downstreams(s))
         /\ i <= MaxProcs /\ ups' = ups + 1 /\ ups < MaxUps /\ scaler.pc = "tick"
         /\ \/ /\ scaler' = [pc |-> "map", stage |-> s, op |-> "up", pid |-> i]
               /\ losses' = losses
            \/ losses' = losses + 1 /\ Tick
<1> DEFINE i == Len(task) + 1
<1>1. ups < MaxUps /\ ups \in Nat /\ Len(task) \in Nat /\ scaler.pc = "tick"
  BY DEF ScaleUpStart, ScalesUp, TypeInv, TasksTyped
<1>2. i <= MaxProcs /\ i \in 1 .. i
  BY <1>1, ConstTypes DEF TypeInv, TasksTyped
<1>3. NewId(s) \in Ids
  <2>1. PICK n \in Nat \ {0} : MaxId(s) = n - 1 /\ n <= NumTasks + ups
    BY StageFacts
  <2> QED
    BY <1>1, <2>1, ConstTypes DEF NewId, Ids
<1>4. LeastLoadedWorker \in VMs /\ ListFor(s, Downstreams(s)) /\ Upstreams(s) \in Nat
  BY LeastLoaded, DownstreamsType
<1>5. StartTask(i, s, NewId(s), LeastLoadedWorker, i, Downstreams(s), Upstreams(s))
  BY DEF ScaleUpStart
<1>6. Starts(s, NewId(s), LeastLoadedWorker, i, Downstreams(s))
  BY <1>2, <1>3, <1>4, <1>5, StartTaskOp
<1> QED
  BY <1>1, <1>2, <1>3, <1>4, <1>6 DEF ScaleUpStart

(* Effect of Restart: a task with the key, the worker, the log and the     *)
(* list of the first start.                                                *)
LEMMA RestartOp ==
  ASSUME TypeInv, NEW r \in restarts, Restart(r)
  PROVE  LET i == Len(task) + 1 IN
         /\ r.stage \in Stages /\ r.id \in Ids /\ r.info.vm \in VMs
         /\ r.info.log \in 1 .. Len(task) /\ ListFor(r.stage, r.info.down)
         /\ Starts(r.stage, r.id, r.info.vm, r.info.log, r.info.down)
         /\ i <= MaxProcs - (MaxUps - ups) /\ ups' = ups
         /\ restarts' = (restarts \ {r}) \cup {[r EXCEPT !.pid = i]}
<1> DEFINE i == Len(task) + 1
<1>1. RestartFits(r) /\ Len(task) \in Nat /\ ups \in 0 .. MaxUps
  BY DEF TypeInv, RestartsTyped, TasksTyped
<1>2. /\ r.stage \in Stages /\ r.id \in Ids /\ r.info \in InfoRec
      /\ r.info.log <= Len(task) /\ ListFor(r.stage, r.info.down)
  BY <1>1 DEF RestartFits, RestartRec, InfoFits
<1>3. r.info.vm \in VMs /\ r.info.log \in Procs /\ r.info.upstream \in Nat
  BY <1>2 DEF InfoRec
<1>4. i <= MaxProcs - (MaxUps - ups) /\ ups' = ups
  BY DEF Restart, counts
<1>5. i <= MaxProcs /\ r.info.log \in 1 .. Len(task) /\ r.info.log \in 1 .. i
  BY <1>1, <1>2, <1>3, <1>4, ConstTypes DEF Procs
<1>6. StartTask(i, r.stage, r.id, r.info.vm, r.info.log, r.info.down, r.info.upstream)
  BY DEF Restart
<1>7. Starts(r.stage, r.id, r.info.vm, r.info.log, r.info.down)
  BY <1>2, <1>3, <1>5, <1>6, StartTaskOp
<1> QED
  BY <1>2, <1>3, <1>4, <1>5, <1>7 DEF Restart

-----------------------------------------------------------------------------
(* Every step keeps the types.                                             *)

ListsStay ==
  \A j \in 1 .. Len(task) : task'[j].DownstreamList = task[j].DownstreamList

(* What a step may do to the tasks.                                        *)
LEMMA TaskSteps ==
  ASSUME TypeInv, [Next]_vars
  PROVE  \/ UNCHANGED <<task, ups>>
         \/ UNCHANGED ups /\ TasksStay /\ ListsStay
         \/ UNCHANGED ups /\ \E c \in calls : UpdateDownstream(c)
         \/ \E s \in Stages : ScaleUpStart(s)
         \/ \E r \in restarts : Restart(r)
<1> DEFINE Stays == UNCHANGED ups /\ TasksStay /\ ListsStay
<1>0. ASSUME NEW i, NEW a, NEW b, NEW c, NEW d, NEW e, NEW f, NEW h,
             TaskBecomes(i, a, b, c, d, e, f, h)
      PROVE  TasksStay /\ ListsStay
  BY <1>0 DEF TaskBecomes, ListsStay
<1>d. DOMAIN task = 1 .. Len(task)
  BY DEF TypeInv, TasksTyped
<1>1. CASE UNCHANGED vars
  BY <1>1 DEF vars, counts
<1>2. ASSUME NEW i \in DOMAIN task, UpdateRate(i) PROVE UNCHANGED <<task, ups>>
  BY <1>2 DEF UpdateRate
<1>3. ASSUME NEW i \in DOMAIN task, TaskStep(i) PROVE Stays
  <2>1. UNCHANGED ups
    BY <1>3 DEF TaskStep, Operator, OperatorExit, HandleEOF, HandleEOSSent, counts
  <2>2. CASE Operator(i)
    BY <1>0, <1>d, <2>1, <2>2, OperatorOp
  <2>3. CASE OperatorExit(i)
    BY <1>0, <1>d, <2>1, <2>3, OperatorExitOp
  <2>4. CASE HandleEOF(i)
    BY <1>0, <1>d, <2>1, <2>4, HandleEOFOp
  <2>5. CASE HandleEOSSent(i)
    BY <1>0, <1>d, <2>1, <2>5, HandleEOSSentOp
  <2> QED
    BY <1>3, <2>2, <2>3, <2>4, <2>5 DEF TaskStep
<1>4. ASSUME NEW c \in rates, StoreRate(c) PROVE UNCHANGED <<task, ups>>
  BY <1>4 DEF StoreRate, counts
<1>5. ASSUME Scaler PROVE UNCHANGED <<task, ups>> \/ \E s \in Stages : ScaleUpStart(s)
  BY <1>5 DEF Scaler, ScaleDownMap, ScaleUpMap, BroadcastUpstream, ScalerStops, counts
<1>6. ASSUME NEW c \in calls, Handle(c) \/ CallLost(c)
      PROVE  \/ UNCHANGED <<task, ups>> \/ Stays
             \/ UNCHANGED ups /\ UpdateDownstream(c)
  <2>1. UNCHANGED ups
    BY <1>6 DEF Handle, CallLost, UpdateDownstream, UpdateUpstream, KillTask,
                ProcessOrphanLog, counts
  <2>2. CASE UpdateDownstream(c)
    BY <2>1, <2>2
  <2>3. CASE UpdateUpstream(c)
    BY <2>1, <2>3, UpdateUpstreamOp DEF ListsStay
  <2>4. CASE KillTask(c)
    BY <1>0, <2>1, <2>4, KillTaskOp
  <2>5. CASE ProcessOrphanLog(c) \/ CallLost(c)
    BY <2>1, <2>5 DEF ProcessOrphanLog, CallLost
  <2> QED
    BY <1>6, <2>2, <2>3, <2>4, <2>5 DEF Handle
<1>7. ASSUME NEW g \in replays, ReplayLine(g) PROVE Stays
  <2>1. UNCHANGED ups
    BY <1>7 DEF ReplayLine, counts
  <2> QED
    BY <1>0, <1>7, <2>1, ReplayLineOp
<1>12. ASSUME NEW m \in pushes, PushGivenUp(m) PROVE UNCHANGED <<task, ups>>
  BY <1>12 DEF PushGivenUp
<1>8. ASSUME NEW m \in pushes, PushStep(m) PROVE UNCHANGED <<task, ups>> \/ Stays
  <2>1. UNCHANGED ups
    BY <1>8 DEF PushStep, SendTuple, PushNotFound, PushEOS, PushDuplicate, PushTuple,
                PushWriteFails, counts
  <2>2. CASE PushEOS(m)
    BY <1>0, <2>1, <2>2, PushEOSOp
  <2>3. CASE PushTuple(m)
    BY <1>0, <2>1, <2>3, PushTupleOp
  <2> QED
    BY <1>8, <2>1, <2>2, <2>3
    DEF PushStep, SendTuple, PushNotFound, PushDuplicate, PushWriteFails
<1>9. ASSUME SourceLine \/ SourceStops \/ SourceEOS PROVE UNCHANGED <<task, ups>>
  BY <1>9 DEF SourceLine, SourceStops, SourceEOS, counts
<1>10. ASSUME NEW r \in reports, TaskFinished(r) PROVE UNCHANGED <<task, ups>>
  BY <1>10 DEF TaskFinished, counts
<1>11. ASSUME NEW r \in restarts, RestartMap(r) PROVE UNCHANGED <<task, ups>>
  BY <1>11 DEF RestartMap, counts
<1> QED
  BY <1>1, <1>2, <1>3, <1>4, <1>5, <1>6, <1>7, <1>8, <1>9, <1>10, <1>11, <1>12 DEF Next

(* No task is forgotten, and none moves to another stage, id, worker or    *)
(* log.                                                                    *)
TasksGrow ==
  /\ task' \in Seq(TaskRec) /\ Len(task) <= Len(task') /\ Len(task) \in Nat
  /\ Len(task') \in Nat /\ \A j \in 1 .. Len(task) : SameTask(j)

(* Every step keeps TasksTyped.                                            *)
LEMMA NextTasks ==
  ASSUME TypeInv, [Next]_vars
  PROVE  TasksTyped' /\ TasksGrow
<1>t. TasksTyped /\ task \in Seq(TaskRec) /\ Len(task) \in Nat /\ ups \in 0 .. MaxUps
  BY DEF TypeInv, TasksTyped
<1>1. CASE UNCHANGED <<task, ups>>
  BY <1>1, <1>t DEF TasksTyped, TasksGrow, SameTask
<1>2. CASE UNCHANGED ups /\ TasksStay /\ ListsStay
  BY <1>2, <1>t DEF TasksTyped, TasksStay, ListsStay, SameTask, TasksGrow
<1>3. CASE UNCHANGED ups /\ \E c \in calls : UpdateDownstream(c)
  <2>1. PICK c \in calls : UpdateDownstream(c)
    BY <1>3
  <2>2. TasksStay /\ \A j \in 1 .. Len(task) :
          task'[j].DownstreamList \in {c.arg, task[j].DownstreamList}
    BY <2>1, UpdateDownstreamOp
  <2>3. \A s : ListFor(s, c.arg)
    BY <2>1 DEF TypeInv, CallsTyped, CallFits, UpdateDownstream, ListFor
  <2>4. \A j \in 1 .. Len(task) : ListFor(task'[j].stage, task'[j].DownstreamList)
    BY <1>t, <2>2, <2>3 DEF TasksTyped, TasksStay, SameTask
  <2> QED
    BY <1>3, <1>t, <2>2, <2>4 DEF TasksTyped, TasksStay, SameTask, TasksGrow
<1>4. ASSUME NEW s \in Stages, ScaleUpStart(s) PROVE TasksTyped' /\ TasksGrow
  <2> DEFINE i == Len(task) + 1
  <2>1. /\ Starts(s, NewId(s), LeastLoadedWorker, i, Downstreams(s)) /\ ups' = ups + 1
        /\ ups < MaxUps /\ ListFor(s, Downstreams(s))
    BY <1>4, ScaleUpStartOp
  <2>2. /\ task' \in Seq(TaskRec) /\ Len(task') = i /\ task'[i].log = i
        /\ task'[i].stage = s /\ task'[i].DownstreamList = Downstreams(s)
        /\ \A j \in 1 .. Len(task) : task'[j] = task[j]
    BY <2>1 DEF Starts
  <2>3. /\ ups' \in 0 .. MaxUps /\ Len(task') <= MaxProcs - (MaxUps - ups')
    BY <1>t, <2>1, <2>2, ConstTypes DEF TasksTyped
  <2>4. \A j \in 1 .. Len(task') :
          task'[j].log <= Len(task') /\ ListFor(task'[j].stage, task'[j].DownstreamList)
    <3> TAKE j \in 1 .. Len(task')
    <3>1. CASE j = i
      BY <2>1, <2>2, <1>t, <3>1
    <3>2. CASE j # i
      <4>1. j \in 1 .. Len(task) /\ task'[j] = task[j]
        BY <1>t, <2>2, <3>2
      <4>2. task[j].log \in 1 .. Len(task) /\ ListFor(task[j].stage, task[j].DownstreamList)
        BY <1>t, <4>1, TaskFields
      <4> QED
        BY <1>t, <2>2, <4>1, <4>2
    <3> QED
      BY <3>1, <3>2
  <2> QED
    BY <1>t, <2>2, <2>3, <2>4 DEF TasksTyped, TasksGrow, SameTask
<1>5. ASSUME NEW r \in restarts, Restart(r) PROVE TasksTyped' /\ TasksGrow
  <2> DEFINE i == Len(task) + 1
  <2>1. /\ Starts(r.stage, r.id, r.info.vm, r.info.log, r.info.down) /\ ups' = ups
        /\ i <= MaxProcs - (MaxUps - ups) /\ ListFor(r.stage, r.info.down)
        /\ r.info.log \in 1 .. Len(task)
    BY <1>5, RestartOp
  <2>2. /\ task' \in Seq(TaskRec) /\ Len(task') = i /\ task'[i].log = r.info.log
        /\ task'[i].stage = r.stage /\ task'[i].DownstreamList = r.info.down
        /\ \A j \in 1 .. Len(task) : task'[j] = task[j]
    BY <2>1 DEF Starts
  <2>3. \A j \in 1 .. Len(task') :
          task'[j].log <= Len(task') /\ ListFor(task'[j].stage, task'[j].DownstreamList)
    <3> TAKE j \in 1 .. Len(task')
    <3>1. CASE j = i
      BY <2>1, <2>2, <1>t, <3>1
    <3>2. CASE j # i
      <4>1. j \in 1 .. Len(task) /\ task'[j] = task[j]
        BY <1>t, <2>2, <3>2
      <4>2. task[j].log \in 1 .. Len(task) /\ ListFor(task[j].stage, task[j].DownstreamList)
        BY <1>t, <4>1, TaskFields
      <4> QED
        BY <1>t, <2>2, <4>1, <4>2
    <3> QED
      BY <3>1, <3>2
  <2> QED
    BY <1>t, <2>1, <2>2, <2>3 DEF TasksTyped, TasksGrow, SameTask
<1> QED
  BY <1>1, <1>2, <1>3, <1>4, <1>5, TaskSteps

(* Which steps change which variable.                                      *)
Adds == \E s \in Stages : ScaleUpStart(s)
Removes == \E s \in Stages : ScaleDownMap(s)
Restarts == \E r \in restarts : Restart(r)

NodeFrame ==
  /\ \/ UNCHANGED <<rsTasks, pids>> \/ Adds \/ Restarts
     \/ \E c \in calls : KillTask(c)
  /\ \/ UNCHANGED dedup \/ Adds \/ Restarts
     \/ \E m \in pushes : PushTuple(m) \/ PushWriteFails(m)
  /\ UNCHANGED output \/ \E i \in DOMAIN task : Operator(i)
  /\ \/ UNCHANGED pushes \/ (\E m \in pushes : PushStep(m) \/ PushGivenUp(m))
     \/ SourceLine \/ SourceEOS \/ \E i \in DOMAIN task : Operator(i) \/ HandleEOF(i)
  /\ \/ UNCHANGED replays \/ Adds \/ Restarts
     \/ (\E c \in calls : ProcessOrphanLog(c)) \/ \E g \in replays : ReplayLine(g)

LeaderFrame ==
  /\ UNCHANGED source \/ SourceLine \/ SourceStops \/ SourceEOS
  /\ \/ UNCHANGED <<GlobalTaskMap, TotalTasks>> \/ ScaleUpMap \/ Removes
     \/ \E r \in restarts : RestartMap(r)
  /\ \/ UNCHANGED <<rates, TaskRates>> \/ (\E i \in DOMAIN task : UpdateRate(i))
     \/ (\E c \in rates : StoreRate(c)) \/ Removes
  /\ UNCHANGED <<scaler, downs>> \/ Scaler
  /\ calls' \subseteq calls \/ ScaleUpMap \/ Removes \/ BroadcastUpstream
  /\ \/ reports' \subseteq reports
     \/ \E i \in DOMAIN task : HandleEOF(i) \/ HandleEOSSent(i)
  /\ \/ UNCHANGED restarts \/ (\E r \in reports : TaskFinished(r)) \/ Restarts
     \/ \E r \in restarts : RestartMap(r)
  /\ UNCHANGED FinishedTasks \/ \E r \in reports : TaskFinished(r)

(* Every step has these frames.                                            *)
LEMMA Frames == ASSUME [Next]_vars PROVE NodeFrame /\ LeaderFrame
<1> USE DEF NodeFrame, LeaderFrame, workerVars, files, leaderVars, finishVars, counts
<1>1. CASE UNCHANGED vars
  BY <1>1 DEF vars
<1>2. CASE \E i \in DOMAIN task : UpdateRate(i)
  BY <1>2 DEF UpdateRate
<1>3. CASE \E i \in DOMAIN task : TaskStep(i)
  <2>1. PICK i \in DOMAIN task : TaskStep(i)
    BY <1>3
  <2>2. CASE Operator(i)
    BY <2>2 DEF Operator
  <2>3. CASE OperatorExit(i)
    BY <2>3 DEF OperatorExit
  <2>4. CASE HandleEOF(i)
    BY <2>4 DEF HandleEOF
  <2>5. CASE HandleEOSSent(i)
    BY <2>5 DEF HandleEOSSent
  <2> QED
    BY <2>1, <2>2, <2>3, <2>4, <2>5 DEF TaskStep
<1>4. CASE \E c \in rates : StoreRate(c)
  BY <1>4 DEF StoreRate
<1>5. CASE Scaler
  <2>1. CASE Adds
    <3>1. PICK s \in Stages : ScaleUpStart(s)
      BY <2>1 DEF Adds
    <3>2. /\ UNCHANGED <<output, pushes, source, leaderVars, TaskRates, rates, calls>>
          /\ UNCHANGED <<finishVars, downs, reported>>
      BY <3>1 DEF ScaleUpStart
    <3> QED
      BY <1>5, <2>1, <3>2
  <2>2. CASE Removes
    <3>1. PICK s \in Stages : ScaleDownMap(s)
      BY <2>2 DEF Removes
    <3>2. /\ UNCHANGED <<task, workerVars, files, pushes, replays, source, rates>>
          /\ UNCHANGED <<finishVars, ups, reported, losses>>
      BY <3>1 DEF ScaleDownMap
    <3> QED
      BY <1>5, <2>2, <3>2
  <2>3. CASE ScaleUpMap
    <3>1. /\ UNCHANGED <<task, workerVars, files, pushes, replays, source, TaskRates>>
          /\ UNCHANGED <<rates, finishVars, counts, losses>>
      BY <2>3 DEF ScaleUpMap
    <3> QED
      BY <1>5, <2>3, <3>1
  <2>4. CASE BroadcastUpstream
    <3>1. /\ UNCHANGED <<task, workerVars, files, pushes, replays, source, leaderVars>>
          /\ UNCHANGED <<TaskRates, rates, finishVars, counts, losses>>
      BY <2>4 DEF BroadcastUpstream
    <3> QED
      BY <1>5, <2>4, <3>1
  <2>5. CASE ScalerStops
    BY <1>5, <2>5 DEF ScalerStops
  <2> QED
    BY <1>5, <2>1, <2>2, <2>3, <2>4, <2>5 DEF Scaler, Adds, Removes
<1>6. CASE \E c \in calls : Handle(c) \/ CallLost(c)
  <2>1. PICK c \in calls : Handle(c) \/ CallLost(c)
    BY <1>6
  <2>2. CASE UpdateDownstream(c) \/ UpdateUpstream(c)
    BY <2>2 DEF UpdateDownstream, UpdateUpstream
  <2>3. CASE KillTask(c)
    BY <2>3 DEF KillTask
  <2>4. CASE ProcessOrphanLog(c)
    BY <2>4 DEF ProcessOrphanLog
  <2>5. CASE CallLost(c)
    BY <2>5 DEF CallLost
  <2> QED
    BY <2>1, <2>2, <2>3, <2>4, <2>5 DEF Handle
<1>7. CASE \E g \in replays : ReplayLine(g)
  <2>1. PICK g \in replays : ReplayLine(g)
    BY <1>7
  <2>2. /\ UNCHANGED <<workerVars, files, pushes, source, leaderVars, TaskRates, rates>>
        /\ UNCHANGED <<scaler, calls, finishVars, counts, losses>>
    BY <2>1 DEF ReplayLine
  <2> QED
    BY <2>1, <2>2
<1>8. CASE \E m \in pushes : PushStep(m)
  <2>1. PICK m \in pushes : PushStep(m)
    BY <1>8
  <2>2. /\ UNCHANGED <<workerVars, output, replays, source, leaderVars, TaskRates, rates>>
        /\ UNCHANGED <<scaler, calls, finishVars, counts, losses>>
        /\ UNCHANGED dedup \/ PushTuple(m) \/ PushWriteFails(m)
    BY <2>1 DEF PushStep, SendTuple, PushNotFound, PushEOS, PushDuplicate, PushTuple,
                PushWriteFails
  <2> QED
    BY <2>1, <2>2
<1>13. CASE \E m \in pushes : PushGivenUp(m)
  BY <1>13 DEF PushGivenUp
<1>9. CASE SourceLine \/ SourceStops \/ SourceEOS
  BY <1>9 DEF SourceLine, SourceStops, SourceEOS
<1>10. CASE \E r \in reports : TaskFinished(r)
  BY <1>10 DEF TaskFinished
<1>11. CASE Restarts
  BY <1>11 DEF Restart, Restarts
<1>12. CASE \E r \in restarts : RestartMap(r)
  BY <1>12 DEF RestartMap
<1> QED
  BY <1>1, <1>2, <1>3, <1>4, <1>5, <1>6, <1>7, <1>8, <1>9, <1>10, <1>11, <1>12, <1>13
  DEF Next, Restarts

(* What a step may do to the counters.                                     *)
CountSteps ==
  /\ downs' = downs \/ (downs < MaxDowns /\ downs' = downs + 1)
  /\ reported' = reported \/ (reported < MaxReports /\ reported' = reported + 1)
  /\ \/ UNCHANGED <<unanswered, losses>>
     \/ MayLose /\ unanswered' = unanswered + 1 /\ losses' = losses
     \/ MayLose /\ losses' = losses + 1 /\ unanswered' = unanswered

(* Every step counts so.                                                   *)
LEMMA CountFrames == ASSUME [Next]_vars PROVE CountSteps
<1> USE DEF CountSteps, counts
<1>1. CASE UNCHANGED vars
  BY <1>1 DEF vars
<1>2. CASE \E i \in DOMAIN task : UpdateRate(i) \/ TaskStep(i)
  BY <1>2 DEF UpdateRate, TaskStep, Operator, OperatorExit, HandleEOF, HandleEOSSent
<1>3. CASE \E c \in rates : StoreRate(c)
  BY <1>3 DEF StoreRate
<1>4. CASE Scaler
  BY <1>4 DEF Scaler, ScaleUpStart, ScaleDownMap, ScalesDown, ScaleUpMap, BroadcastUpstream,
              ScalerStops
<1>5. CASE \E c \in calls : Handle(c) \/ CallLost(c)
  BY <1>5 DEF Handle, CallLost, UpdateDownstream, UpdateUpstream, KillTask, ProcessOrphanLog
<1>6. CASE \E g \in replays : ReplayLine(g)
  BY <1>6 DEF ReplayLine
<1>7. CASE \E m \in pushes : PushStep(m) \/ PushGivenUp(m)
  BY <1>7 DEF PushStep, SendTuple, PushNotFound, PushEOS, PushDuplicate, PushTuple,
              PushWriteFails, PushGivenUp
<1>8. CASE SourceLine \/ SourceStops \/ SourceEOS
  BY <1>8 DEF SourceLine, SourceStops, SourceEOS
<1>9. CASE \E r \in reports : TaskFinished(r)
  BY <1>9 DEF TaskFinished
<1>10. CASE \E r \in restarts : Restart(r) \/ RestartMap(r)
  BY <1>10 DEF Restart, RestartMap
<1> QED
  BY <1>1, <1>2, <1>3, <1>4, <1>5, <1>6, <1>7, <1>8, <1>9, <1>10 DEF Next

(* Every step keeps NodesTyped.                                            *)
LEMMA NextNodes ==
  ASSUME TypeInv, [Next]_vars
  PROVE  NodesTyped'
<1>g. TasksGrow /\ NodesTyped
  BY NextTasks DEF TypeInv
<1>1. ASSUME NEW v \in VMs, NEW k \in Keys, NEW i, i = Len(task'), i = Len(task) + 1,
             rsTasks' = [rsTasks EXCEPT ![v][k] = i], pids' = pids \cup {i}
      PROVE  NodesTyped'
  <2>1. rsTasks' = [rsTasks EXCEPT ![v] = [rsTasks[v] EXCEPT ![k] = i]]
    BY <1>1
  <2>2. [rsTasks[v] EXCEPT ![k] = i] \in [Keys -> 0 .. Len(task')]
    BY <1>g, <1>1 DEF NodesTyped, TasksGrow
  <2>3. \A w \in VMs : rsTasks[w] \in [Keys -> 0 .. Len(task')]
    BY <1>g, <1>1 DEF NodesTyped, TasksGrow
  <2>4. rsTasks' \in [VMs -> [Keys -> 0 .. Len(task')]]
    BY <1>g, <2>1, <2>2, <2>3 DEF NodesTyped
  <2>5. 1 .. Len(task) \subseteq 1 .. Len(task') /\ i \in 1 .. Len(task')
    BY <1>g, <1>1 DEF TasksGrow
  <2>6. pids' \subseteq 1 .. Len(task')
    BY <1>g, <1>1, <2>5 DEF NodesTyped
  <2> QED
    BY <2>4, <2>6 DEF NodesTyped
<1>2. CASE Adds
  <2>1. PICK s \in Stages : ScaleUpStart(s)
    BY <1>2 DEF Adds
  <2>2. <<s, NewId(s)>> \in Keys /\ LeastLoadedWorker \in VMs
    BY <2>1, ScaleUpStartOp DEF Keys
  <2>3. Starts(s, NewId(s), LeastLoadedWorker, Len(task) + 1, Downstreams(s))
    BY <2>1, ScaleUpStartOp
  <2> QED
    BY <1>1, <2>2, <2>3 DEF Starts
<1>3. CASE Restarts
  <2>1. PICK r \in restarts : Restart(r)
    BY <1>3 DEF Restarts
  <2>2. <<r.stage, r.id>> \in Keys /\ r.info.vm \in VMs
    BY <2>1, RestartOp DEF Keys
  <2>3. Starts(r.stage, r.id, r.info.vm, r.info.log, r.info.down)
    BY <2>1, RestartOp
  <2> QED
    BY <1>1, <2>2, <2>3 DEF Starts
<1>4. CASE \E c \in calls : KillTask(c)
  <2>1. PICK c \in calls : KillTask(c)
    BY <1>4
  <2> DEFINE k == <<c.stage, c.id>>
  <2>2. k \in Keys /\ c.vm \in VMs
    BY DEF TypeInv, CallsTyped, CallFits, Keys
  <2>3. /\ pids' \subseteq pids
        /\ rsTasks' \in {rsTasks, [rsTasks EXCEPT ![c.vm] = [rsTasks[c.vm] EXCEPT ![k] = 0]]}
    BY <2>1 DEF KillTask
  <2> HIDE DEF k
  <2>4. [rsTasks[c.vm] EXCEPT ![k] = 0] \in [Keys -> 0 .. Len(task)]
    BY <1>g, <2>2 DEF NodesTyped, TasksGrow
  <2>5. rsTasks' \in [VMs -> [Keys -> 0 .. Len(task)]]
    BY <1>g, <2>2, <2>3, <2>4 DEF NodesTyped
  <2>6. Len(task') = Len(task)
    BY <2>1, KillTaskOp DEF TaskBecomes, TasksStay
  <2> QED
    BY <1>g, <2>3, <2>5, <2>6 DEF NodesTyped
<1>5. CASE UNCHANGED <<rsTasks, pids>>
  <2>1. \A v \in VMs : rsTasks[v] \in [Keys -> 0 .. Len(task')]
    BY <1>g DEF NodesTyped, TasksGrow
  <2> QED
    BY <1>g, <1>5, <2>1 DEF NodesTyped, TasksGrow
<1> QED
  BY <1>2, <1>3, <1>4, <1>5, Frames DEF NodeFrame

(* Every step keeps LogsTyped.                                             *)
LEMMA NextLogs ==
  ASSUME TypeInv, [Next]_vars
  PROVE  LogsTyped'
<1>g. LogsTyped /\ Len(task) \in Nat
  BY DEF TypeInv, TasksTyped
<1>d. DOMAIN task = 1 .. Len(task)
  BY DEF TypeInv, TasksTyped
<1>1. output' \in Seq(Lines)
  <2>1. ASSUME NEW i \in DOMAIN task, Operator(i) PROVE output' \in Seq(Lines)
    <3>1. /\ Head(task[i].Stdin) \in Lines
          /\ output' = output \/ output' = Append(output, Head(task[i].Stdin))
      BY <1>d, <2>1, OperatorOp
    <3>2. PICK x \in Lines : output' = output \/ output' = Append(output, x)
      BY <3>1
    <3>3. output \in Seq(Lines)
      BY <1>g DEF LogsTyped
    <3>4. Append(output, x) \in Seq(Lines)
      BY <3>3
    <3> QED
      BY <3>2, <3>3, <3>4
  <2> QED
    BY <1>g, <2>1, Frames DEF NodeFrame, LogsTyped
<1>2. ASSUME NEW s, NEW t, NEW v, NEW f, NEW l, Starts(s, t, v, f, l)
      PROVE  dedup' \in Seq(Seq(Entries)) /\ Len(dedup') = Len(task')
  <2>1. dedup' = Append(dedup, <<>>) /\ Len(task') = Len(task) + 1
    BY <1>2 DEF Starts
  <2>2. <<>> \in Seq(Entries)
    OBVIOUS
  <2> QED
    BY <1>g, <2>1, <2>2 DEF LogsTyped
<1>3. ASSUME NEW m \in pushes, PushTuple(m) \/ PushWriteFails(m)
      PROVE  dedup' \in Seq(Seq(Entries)) /\ Len(dedup') = Len(task')
  <2>1. Fresh(m) /\ LogTuple(m)
    BY <1>3 DEF PushTuple, PushWriteFails
  <2> DEFINE f == task[Target(m)].log
             l == Append(dedup[f], <<m.id, m.val>>)
  <2>2. f \in 1 .. Len(task) /\ <<m.id, m.val>> \in Entries
    BY <2>1, FreshFacts
  <2>3. dedup[f] \in Seq(Entries)
    BY <1>g, <2>2 DEF LogsTyped
  <2>4. l \in Seq(Entries)
    BY <2>2, <2>3
  <2>5. dedup' = [dedup EXCEPT ![f] = l]
    BY <2>1 DEF LogTuple
  <2> HIDE DEF l, f
  <2>6. dedup' \in Seq(Seq(Entries)) /\ Len(dedup') = Len(dedup)
    BY <1>g, <2>2, <2>4, <2>5 DEF LogsTyped
  <2>7. Len(task') = Len(task)
    <3>1. CASE PushTuple(m)
      BY <3>1, PushTupleOp DEF TaskBecomes, TasksStay
    <3>2. CASE PushWriteFails(m)
      BY <3>2 DEF PushWriteFails
    <3> QED
      BY <1>3, <3>1, <3>2
  <2> QED
    BY <1>g, <2>6, <2>7 DEF LogsTyped
<1>4. dedup' \in Seq(Seq(Entries)) /\ Len(dedup') = Len(task')
  <2>1. CASE Adds
    BY <1>2, <2>1, ScaleUpStartOp DEF Adds
  <2>2. CASE Restarts
    BY <1>2, <2>2, RestartOp DEF Restarts
  <2>3. CASE \E m \in pushes : PushTuple(m) \/ PushWriteFails(m)
    BY <1>3, <2>3
  <2>4. CASE UNCHANGED dedup /\ ~Adds /\ ~Restarts
    <3>1. Len(task') = Len(task)
      <4>1. ASSUME NEW c \in calls, UpdateDownstream(c) PROVE Len(task') = Len(task)
        BY <4>1, UpdateDownstreamOp DEF TasksStay
      <4> QED
        BY <2>4, <4>1, TaskSteps DEF TasksStay, Adds, Restarts
    <3> QED
      BY <1>g, <2>4, <3>1 DEF LogsTyped
  <2> QED
    BY <2>1, <2>2, <2>3, <2>4, Frames DEF NodeFrame
<1> QED
  BY <1>1, <1>4 DEF LogsTyped

(* Every step keeps ReplaysTyped.                                          *)
LEMMA NextReplays ==
  ASSUME TypeInv, [Next]_vars
  PROVE  ReplaysTyped'
<1>g. TasksGrow /\ ReplaysTyped /\ TasksTyped'
  BY NextTasks DEF TypeInv
<1>p. Len(task') <= MaxProcs
  BY <1>g, ConstTypes DEF TasksTyped
<1>0. \A e : ReplayFits(e) => ReplayFits(e)'
  <2> TAKE e
  <2>1. e \in ReplayRec => e.task \in Nat
    BY ConstTypes DEF Procs, ReplayRec
  <2> QED
    BY <1>g, <2>1 DEF ReplayFits, TasksGrow
<1>1. ASSUME NEW s, NEW t, NEW v, NEW f, NEW l, Starts(s, t, v, f, l)
      PROVE  ReplaysTyped'
  <2>1. Len(task') = Len(task) + 1
    BY <1>1 DEF Starts
  <2>2. \A e \in replays' : e \notin replays => ReplayFits(e)'
    BY <1>1, <1>g, <2>1 DEF Starts, ReplayFits, TasksGrow
  <2> QED
    BY <1>0, <1>g, <2>2 DEF ReplaysTyped
<1>2. ASSUME NEW c \in calls, ProcessOrphanLog(c) PROVE ReplaysTyped'
  <2>a. PICK i : i = rsTasks[c.vm][<<c.stage, c.id>>]
    OBVIOUS
  <2>b. PICK log : log = dedup[c.arg[1]]
    OBVIOUS
  <2>e. PICK e : e = [task |-> i, rest |-> log, check |-> TRUE]
    OBVIOUS
  <2>1. /\ c.arg[1] \in 1 .. Len(task) /\ c.vm \in VMs /\ <<c.stage, c.id>> \in Keys
    BY <1>2 DEF TypeInv, CallsTyped, CallFits, ProcessOrphanLog, Keys
  <2>2. i \in 0 .. Len(task) /\ log \in Seq(Entries)
    BY <2>1, <2>a, <2>b DEF TypeInv, NodesTyped, LogsTyped
  <2>3. \A x \in replays' : x \in replays \/ (i # 0 /\ log # <<>> /\ x = e)
    BY <1>2, <2>a, <2>b, <2>e DEF ProcessOrphanLog
  <2>4. UNCHANGED task
    BY <1>2 DEF ProcessOrphanLog
  <2>5. i # 0 => i \in Procs /\ i <= Len(task')
    BY <1>g, <1>p, <2>2, <2>4, ConstTypes DEF Procs, TasksGrow
  <2>6. i # 0 /\ log # <<>> => ReplayFits(e)'
    BY <2>2, <2>5, <2>e DEF ReplayFits, ReplayRec
  <2> QED
    BY <1>0, <1>g, <2>3, <2>6 DEF ReplaysTyped
<1>3. ASSUME NEW g \in replays, ReplayLine(g) PROVE ReplaysTyped'
  <2> DEFINE e == [g EXCEPT !.rest = Tail(g.rest)]
  <2>1. ReplayFits(g)
    BY <1>g DEF ReplaysTyped
  <2>2. \A x \in replays' : x \in replays \/ (Len(g.rest) # 1 /\ x = e)
    BY <1>3 DEF ReplayLine
  <2>3. g.rest \in Seq(Entries) /\ g.rest # <<>>
    BY <2>1 DEF ReplayFits, ReplayRec
  <2>4. Len(g.rest) # 1 => Tail(g.rest) # <<>>
    <3>1. Len(g.rest) \in Nat \ {0} /\ Len(Tail(g.rest)) = Len(g.rest) - 1
      BY <2>3
    <3>2. Len(<<>>) = 0
      OBVIOUS
    <3>3. Len(g.rest) # 1 => Len(Tail(g.rest)) # Len(<<>>)
      BY <3>1, <3>2
    <3> QED
      BY <3>3, Zenon
  <2>5. /\ e \in ReplayRec
        /\ e.task = g.task /\ e.rest = Tail(g.rest)
    BY <2>1, <2>3 DEF ReplayFits, ReplayRec
  <2> HIDE DEF e
  <2>6. Len(g.rest) # 1 => ReplayFits(e)
    BY <2>1, <2>4, <2>5 DEF ReplayFits
  <2> QED
    BY <1>0, <1>g, <2>2, <2>6 DEF ReplaysTyped
<1>4. CASE UNCHANGED replays
  BY <1>0, <1>4, <1>g DEF ReplaysTyped
<1> QED
  BY <1>1, <1>2, <1>3, <1>4, Frames, ScaleUpStartOp, RestartOp DEF NodeFrame, Adds, Restarts

(* Every step keeps SourceTyped.                                           *)
LEMMA NextSource ==
  ASSUME TypeInv, [Next]_vars
  PROVE  SourceTyped'
<1>1. SourceTyped
  BY DEF TypeInv
<1>2. CASE SourceLine
  BY <1>1, <1>2, ConstTypes DEF SourceTyped, SourceLine, SourceRec
<1>3. CASE SourceStops \/ SourceEOS
  BY <1>1, <1>3 DEF SourceTyped, SourceStops, SourceEOS, SourceRec
<1> QED
  BY <1>1, <1>2, <1>3, Frames DEF LeaderFrame, SourceTyped

(* Every step keeps RatesTyped.                                            *)
LEMMA NextRates ==
  ASSUME TypeInv, [Next]_vars
  PROVE  RatesTyped'
<1>1. RatesTyped /\ DOMAIN task = 1 .. Len(task) /\ TasksTyped
  BY DEF TypeInv, TasksTyped
<1>2. ASSUME NEW i \in DOMAIN task, UpdateRate(i) PROVE RatesTyped'
  <2>1. PICK x \in Rates[task[i].stage] :
          rates' = rates \cup {[stage |-> task[i].stage, id |-> task[i].id, rate |-> x]}
    BY <1>2 DEF UpdateRate
  <2>2. task[i].stage \in Stages /\ task[i].id \in Ids
    BY <1>1, TaskFields
  <2>3. x \in Nat
    BY <2>2, AutoscaleAssumption
  <2>4. [stage |-> task[i].stage, id |-> task[i].id, rate |-> x] \in RateRec
    BY <2>2, <2>3 DEF RateRec
  <2>5. TaskRates' = TaskRates
    BY <1>2 DEF UpdateRate
  <2> QED
    BY <1>1, <2>1, <2>4, <2>5 DEF RatesTyped
<1>3. ASSUME NEW c \in rates, StoreRate(c) PROVE RatesTyped'
  <2>1. c.stage \in Stages /\ c.id \in Ids /\ c.rate \in Nat
    BY <1>1 DEF RatesTyped, RateRec
  <2>2. /\ rates' \subseteq rates
        /\ TaskRates' = [TaskRates EXCEPT ![c.stage] = Put(TaskRates[c.stage], c.id, c.rate)]
    BY <1>3 DEF StoreRate
  <2>3. DOMAIN Put(TaskRates[c.stage], c.id, c.rate) \subseteq Ids
    <3>1. DOMAIN TaskRates[c.stage] \subseteq Ids
      BY <1>1, <2>1 DEF RatesTyped
    <3>2. DOMAIN Put(TaskRates[c.stage], c.id, c.rate) = DOMAIN TaskRates[c.stage] \cup {c.id}
      BY PutDomain
    <3> QED
      BY <2>1, <3>1, <3>2
  <2>4. \A t \in DOMAIN Put(TaskRates[c.stage], c.id, c.rate) :
          Put(TaskRates[c.stage], c.id, c.rate)[t] \in Nat
    BY <1>1, <2>1 DEF RatesTyped, Put
  <2> QED
    BY <1>1, <2>1, <2>2, <2>3, <2>4 DEF RatesTyped
<1>4. ASSUME NEW s \in Stages, ScaleDownMap(s) PROVE RatesTyped'
  <2>1. PICK D : D \subseteq DOMAIN TaskRates[s] /\
                 TaskRates' = [TaskRates EXCEPT ![s] = Restrict(TaskRates[s], D)]
    BY <1>4 DEF ScaleDownMap
  <2>2. DOMAIN Restrict(TaskRates[s], D) \subseteq Ids
    BY <1>1, <2>1 DEF Restrict, RatesTyped
  <2>3. rates' = rates
    BY <1>4 DEF ScaleDownMap
  <2>4. \A t \in DOMAIN Restrict(TaskRates[s], D) : Restrict(TaskRates[s], D)[t] \in Nat
    BY <1>1, <2>1 DEF Restrict, RatesTyped
  <2> QED
    BY <1>1, <2>1, <2>2, <2>3, <2>4 DEF RatesTyped
<1> QED
  BY <1>1, <1>2, <1>3, <1>4, Frames DEF LeaderFrame, RatesTyped, Removes

(* Every step keeps ReportsTyped.                                          *)
LEMMA NextReports ==
  ASSUME TypeInv, [Next]_vars
  PROVE  ReportsTyped'
<1>1. ReportsTyped /\ DOMAIN task = 1 .. Len(task) /\ TasksTyped
  BY DEF TypeInv, TasksTyped
<1>p. DOMAIN task \subseteq Procs
  BY PidRange DEF TypeInv, TasksTyped
<1>2. ASSUME NEW i \in DOMAIN task, NEW x \in {"Success", "Failure"}, Report(i, x)
      PROVE  ReportsTyped'
  <2>1. task[i].stage \in Stages /\ task[i].id \in Ids /\ i \in Procs
    BY <1>1, <1>p, TaskFields
  <2>2. [pid |-> i, stage |-> task[i].stage, id |-> task[i].id, status |-> x] \in ReportRec
    BY <2>1 DEF ReportRec
  <2> QED
    BY <1>1, <1>2, <2>2 DEF ReportsTyped, Report
<1>3. ASSUME NEW i \in DOMAIN task, HandleEOF(i) \/ HandleEOSSent(i) PROVE ReportsTyped'
  <2>1. reports' = reports \/ \E x \in {"Success", "Failure"} : Report(i, x)
    BY <1>3 DEF HandleEOF, HandleEOSSent
  <2> QED
    BY <1>1, <1>2, <2>1 DEF ReportsTyped
<1> QED
  BY <1>1, <1>3, Frames DEF LeaderFrame, ReportsTyped

(* What a step may do to the leader's map.                                 *)
LEMMA MapSteps ==
  ASSUME TypeInv, [Next]_vars
  PROVE  \/ UNCHANGED <<GlobalTaskMap, scaler, ups, TotalTasks, downs>>
         \/ Adds \/ ScaleUpMap \/ Removes \/ BroadcastUpstream \/ ScalerStops
         \/ \E r \in restarts : RestartMap(r)
<1>1. UNCHANGED <<scaler, downs>> \/ Scaler
  BY Frames DEF LeaderFrame
<1>2. \/ UNCHANGED <<GlobalTaskMap, TotalTasks>> \/ ScaleUpMap \/ Removes
      \/ \E r \in restarts : RestartMap(r)
  BY Frames DEF LeaderFrame
<1>3. UNCHANGED ups \/ Adds
  <2>1. ASSUME NEW r \in restarts, Restart(r) PROVE UNCHANGED ups
    BY <2>1, RestartOp
  <2> QED
    BY <2>1, TaskSteps DEF Adds
<1>4. Scaler => Adds \/ Removes \/ ScaleUpMap \/ BroadcastUpstream \/ ScalerStops
  BY DEF Scaler, Adds, Removes
<1> QED
  BY <1>1, <1>2, <1>3, <1>4

(* Stage s gets a task n with the entry e, and no other stage changes.     *)
MapGrows(s, n, e) ==
  /\ DOMAIN GlobalTaskMap[s] = 0 .. n - 1 /\ DOMAIN GlobalTaskMap'[s] = 0 .. n
  /\ \A t \in 0 .. n - 1 : GlobalTaskMap'[s][t] = GlobalTaskMap[s][t]
  /\ GlobalTaskMap'[s][n] = e
  /\ \A r \in Stages : r # s => GlobalTaskMap'[r] = GlobalTaskMap[r]

(* Effect of ScaleUpMap: the new task follows the last one.                *)
LEMMA ScaleUpMapOp ==
  ASSUME TypeInv, ScaleUpMap
  PROVE  \E n \in Nat \ {0}, e \in InfoRec :
           LET s == scaler.stage
               i == scaler.pid
           IN
           /\ s \in Stages /\ i \in 1 .. Len(task) /\ n = NewId(s) /\ n < NumTasks + ups
           /\ e.vm = task[i].vm /\ e.PID = i /\ e.log = i /\ e.down = Downstreams(s)
           /\ InfoFits(e, s) /\ MapGrows(s, n, e) /\ scaler.pc = "map"
           /\ scaler' = [scaler EXCEPT !.pc = "waiting"]
<1> DEFINE s == scaler.stage
           i == scaler.pid
           e == [vm |-> task[i].vm, PID |-> i, log |-> i, down |-> Downstreams(s),
                 upstream |-> Upstreams(s)]
<1>1. /\ scaler.pc = "map" /\ scaler' = [scaler EXCEPT !.pc = "waiting"]
      /\ GlobalTaskMap' = [GlobalTaskMap EXCEPT ![s] = Put(GlobalTaskMap[s], NewId(s), e)]
  BY DEF ScaleUpMap
<1>2. s \in Stages /\ i \in Nat /\ i <= Len(task) /\ i # 0 /\ Len(task) \in Nat
  BY <1>1, ConstTypes DEF TypeInv, ScalerTyped, ScalerRec, TasksTyped
<1>3. i \in 1 .. Len(task) /\ i \in Procs
  <2>1. Len(task) <= MaxProcs
    BY ConstTypes DEF TypeInv, TasksTyped
  <2> QED
    BY <1>2, <2>1, ConstTypes DEF Procs
<1>4. ListFor(s, Downstreams(s)) /\ Upstreams(s) \in Nat /\ task[i].vm \in VMs
  BY <1>2, <1>3, DownstreamsType, TaskFields DEF TypeInv
<1>5. /\ e \in InfoRec /\ e.vm = task[i].vm /\ e.PID = i /\ e.log = i
      /\ e.down = Downstreams(s)
  BY <1>3, <1>4 DEF InfoRec, ListFor, WorkerList
<1> HIDE DEF e
<1>6. InfoFits(e, s)
  BY <1>2, <1>4, <1>5 DEF InfoFits
<1>7. PICK n \in Nat \ {0} : /\ DOMAIN GlobalTaskMap[s] = 0 .. n - 1 /\ MaxId(s) = n - 1
                             /\ n < NumTasks + ups
  BY <1>1, <1>2, StageFacts
<1>8. NewId(s) = n
  BY <1>7 DEF NewId
<1>9. DOMAIN GlobalTaskMap = Stages
  BY DEF TypeInv, IndexInv, MapContiguous
<1>10. MapGrows(s, n, e)
  <2>1. GlobalTaskMap'[s] = Put(GlobalTaskMap[s], n, e)
    BY <1>1, <1>2, <1>8, <1>9
  <2>2. (0 .. n - 1) \cup {n} = 0 .. n /\ n \notin 0 .. n - 1
    BY <1>7
  <2>3. \A r \in Stages : r # s => GlobalTaskMap'[r] = GlobalTaskMap[r]
    BY <1>1, <1>9
  <2> QED
    BY <1>7, <2>1, <2>2, <2>3 DEF MapGrows, Put
<1> QED
  BY <1>1, <1>2, <1>3, <1>5, <1>6, <1>7, <1>8, <1>10

(* Stage s, of n tasks, loses the last one, and no other stage changes.    *)
MapShrinks(s, n) ==
  /\ DOMAIN GlobalTaskMap[s] = 0 .. n - 1 /\ DOMAIN GlobalTaskMap'[s] = 0 .. n - 2
  /\ \A t \in 0 .. n - 2 : GlobalTaskMap'[s][t] = GlobalTaskMap[s][t]
  /\ \A r \in Stages : r # s => GlobalTaskMap'[r] = GlobalTaskMap[r]

(* Effect of ScaleDownMap: the last task leaves.                           *)
LEMMA ScaleDownMapOp ==
  ASSUME TypeInv, NEW s \in Stages, ScaleDownMap(s)
  PROVE  \E n \in Nat \ {0, 1} :
           /\ MapShrinks(s, n) /\ scaler.pc = "tick" /\ Victim(s) = n - 1
           /\ scaler' = [pc |-> "waiting", stage |-> s, op |-> "down",
                         pid |-> GlobalTaskMap[s][n - 1].PID]
<1>1. PICK n \in Nat \ {0} : /\ DOMAIN GlobalTaskMap[s] = 0 .. n - 1 /\ MaxId(s) = n - 1
                             /\ Count(s) = n
  BY StageFacts
<1>2. n # 1 /\ scaler.pc = "tick" /\ Victim(s) = n - 1
  BY <1>1 DEF ScaleDownMap, ScalesDown, Victim
<1>3. /\ GlobalTaskMap' = [GlobalTaskMap EXCEPT ![s] =
            Restrict(GlobalTaskMap[s], DOMAIN GlobalTaskMap[s] \ {Victim(s)})]
      /\ scaler' = [pc |-> "waiting", stage |-> s, op |-> "down",
                    pid |-> GlobalTaskMap[s][Victim(s)].PID]
  BY DEF ScaleDownMap
<1>4. DOMAIN GlobalTaskMap = Stages
  BY DEF TypeInv, IndexInv, MapContiguous
<1>5. (0 .. n - 1) \ {n - 1} = 0 .. n - 2
  BY <1>1
<1>6. GlobalTaskMap'[s] = Restrict(GlobalTaskMap[s], 0 .. n - 2)
  BY <1>1, <1>2, <1>3, <1>4, <1>5
<1>7. \A r \in Stages : r # s => GlobalTaskMap'[r] = GlobalTaskMap[r]
  BY <1>3, <1>4
<1> QED
  BY <1>1, <1>2, <1>3, <1>6, <1>7 DEF MapShrinks, Restrict

(* The map has the same tasks on the same workers.                         *)
SameMap ==
  \A s \in Stages :
    /\ DOMAIN GlobalTaskMap'[s] = DOMAIN GlobalTaskMap[s]
    /\ \A t \in DOMAIN GlobalTaskMap[s] : GlobalTaskMap'[s][t].vm = GlobalTaskMap[s][t].vm

(* Effect of RestartMap: at most the PID of an entry changes.              *)
LEMMA RestartMapOp ==
  ASSUME TypeInv, NEW r \in restarts, RestartMap(r)
  PROVE  /\ SameMap /\ UNCHANGED <<task, scaler, ups, TotalTasks>> /\ r.pid # 0
         /\ \A s \in Stages : \A t \in DOMAIN GlobalTaskMap[s] : InfoFits(GlobalTaskMap'[s][t], s)
<1>1. UNCHANGED <<task, scaler, ups, TotalTasks>> /\ r.pid # 0
  BY DEF RestartMap, counts
<1>2. RestartFits(r) /\ MapTyped /\ Len(task) \in Nat
  BY DEF TypeInv, RestartsTyped, TasksTyped
<1>3. DOMAIN GlobalTaskMap = Stages
  BY DEF TypeInv, IndexInv, MapContiguous
<1>4. CASE GlobalTaskMap' = GlobalTaskMap
  BY <1>1, <1>2, <1>4 DEF SameMap, MapTyped
<1>5. CASE r.id \in DOMAIN GlobalTaskMap[r.stage]
  <2> DEFINE e == [GlobalTaskMap[r.stage][r.id] EXCEPT !.PID = r.pid]
  <2>1. r.stage \in Stages /\ r.pid \in Nat /\ r.pid <= Len(task)
    BY <1>2, ConstTypes DEF RestartFits, RestartRec
  <2>2. InfoFits(GlobalTaskMap[r.stage][r.id], r.stage)
    BY <1>2, <1>5, <2>1 DEF MapTyped
  <2>3. r.pid \in Procs
    <3>1. Len(task) <= MaxProcs
      BY ConstTypes DEF TypeInv, TasksTyped
    <3> QED
      BY <1>1, <1>2, <2>1, <3>1, ConstTypes DEF Procs
  <2>4. /\ e \in InfoRec /\ e.PID = r.pid /\ e.vm = GlobalTaskMap[r.stage][r.id].vm
        /\ e.log = GlobalTaskMap[r.stage][r.id].log
        /\ e.down = GlobalTaskMap[r.stage][r.id].down
    BY <2>2, <2>3 DEF InfoFits, InfoRec
  <2>5. GlobalTaskMap' = [GlobalTaskMap EXCEPT ![r.stage] =
                            [GlobalTaskMap[r.stage] EXCEPT ![r.id] = e]]
    BY <1>5 DEF RestartMap
  <2> HIDE DEF e
  <2>6. InfoFits(e, r.stage)
    BY <2>1, <2>2, <2>4 DEF InfoFits
  <2>7. /\ \A s \in Stages : s # r.stage => GlobalTaskMap'[s] = GlobalTaskMap[s]
        /\ DOMAIN GlobalTaskMap'[r.stage] = DOMAIN GlobalTaskMap[r.stage]
        /\ GlobalTaskMap'[r.stage][r.id] = e
        /\ \A t \in DOMAIN GlobalTaskMap[r.stage] :
             t # r.id => GlobalTaskMap'[r.stage][t] = GlobalTaskMap[r.stage][t]
    BY <1>3, <1>5, <2>1, <2>5
  <2>8. SameMap
    BY <2>4, <2>7 DEF SameMap
  <2>9. \A s \in Stages : \A t \in DOMAIN GlobalTaskMap[s] : InfoFits(GlobalTaskMap'[s][t], s)
    BY <1>2, <2>6, <2>7 DEF MapTyped
  <2> QED
    BY <1>1, <2>8, <2>9
<1> QED
  BY <1>4, <1>5 DEF RestartMap

(* Every step keeps MapTyped and MapBounded.                               *)
LEMMA NextMap ==
  ASSUME TypeInv, [Next]_vars
  PROVE  MapTyped' /\ MapBounded'
<1>g. TasksGrow /\ MapTyped /\ MapBounded /\ ups \in Nat
  BY NextTasks DEF TypeInv, TasksTyped
<1>0. \A e, s : InfoFits(e, s) => InfoFits(e, s)'
  <2> TAKE e, s
  <2>1. e \in InfoRec => e.PID \in Nat /\ e.log \in Nat
    BY ConstTypes DEF InfoRec, Procs
  <2> QED
    BY <1>g, <2>1 DEF InfoFits, TasksGrow
<1>n. \A s \in Stages : \A t \in DOMAIN GlobalTaskMap[s] : t \in Nat
  BY StageFacts
<1>1. CASE UNCHANGED <<GlobalTaskMap, scaler, ups, TotalTasks, downs>>
  BY <1>0, <1>1, <1>g DEF MapTyped, MapBounded
<1>2. CASE Adds
  <2>1. PICK s \in Stages : ScaleUpStart(s)
    BY <1>2 DEF Adds
  <2>2. UNCHANGED GlobalTaskMap
    BY <2>1 DEF ScaleUpStart, leaderVars
  <2>3. ups' = ups + 1
    BY <2>1, ScaleUpStartOp
  <2> QED
    BY <1>0, <1>g, <1>n, <2>2, <2>3, ConstTypes DEF MapTyped, MapBounded
<1>3. CASE ScaleUpMap
  <2> DEFINE s == scaler.stage
  <2>1. PICK n \in Nat \ {0}, e \in InfoRec :
          /\ s \in Stages /\ n < NumTasks + ups /\ InfoFits(e, s) /\ MapGrows(s, n, e)
          /\ scaler' = [scaler EXCEPT !.pc = "waiting"]
    BY <1>3, ScaleUpMapOp
  <2>2. scaler'.pc = "waiting" /\ ups' = ups
    BY <1>3, <2>1 DEF ScaleUpMap, counts, TypeInv, ScalerTyped
  <2>3. \A r \in Stages : \A t \in DOMAIN GlobalTaskMap'[r] :
          \/ t \in DOMAIN GlobalTaskMap[r] /\ GlobalTaskMap'[r][t] = GlobalTaskMap[r][t]
          \/ r = s /\ t = n /\ GlobalTaskMap'[r][t] = e
    BY <2>1 DEF MapGrows
  <2>4. MapTyped'
    BY <1>0, <1>g, <2>1, <2>3 DEF MapTyped
  <2>5. MapBounded'
    BY <1>g, <2>1, <2>2, <2>3 DEF MapBounded
  <2> QED
    BY <2>4, <2>5
<1>4. CASE Removes
  <2>1. PICK s \in Stages : ScaleDownMap(s)
    BY <1>4 DEF Removes
  <2>2. PICK n \in Nat \ {0, 1} : MapShrinks(s, n) /\ scaler'.pc = "waiting"
    BY <2>1, ScaleDownMapOp
  <2>3. ups' = ups
    BY <2>1 DEF ScaleDownMap
  <2>4. \A r \in Stages : \A t \in DOMAIN GlobalTaskMap'[r] :
          t \in DOMAIN GlobalTaskMap[r] /\ GlobalTaskMap'[r][t] = GlobalTaskMap[r][t]
    BY <2>2 DEF MapShrinks
  <2>5. MapTyped'
    BY <1>0, <1>g, <2>4 DEF MapTyped
  <2>6. MapBounded'
    BY <1>g, <2>2, <2>3, <2>4 DEF MapBounded
  <2> QED
    BY <2>5, <2>6
<1>5. CASE BroadcastUpstream \/ ScalerStops
  <2>1. UNCHANGED <<GlobalTaskMap, ups>>
    BY <1>5 DEF BroadcastUpstream, ScalerStops, leaderVars, counts
  <2>2. scaler'.pc # "map"
    BY <1>5 DEF BroadcastUpstream, ScalerStops, Tick, TypeInv, ScalerTyped, ScalerRec
  <2> QED
    BY <1>0, <1>g, <2>1, <2>2 DEF MapTyped, MapBounded
<1>6. CASE \E r \in restarts : RestartMap(r)
  <2>1. /\ SameMap /\ UNCHANGED <<task, scaler, ups>>
        /\ \A s \in Stages : \A t \in DOMAIN GlobalTaskMap[s] : InfoFits(GlobalTaskMap'[s][t], s)
    BY <1>6, RestartMapOp
  <2> QED
    BY <1>0, <1>g, <2>1 DEF MapTyped, MapBounded, SameMap
<1> QED
  BY <1>1, <1>2, <1>3, <1>4, <1>5, <1>6, MapSteps

(* Every step keeps ScalerTyped.                                           *)
LEMMA NextScaler ==
  ASSUME TypeInv, [Next]_vars
  PROVE  ScalerTyped'
<1>g. TasksGrow /\ ScalerTyped
  BY NextTasks DEF TypeInv
<1>p. Len(task') <= MaxProcs /\ MaxProcs \in Nat
  BY NextTasks, ConstTypes DEF TasksTyped
<1>s. Stages \subseteq 0 .. NumStages
  BY ConstTypes DEF Stages
<1>t. Tick => ScalerTyped'
  BY <1>g, ConstTypes DEF Tick, ScalerTyped, ScalerRec, TasksGrow
<1>1. CASE UNCHANGED scaler
  BY <1>1, <1>g DEF ScalerTyped, ScalerRec, TasksGrow
<1>2. CASE Adds
  <2>1. PICK s \in Stages : ScaleUpStart(s)
    BY <1>2 DEF Adds
  <2>2. /\ Tick \/ scaler' = [pc |-> "map", stage |-> s, op |-> "up", pid |-> Len(task) + 1]
        /\ Starts(s, NewId(s), LeastLoadedWorker, Len(task) + 1, Downstreams(s))
    BY <2>1, ScaleUpStartOp
  <2>3. Len(task') = Len(task) + 1
    BY <2>2 DEF Starts
  <2>4. s \in 0 .. NumStages
    BY <1>s
  <2> QED
    BY <1>g, <1>p, <1>t, <2>2, <2>3, <2>4 DEF ScalerTyped, ScalerRec, TasksGrow
<1>3. CASE ScaleUpMap
  BY <1>3, <1>g DEF ScaleUpMap, ScalerTyped, ScalerRec, TasksGrow
<1>4. CASE Removes
  <2>1. PICK s \in Stages : ScaleDownMap(s)
    BY <1>4 DEF Removes
  <2>2. PICK n \in Nat \ {0, 1} :
          /\ MapShrinks(s, n)
          /\ scaler' = [pc |-> "waiting", stage |-> s, op |-> "down",
                        pid |-> GlobalTaskMap[s][n - 1].PID]
    BY <2>1, ScaleDownMapOp
  <2>3. InfoFits(GlobalTaskMap[s][n - 1], s)
    BY <2>2 DEF TypeInv, MapTyped, MapShrinks
  <2>4. PICK p : p = GlobalTaskMap[s][n - 1].PID
    OBVIOUS
  <2>5. p \in Nat /\ p # 0 /\ p <= Len(task)
    BY <2>3, <2>4, InfoPid
  <2>6. s \in 0 .. NumStages
    BY <1>s
  <2> QED
    BY SMTT(30), <1>g, <1>p, <2>2, <2>4, <2>5, <2>6 DEF ScalerTyped, ScalerRec, TasksGrow
<1>5. CASE BroadcastUpstream
  BY <1>5, <1>t DEF BroadcastUpstream
<1>6. CASE ScalerStops
  BY <1>6, <1>g DEF ScalerStops, ScalerTyped, ScalerRec, TasksGrow
<1>7. CASE \E r \in restarts : RestartMap(r)
  BY <1>1, <1>7, RestartMapOp
<1> QED
  BY <1>1, <1>2, <1>3, <1>4, <1>5, <1>6, <1>7, MapSteps

(* The list of the workers of a stage whose entries are f.                 *)
LEMMA ListOf ==
  ASSUME NEW f, NEW n \in Nat \ {0}, DOMAIN f = 0 .. n - 1, n <= NumTasks + MaxUps,
         \A t \in 0 .. n - 1 : f[t] \in InfoRec
  PROVE  WorkerList(Workers(f)) /\ Len(Workers(f)) = n
<1>1. Workers(f) = [k \in 1 .. n |-> f[k - 1].vm]
  BY WorkersInOrder
<1>2. \A k \in 1 .. n : f[k - 1].vm \in VMs
  BY DEF InfoRec
<1>3. Workers(f) \in Seq(VMs) /\ Len(Workers(f)) = n
  BY <1>1, <1>2
<1> QED
  BY <1>3 DEF WorkerList

(* The list that a step leaves for stage s.                                *)
LEMMA NextList ==
  ASSUME TypeInv, [Next]_vars, NEW s \in Stages
  PROVE  WorkerList(Workers(GlobalTaskMap'[s])) /\ Len(Workers(GlobalTaskMap'[s])) > 0
<1>1. MapTyped' /\ MapBounded' /\ IndexInv'
  BY NextMap, NextIndex DEF TypeInv
<1>2. PICK n \in Nat \ {0} : DOMAIN GlobalTaskMap'[s] = 0 .. n - 1
  BY <1>1 DEF IndexInv, MapContiguous, Contiguous
<1>3. \A t \in 0 .. n - 1 : GlobalTaskMap'[s][t] \in InfoRec
  BY <1>1, <1>2 DEF MapTyped, InfoFits
<1>4. n - 1 \in DOMAIN GlobalTaskMap'[s] /\ ups' \in 0 .. MaxUps
  BY <1>2, NextTasks DEF TasksTyped
<1>5. PICK u \in 0 .. MaxUps : n - 1 < NumTasks + u
  BY <1>1, <1>4 DEF MapBounded
<1>6. n <= NumTasks + MaxUps
  BY <1>5, ConstTypes
<1> QED
  BY <1>2, <1>3, <1>6, ListOf

(* The calls of a broadcast.                                               *)
LEMMA BroadcastCalls ==
  ASSUME TypeInv, NEW k, NEW s \in Int, NEW a, NEW c \in Broadcast(k, s, a)
  PROVE  /\ s \in Stages /\ c.kind = k /\ c.stage = s /\ c.arg = a /\ c.vm \in VMs
         /\ c.id \in Ids /\ c.id \in DOMAIN GlobalTaskMap[s]
         /\ c.vm = GlobalTaskMap[s][c.id].vm
         /\ \A A : a \in A => c \in CallOf(k, A)
<1>1. s \in Stages
  BY DEF Broadcast
<1>2. PICK t \in DOMAIN GlobalTaskMap[s] : c = Call(k, s, t, a)
  BY <1>1 DEF Broadcast
<1>3. c.kind = k /\ c.stage = s /\ c.arg = a /\ c.id = t /\ c.vm = GlobalTaskMap[s][t].vm
  BY <1>2 DEF Call
<1>4. GlobalTaskMap[s][t].vm \in VMs
  BY <1>1 DEF TypeInv, MapTyped, InfoFits, InfoRec
<1>5. t \in Ids
  <2>1. PICK n \in Nat \ {0} : DOMAIN GlobalTaskMap[s] = 0 .. n - 1 /\ n <= NumTasks + ups
    BY <1>1, StageFacts
  <2>2. ups \in 0 .. MaxUps
    BY DEF TypeInv, TasksTyped
  <2> QED
    BY SMTT(30), <1>2, <2>1, <2>2, ConstTypes DEF Ids
<1>6. ASSUME NEW A, a \in A PROVE c \in CallOf(k, A)
  <2>1. ups + downs \in Nat
    BY ConstTypes DEF TypeInv, TasksTyped, CountsTyped
  <2> QED
    BY <1>1, <1>2, <1>4, <1>5, <1>6, <2>1, <1>3 DEF Call, CallOf
<1> QED
  BY <1>1, <1>2, <1>3, <1>4, <1>5, <1>6

(* Every step keeps CallsTyped.                                            *)
LEMMA NextCalls ==
  ASSUME TypeInv, [Next]_vars
  PROVE  CallsTyped'
<1>g. TasksGrow /\ CallsTyped
  BY NextTasks DEF TypeInv
<1>0. \A c : CallFits(c) => CallFits(c)'
  BY <1>g DEF CallFits, TasksGrow
<1>1. CASE calls' \subseteq calls
  BY <1>0, <1>1, <1>g DEF CallsTyped
<1>2. ASSUME NEW s \in Stages, BroadcastDownstream(s) PROVE CallsTyped'
  <2>1. PICK l : l = Workers(GlobalTaskMap'[s])
    OBVIOUS
  <2>2. WorkerList(l) /\ Len(l) > 0
    BY <2>1, NextList
  <2>3. calls' = calls \cup Broadcast("UpdateDownstream", s - 1, l)
    BY <1>2, <2>1 DEF BroadcastDownstream
  <2>4. s - 1 \in Int
    BY ConstTypes
  <2>5. \A c \in Broadcast("UpdateDownstream", s - 1, l) : CallFits(c)'
    <3> TAKE c \in Broadcast("UpdateDownstream", s - 1, l)
    <3>1. /\ s - 1 \in Stages /\ c.kind = "UpdateDownstream" /\ c.stage = s - 1 /\ c.arg = l
          /\ c.vm \in VMs /\ c.id \in Ids /\ c \in CallOf("UpdateDownstream", Seq(VMs))
      BY <2>2, <2>4, BroadcastCalls DEF WorkerList
    <3> QED
      BY <2>2, <3>1 DEF CallFits, CallRec
  <2> QED
    BY <1>0, <1>g, <2>3, <2>5 DEF CallsTyped
<1>3. CASE ScaleUpMap
  <2>1. scaler.stage \in Stages /\ BroadcastDownstream(scaler.stage)
    BY <1>3 DEF ScaleUpMap, TypeInv, ScalerTyped
  <2> QED
    BY <1>2, <2>1
<1>4. CASE Removes
  BY <1>2, <1>4 DEF Removes, ScaleDownMap
<1>5. CASE BroadcastUpstream
  <2> DEFINE s == scaler.stage
             i == scaler.pid
             B == Broadcast("UpdateUpstream", s + 1, <<Count(s)>>)
  <2>1. s \in Stages /\ i \in Nat /\ i # 0 /\ i <= Len(task) /\ Len(task) \in Nat
    BY <1>5, ConstTypes DEF BroadcastUpstream, TypeInv, ScalerTyped, ScalerRec, TasksTyped
  <2>2. \A c \in calls' : c \in calls \/ c \in B \/ c \in Retire(i)
    BY <1>5 DEF BroadcastUpstream
  <2>3. Count(s) \in Nat /\ s + 1 \in Int
    <3>1. Count(s) \in Nat
      BY <2>1, StageFacts
    <3>2. s \in Nat
      BY <2>1, ConstTypes
    <3> QED
      BY <3>1, <3>2
  <2>4. ASSUME NEW c \in B PROVE CallFits(c)
    <3>1. PICK n \in Nat : n = Count(s)
      BY <2>3
    <3>2. PICK a : a = <<n>>
      OBVIOUS
    <3>3. a \in Seq(Nat) /\ a[1] \in Nat
      BY <3>2
    <3>4. PICK r \in Int : r = s + 1
      BY <2>3
    <3>5. c \in Broadcast("UpdateUpstream", r, a)
      BY <3>1, <3>2, <3>4
    <3>6. /\ r \in Stages /\ c.kind = "UpdateUpstream" /\ c.stage = r
          /\ c.arg = a /\ c.vm \in VMs /\ c.id \in Ids
          /\ c \in CallOf("UpdateUpstream", Seq(Nat))
      BY <3>3, <3>5, BroadcastCalls
    <3> QED
      BY <3>3, <3>6 DEF CallFits, CallRec
  <2>5. i \in 1 .. Len(task) /\ TasksTyped
    BY <2>1 DEF TypeInv
  <2>6. task[i].id \in Ids /\ task[i].vm \in VMs /\ task[i].log \in 1 .. Len(task)
    BY <2>5, TaskFields
  <2>7. GlobalTaskMap[s][0].vm \in VMs
    <3>1. 0 \in DOMAIN GlobalTaskMap[s]
      BY <2>1, StageFacts
    <3>2. InfoFits(GlobalTaskMap[s][0], s)
      BY <2>1, <3>1 DEF TypeInv, MapTyped
    <3> QED
      BY <3>2 DEF InfoFits, InfoRec
  <2>8. <<i>> \in Seq(Procs) /\ <<task[i].log>> \in Seq(Procs) /\ ups + downs \in Nat
    <3>1. i \in Procs /\ task[i].log \in Procs
      BY <2>5, <2>6, PidRange
    <3>2. ups + downs \in Nat
      BY ConstTypes DEF TypeInv, TasksTyped, CountsTyped
    <3> QED
      BY <3>1, <3>2
  <2>9. ASSUME NEW c \in Retire(i) PROVE CallFits(c)
    <3>1. CASE c = [kind |-> "KillTask", stage |-> s, id |-> task[i].id, vm |-> task[i].vm,
                    arg |-> <<i>>, scaling |-> ups + downs]
      <4>1. c \in CallOf("KillTask", Seq(Procs))
        BY <2>1, <2>6, <2>8, <3>1 DEF CallOf
      <4> QED
        BY <2>1, <2>5, <2>6, <3>1, <4>1 DEF CallFits, CallRec
    <3>2. CASE c = [kind |-> "ProcessOrphanLog", stage |-> s, id |-> 0,
                    vm |-> GlobalTaskMap[s][0].vm, arg |-> <<task[i].log>>,
                    scaling |-> ups + downs]
      <4>1. c \in CallOf("ProcessOrphanLog", Seq(Procs))
        BY <2>1, <2>7, <2>8, <3>2, ConstTypes DEF CallOf
      <4> QED
        BY <2>1, <2>6, <2>7, <3>2, <4>1, ConstTypes DEF CallFits, CallRec
    <3> QED
      BY <3>1, <3>2 DEF Retire
  <2> HIDE DEF B, i
  <2> QED
    BY <1>0, <1>g, <2>2, <2>4, <2>9 DEF CallsTyped
<1> QED
  BY <1>1, <1>3, <1>4, <1>5, Frames DEF LeaderFrame

(* Every step keeps RestartsTyped.                                         *)
LEMMA NextRestarts ==
  ASSUME TypeInv, [Next]_vars
  PROVE  RestartsTyped'
<1>g. TasksGrow /\ RestartsTyped
  BY NextTasks DEF TypeInv
<1>i. \A e, s : InfoFits(e, s) => InfoFits(e, s)'
  <2> TAKE e, s
  <2>1. e \in InfoRec => e.PID \in Nat /\ e.log \in Nat
    BY ConstTypes DEF InfoRec, Procs
  <2> QED
    BY <1>g, <2>1 DEF InfoFits, TasksGrow
<1>0. \A r : RestartFits(r) => RestartFits(r)'
  <2> TAKE r
  <2>1. r \in RestartRec => r.pid \in Nat
    BY ConstTypes DEF RestartRec
  <2> QED
    BY <1>g, <1>i, <2>1 DEF RestartFits, TasksGrow
<1>1. CASE restarts' \subseteq restarts
  BY <1>0, <1>1, <1>g DEF RestartsTyped
<1>2. ASSUME NEW r \in reports, TaskFinished(r) PROVE RestartsTyped'
  <2>1. CASE restarts' = restarts
    BY <1>1, <2>1
  <2>2. CASE restarts' # restarts
    <3>1. PICK e : e = GlobalTaskMap[r.stage][r.id]
      OBVIOUS
    <3>2. PICK q : q = [stage |-> r.stage, id |-> r.id, pid |-> 0, info |-> e]
      OBVIOUS
    <3>3. r.id \in DOMAIN GlobalTaskMap[r.stage] /\ restarts' = restarts \cup {q}
      BY <1>2, <2>2, <3>1, <3>2 DEF TaskFinished
    <3>4. r.stage \in Stages /\ r.id \in Ids
      BY DEF TypeInv, ReportsTyped, ReportRec
    <3>5. InfoFits(e, r.stage)
      BY <3>1, <3>3, <3>4 DEF TypeInv, MapTyped
    <3>6. RestartFits(q)
      BY <1>g, <3>2, <3>4, <3>5, ConstTypes DEF RestartFits, RestartRec, InfoFits, TasksGrow
    <3> QED
      BY <1>0, <1>g, <3>3, <3>6 DEF RestartsTyped
  <2> QED
    BY <2>1, <2>2
<1>3. CASE Restarts
  <2>1. PICK r \in restarts : Restart(r)
    BY <1>3 DEF Restarts
  <2>2. PICK q : q = [r EXCEPT !.pid = Len(task) + 1]
    OBVIOUS
  <2>3. /\ restarts' = (restarts \ {r}) \cup {q}
        /\ Starts(r.stage, r.id, r.info.vm, r.info.log, r.info.down)
    BY <2>1, <2>2, RestartOp
  <2>4. /\ Len(task') = Len(task) + 1 /\ Len(task) \in Nat
        /\ Len(task) + 1 \in 0 .. MaxProcs
    <3>1. Len(task') <= MaxProcs
      BY NextTasks, ConstTypes DEF TasksTyped
    <3> QED
      BY <1>g, <2>3, <3>1, ConstTypes DEF Starts, TasksGrow
  <2>5. RestartFits(r)
    BY <1>g DEF RestartsTyped
  <2>6. /\ q \in RestartRec /\ q.pid = Len(task) + 1 /\ q.info = r.info
        /\ q.stage = r.stage
    BY <2>2, <2>4, <2>5 DEF RestartFits, RestartRec
  <2>7. RestartFits(q)'
    BY <1>i, <2>4, <2>5, <2>6 DEF RestartFits
  <2> QED
    BY <1>0, <1>g, <2>3, <2>7 DEF RestartsTyped
<1>4. CASE \E r \in restarts : RestartMap(r)
  BY <1>1, <1>4 DEF RestartMap
<1> QED
  BY <1>1, <1>2, <1>3, <1>4, Frames DEF LeaderFrame

(* The pushes of a goroutine that ends a stream.                           *)
LEMMA EOSFacts ==
  ASSUME NEW o \in {Source} \cup Procs, NEW s \in Stages, NEW l, WorkerList(l),
         NEW m \in EOSPushes(o, s, l)
  PROVE  /\ m \in PushRec /\ m.org = o /\ m.kind = "EOS" /\ m.stage = s /\ m.pc = "call"
         /\ m.vm \in VMs /\ m.late = 0
         /\ \E n \in 1 .. Len(l) : m.vm = l[n] /\ m.dest = n - 1
<1>1. PICK n \in 1 .. Len(l) :
        m = [org |-> o, kind |-> "EOS", stage |-> s, id |-> EOSId, val |-> 0,
             pc |-> "call", vm |-> l[n], dest |-> n - 1, late |-> 0]
  BY DEF EOSPushes
<1>2. /\ l[n] \in VMs /\ n - 1 \in Ids /\ 0 \in 0 .. NumLines /\ l[n] \in 0 .. NumVMs
      /\ 0 \in 0 .. MaxLosses
  <2>1. l \in Seq(VMs) /\ Len(l) <= NumTasks + MaxUps
    BY DEF WorkerList
  <2>2. l[n] \in VMs
    BY <2>1
  <2>3. n - 1 \in Ids
    BY <2>1, ConstTypes DEF Ids
  <2> QED
    BY <2>2, <2>3, ConstTypes DEF VMs
<1> QED
  BY <1>1, <1>2, ConstTypes DEF PushRec

(* The push of a tuple.                                                    *)
LEMMA DataFacts ==
  ASSUME NEW o \in {Source} \cup Procs, NEW s \in Stages, NEW d \in MsgIds, NEW v \in Lines
  PROVE  LET m == DataPush(o, s, d, v) IN
         /\ m \in PushRec /\ m.org = o /\ m.kind = "data" /\ m.stage = s /\ m.id = d
         /\ m.val = v /\ m.pc = "route" /\ m.late = 0
<1>1. v \in 0 .. NumLines /\ 0 \in 0 .. NumVMs /\ 0 \in 0 .. MaxLosses
  BY ConstTypes DEF Lines
<1> QED
  BY <1>1, ConstTypes DEF DataPush, PushRec

(* The list by which the push of a tuple is routed, and the route.         *)
ListOfPush(m) == IF m.org = Source THEN SortedWorkers(1) ELSE task[m.org].DownstreamList

(* Every route leads to a worker of the list.                              *)
LEMMA RouteFacts ==
  ASSUME TypeInv, NEW m \in pushes, m.kind = "data"
  PROVE  \E n \in 0 .. Len(ListOfPush(m)) - 1 :
           /\ WorkerList(ListOfPush(m)) /\ Route(m)[1] = ListOfPush(m)[n + 1]
           /\ Route(m)[2] = n /\ n \in Ids /\ Route(m)[1] \in VMs
<1>1. PICK l : l = ListOfPush(m)
  OBVIOUS
<1>2. m.org \in 0 .. Len(task) /\ m.id \in MsgIds /\ m.val \in Lines
  BY PushFacts
<1>3. WorkerList(l) /\ Len(l) > 0
  <2>1. CASE m.org = Source
    BY <1>1, <2>1, ConstTypes, StageFacts DEF ListOfPush
  <2>2. CASE m.org # Source
    <3>1. m.org \in 1 .. Len(task) /\ TasksTyped
      BY <1>2, <2>2 DEF Source, TypeInv
    <3>2. m.stage = task[m.org].stage + 1 /\ m.stage \in Stages
      BY <2>2, PushFacts DEF TypeInv, PushesTyped, PushFits
    <3>3. task[m.org].stage \in Stages /\ ListFor(task[m.org].stage, task[m.org].DownstreamList)
      BY <3>1, TaskFields
    <3>4. task[m.org].stage < NumStages
      BY <3>2, <3>3, ConstTypes DEF Stages
    <3> QED
      BY <1>1, <2>2, <3>3, <3>4 DEF ListFor, ListOfPush
  <2> QED
    BY <2>1, <2>2
<1>4. PICK x : x = (IF m.org = Source THEN m.id[3] ELSE KeyHash[m.val])
  OBVIOUS
<1>5. x \in Nat
  BY <1>2, <1>4, AutoscaleAssumption DEF MsgIds
<1>6. Len(l) \in Nat \ {0} /\ l \in Seq(VMs) /\ Len(l) <= NumTasks + MaxUps
  BY <1>3 DEF WorkerList
<1>7. PICK n : n = x % Len(l)
  OBVIOUS
<1>8. n \in 0 .. Len(l) - 1
  BY <1>5, <1>6, <1>7
<1>9. Route(m) = <<l[n + 1], n>>
  BY <1>1, <1>4, <1>7 DEF Route, ListOfPush
<1>10. n \in Ids /\ l[n + 1] \in VMs
  BY <1>6, <1>8, ConstTypes DEF Ids
<1> QED
  BY <1>1, <1>3, <1>8, <1>9, <1>10

(* Effect of the steps that put a push back: it is routed, or again to be. *)
LEMMA PushAgainOp ==
  ASSUME TypeInv, NEW m \in pushes, m.pc = "call", m.kind = "data"
  PROVE  /\ Again(m) \in PushRec /\ Again(m).pc = "route" /\ Again(m).kind = "data"
         /\ Again(m).org = m.org /\ Again(m).stage = m.stage /\ Again(m).id = m.id
         /\ Again(m).val = m.val /\ Again(m).late = m.late
BY PushFacts DEF Again, PushRec

(* Effect of PushGivenUp: the push is to be routed again, and the call     *)
(* that was given up is on its way as before.                              *)
LEMMA PushGivenUpOp ==
  ASSUME TypeInv, NEW m \in pushes, PushGivenUp(m)
  PROVE  \E q \in PushRec :
           /\ pushes' = (pushes \ {m}) \cup {Again(m), q}
           /\ m.pc = "call" /\ m.late = 0 /\ q.late = unanswered + 1 /\ q.pc = "call"
           /\ q.kind = m.kind /\ q.org = m.org /\ q.stage = m.stage /\ q.id = m.id
           /\ q.val = m.val /\ q.vm = m.vm /\ q.dest = m.dest
           /\ unanswered' = unanswered + 1 /\ UNCHANGED task
<1>1. m.pc = "call" /\ m.late = 0 /\ m \in PushRec
  BY PushFacts DEF PushGivenUp
<1>2. unanswered + 1 \in 0 .. MaxLosses
  BY ConstTypes DEF PushGivenUp, MayLose, TypeInv, CountsTyped
<1>3. PICK q : q = [m EXCEPT !.late = unanswered + 1]
  OBVIOUS
<1>4. /\ q \in PushRec /\ q.late = unanswered + 1 /\ q.pc = m.pc /\ q.kind = m.kind
      /\ q.org = m.org /\ q.stage = m.stage /\ q.id = m.id /\ q.val = m.val
      /\ q.vm = m.vm /\ q.dest = m.dest
  BY <1>1, <1>2, <1>3 DEF PushRec
<1>5. /\ pushes' = (pushes \ {m}) \cup {Again(m), q} /\ unanswered' = unanswered + 1
      /\ UNCHANGED task
  BY <1>3 DEF PushGivenUp
<1> QED
  BY <1>1, <1>4, <1>5

(* Effect of SendTuple.                                                    *)
LEMMA SendTupleOp ==
  ASSUME TypeInv, NEW m \in pushes, SendTuple(m)
  PROVE  \E q \in PushRec, n \in 0 .. Len(ListOfPush(m)) - 1 :
           /\ pushes' = (pushes \ {m}) \cup {q} /\ m.kind = "data" /\ m.pc = "route"
           /\ q.pc = "call" /\ q.kind = "data" /\ q.org = m.org /\ q.stage = m.stage
           /\ q.id = m.id /\ q.val = m.val /\ q.vm \in VMs
           /\ q.vm = ListOfPush(m)[n + 1] /\ q.dest = n /\ n = Route(m)[2]
           /\ q.late = 0 /\ m.late = 0
<1>1. m.pc = "route" /\ PushFits(m)
  BY DEF SendTuple, TypeInv, PushesTyped
<1>2. m.kind = "data" /\ m \in PushRec
  BY <1>1 DEF PushFits, PushRec
<1>l. m.late = 0
  <2>1. m.late \in Nat
    BY PushFacts
  <2> QED
    BY <1>1, <2>1 DEF PushFits
<1>3. PICK n \in 0 .. Len(ListOfPush(m)) - 1 :
        /\ Route(m)[1] = ListOfPush(m)[n + 1] /\ Route(m)[2] = n /\ n \in Ids
        /\ Route(m)[1] \in VMs
  BY <1>2, RouteFacts
<1>4. PICK v : v = Route(m)[1]
  OBVIOUS
<1>5. PICK q : q = [m EXCEPT !.pc = "call", !.vm = v, !.dest = n]
  OBVIOUS
<1>6. pushes' = (pushes \ {m}) \cup {q}
  BY <1>3, <1>4, <1>5 DEF SendTuple
<1>7. v \in VMs /\ v \in 0 .. NumVMs
  BY <1>3, <1>4, ConstTypes DEF VMs
<1>8. /\ q \in PushRec /\ q.pc = "call" /\ q.kind = m.kind /\ q.org = m.org
      /\ q.stage = m.stage /\ q.id = m.id /\ q.val = m.val /\ q.vm = v /\ q.dest = n
      /\ q.late = m.late
  BY <1>2, <1>3, <1>5, <1>7 DEF PushRec
<1> QED
  BY <1>1, <1>2, <1>3, <1>4, <1>6, <1>7, <1>8, <1>l

(* What a push step does to the goroutines: one is answered, put back, or  *)
(* routed.                                                                 *)
LEMMA PushSteps ==
  ASSUME TypeInv, NEW m \in pushes, PushStep(m)
  PROVE  \/ pushes' = pushes \ {m} /\ m.pc = "call"
         \/ /\ pushes' = (pushes \ {m}) \cup {Again(m)} /\ m.pc = "call"
            /\ m.kind = "data" /\ m.late = 0 /\ ~PushTuple(m)
         \/ SendTuple(m)
<1>1. CASE PushEOS(m) \/ PushDuplicate(m) \/ PushTuple(m)
  BY <1>1 DEF PushEOS, PushDuplicate, PushTuple, Fresh, Answer
<1>2. CASE PushNotFound(m) \/ PushWriteFails(m)
  <2>1. m.pc = "call" /\ m.kind = "data" /\ Refuse(m) /\ ~PushTuple(m)
    BY <1>2 DEF PushNotFound, PushWriteFails, Fresh, PushTuple
  <2> QED
    BY <2>1 DEF Refuse
<1> QED
  BY <1>1, <1>2 DEF PushStep

(* Every step keeps PushesTyped.                                           *)
LEMMA NextPushes ==
  ASSUME TypeInv, [Next]_vars
  PROVE  PushesTyped'
<1>g. TasksGrow /\ PushesTyped /\ TasksTyped /\ DOMAIN task = 1 .. Len(task)
  BY NextTasks DEF TypeInv, TasksTyped
<1>0. \A m : PushFits(m) => PushFits(m)'
  <2> SUFFICES ASSUME NEW m, PushFits(m) PROVE PushFits(m)'
    OBVIOUS
  <2>1. m.org \in Nat /\ m.org <= Len(task)
    BY ConstTypes DEF PushFits, PushRec, Procs, Source
  <2>2. m.org <= Len(task')
    BY <1>g, <2>1 DEF TasksGrow
  <2>3. m.org # Source => task'[m.org].stage = task[m.org].stage
    BY <1>g, <2>1 DEF Source, TasksGrow, SameTask
  <2> QED
    BY <2>2, <2>3 DEF PushFits
<1>1. CASE pushes' \subseteq pushes
  BY <1>0, <1>1, <1>g DEF PushesTyped
<1>2. ASSUME NEW m \in pushes, PushStep(m) PROVE PushesTyped'
  <2>1. PushFits(m)
    BY <1>g DEF PushesTyped
  <2>2. CASE pushes' = pushes \ {m}
    BY <1>1, <2>2
  <2>3. CASE /\ pushes' = (pushes \ {m}) \cup {Again(m)} /\ m.pc = "call"
             /\ m.kind = "data" /\ m.late = 0
    <3>1. PICK q : q = Again(m)
      OBVIOUS
    <3>2. /\ q \in PushRec /\ q.pc = "route" /\ q.kind = "data" /\ q.org = m.org
          /\ q.stage = m.stage /\ q.val = m.val /\ q.late = 0
      BY <2>3, <3>1, PushAgainOp
    <3>3. PushFits(q)
      BY <2>1, <2>3, <3>2 DEF PushFits
    <3> QED
      BY <1>0, <1>g, <2>3, <3>1, <3>3 DEF PushesTyped
  <2>4. CASE SendTuple(m)
    <3>1. PICK q \in PushRec :
           /\ pushes' = (pushes \ {m}) \cup {q} /\ m.kind = "data" /\ m.pc = "route"
           /\ q.pc = "call" /\ q.kind = "data" /\ q.org = m.org /\ q.stage = m.stage
           /\ q.id = m.id /\ q.val = m.val /\ q.vm \in VMs /\ q.late = 0
      BY <2>4, SendTupleOp
    <3>2. PushFits(q)
      BY <2>1, <3>1 DEF PushFits
    <3> QED
      BY <1>0, <1>g, <3>1, <3>2 DEF PushesTyped
  <2> QED
    BY <1>2, <2>2, <2>3, <2>4, PushSteps
<1>8. ASSUME NEW m \in pushes, PushGivenUp(m) PROVE PushesTyped'
  <2>1. PushFits(m)
    BY <1>g DEF PushesTyped
  <2>2. PICK q \in PushRec :
           /\ pushes' = (pushes \ {m}) \cup {Again(m), q}
           /\ m.pc = "call" /\ m.late = 0 /\ q.pc = "call"
           /\ q.kind = m.kind /\ q.org = m.org /\ q.stage = m.stage /\ q.id = m.id
           /\ q.val = m.val /\ q.vm = m.vm
    BY <1>8, PushGivenUpOp
  <2>3. PushFits(q)
    BY <2>1, <2>2 DEF PushFits
  <2>4. PushFits(Again(m))
    <3>1. CASE m.kind = "data"
      <4>1. PICK a : a = Again(m)
        OBVIOUS
      <4>2. /\ a \in PushRec /\ a.pc = "route" /\ a.kind = "data" /\ a.org = m.org
            /\ a.stage = m.stage /\ a.val = m.val /\ a.late = 0
        BY <2>2, <3>1, <4>1, PushAgainOp
      <4> QED
        BY <2>1, <3>1, <4>1, <4>2 DEF PushFits
    <3>2. CASE m.kind # "data"
      BY <2>1, <3>2 DEF Again
    <3> QED
      BY <3>1, <3>2
  <2> QED
    BY <1>0, <1>g, <2>2, <2>3, <2>4 DEF PushesTyped
<1>3. CASE SourceLine
  <2>1. PICK n : n = source.seq + 1
    OBVIOUS
  <2>2. n \in Lines /\ n \in Nat
    BY <1>3, <2>1, ConstTypes DEF SourceLine, TypeInv, SourceTyped, SourceRec, Lines
  <2>3. <<0, 0, n>> \in MsgIds
    BY <2>2, ConstTypes DEF MsgIds
  <2>4. PICK q : q = DataPush(Source, 1, <<0, 0, n>>, n)
    OBVIOUS
  <2>5. /\ q \in PushRec /\ q.org = Source /\ q.kind = "data" /\ q.stage = 1 /\ q.val = n
        /\ q.pc = "route" /\ q.late = 0
    BY <2>2, <2>3, <2>4, DataFacts, ConstTypes
  <2>6. PushFits(q)
    BY <1>g, <2>2, <2>5 DEF PushFits, Source, TasksGrow
  <2>7. pushes' = pushes \cup {q}
    BY <1>3, <2>1, <2>4 DEF SourceLine
  <2> QED
    BY <1>0, <1>g, <2>6, <2>7 DEF PushesTyped
<1>4. ASSUME NEW o \in 0 .. Len(task), NEW s \in Stages, NEW l, WorkerList(l),
             pushes' = pushes \cup EOSPushes(o, s, l),
             o = Source => s = 1, o # Source => s = task[o].stage + 1
      PROVE  PushesTyped'
  <2>1. \A m \in EOSPushes(o, s, l) : PushFits(m)
    <3> TAKE m \in EOSPushes(o, s, l)
    <3>0. o \in {Source} \cup Procs /\ Len(task') \in Nat /\ Len(task) <= Len(task')
      BY <1>4, <1>g, PidRange DEF TasksGrow
    <3>1. /\ m \in PushRec /\ m.org = o /\ m.kind = "EOS" /\ m.stage = s /\ m.pc = "call"
          /\ m.vm \in VMs
      BY <1>4, <3>0, EOSFacts
    <3> QED
      BY <1>4, <1>g, <3>1 DEF PushFits, TasksGrow
  <2> QED
    BY <1>0, <1>4, <1>g, <2>1 DEF PushesTyped
<1>5. CASE SourceEOS
  <2>1. WorkerList(SortedWorkers(1)) /\ pushes' = pushes \cup EOSPushes(Source, 1, SortedWorkers(1))
    BY <1>5, ConstTypes, StageFacts DEF SourceEOS
  <2>2. Source \in 0 .. Len(task) /\ 1 \in Stages
    BY <1>g, ConstTypes DEF Source, TasksGrow
  <2> QED
    BY <1>4, <2>1, <2>2
<1>6. ASSUME NEW i \in 1 .. Len(task), Operator(i) PROVE PushesTyped'
  <2>1. PICK s : s = task[i].stage + 1
    OBVIOUS
  <2>2. PICK d : d = <<task[i].stage, task[i].id, task[i].SeqNum + 1>>
    OBVIOUS
  <2>3. PICK v : v = Head(task[i].Stdin)
    OBVIOUS
  <2>4. PICK q : q = DataPush(i, s, d, v)
    OBVIOUS
  <2>5. /\ pushes' = pushes \/ (task[i].stage < NumStages /\ pushes' = pushes \cup {q})
        /\ v \in Lines
    BY <1>6, <2>1, <2>2, <2>3, <2>4, OperatorOp
  <2>6. task[i].stage \in Stages /\ task[i].id \in Ids /\ task[i].SeqNum \in Nat
    BY <1>g, TaskFields
  <2>7. d \in MsgIds
    BY <2>2, <2>6, IdMade
  <2>8. CASE task[i].stage < NumStages /\ pushes' = pushes \cup {q}
    <3>1. s \in Stages
      BY <2>1, <2>6, <2>8, NextStage
    <3>2. /\ q \in PushRec /\ q.org = i /\ q.kind = "data" /\ q.stage = s /\ q.val = v
          /\ q.pc = "route" /\ q.late = 0
      BY <1>g, <2>4, <2>5, <2>7, <3>1, DataFacts, PidRange
    <3>3. PushFits(q)
      BY <2>1, <2>5, <3>2 DEF PushFits, Source
    <3> QED
      BY <1>0, <1>g, <2>8, <3>3 DEF PushesTyped
  <2> QED
    BY <1>1, <2>5, <2>8
<1>7. ASSUME NEW i \in 1 .. Len(task), HandleEOF(i) PROVE PushesTyped'
  <2>1. \/ pushes' = pushes
        \/ /\ task[i].stage < NumStages
           /\ pushes' = pushes \cup EOSPushes(i, task[i].stage + 1, task[i].DownstreamList)
    BY <1>7, HandleEOFOp
  <2>2. task[i].stage \in Stages /\ WorkerList(task[i].DownstreamList)
    BY <1>g, TaskFields DEF ListFor
  <2>3. task[i].stage < NumStages => task[i].stage + 1 \in Stages
    BY <2>2, ConstTypes DEF Stages
  <2>4. i \in 0 .. Len(task) /\ i # Source
    BY DEF Source
  <2>5. CASE pushes' = pushes
    BY <1>1, <2>5
  <2>6. CASE /\ task[i].stage < NumStages
             /\ pushes' = pushes \cup EOSPushes(i, task[i].stage + 1, task[i].DownstreamList)
    BY <1>4, <2>2, <2>3, <2>4, <2>6
  <2> QED
    BY <2>1, <2>5, <2>6
<1> QED
  BY <1>1, <1>2, <1>3, <1>5, <1>6, <1>7, <1>8, <1>g, Frames DEF NodeFrame

(* Every step keeps Counted.                                               *)
LEMMA NextCounted ==
  ASSUME TypeInv, [Next]_vars
  PROVE  Counted'
<1>1. TotalTasks = Cardinality(Mapped) /\ FinishedTasks \in Nat
  BY DEF TypeInv, Counted
<1>2. FinishedTasks' \in Nat
  BY <1>1, Frames DEF LeaderFrame, TaskFinished
<1>3. IsFiniteSet(Mapped)
  BY KeysFinite DEF Mapped
<1>4. CASE UNCHANGED <<GlobalTaskMap, TotalTasks>>
  BY <1>1, <1>2, <1>4 DEF Mapped, Counted
<1>k. \A s \in Stages, t \in Ids :
        <<s, t>> \in Keys /\ (<<s, t>> \in Mapped <=> t \in DOMAIN GlobalTaskMap[s])
  BY DEF Mapped, Keys
<1>5. CASE ScaleUpMap
  <2> DEFINE s == scaler.stage
  <2>1. PICK n \in Nat \ {0}, e \in InfoRec :
          s \in Stages /\ n < NumTasks + ups /\ MapGrows(s, n, e)
    BY <1>5, ScaleUpMapOp
  <2>2. n \in Ids
    BY <2>1, ConstTypes DEF TypeInv, TasksTyped, Ids
  <2>3. <<s, n>> \notin Mapped
    BY <1>k, <2>1, <2>2 DEF MapGrows
  <2>4. Mapped' = Mapped \cup {<<s, n>>}
    BY <2>1, <2>2 DEF Mapped, MapGrows, Keys
  <2>5. Cardinality(Mapped \cup {<<s, n>>}) = Cardinality(Mapped) + 1
    BY <1>3, <2>3, FS_AddElement
  <2>6. TotalTasks' = TotalTasks + 1
    BY <1>5 DEF ScaleUpMap
  <2> QED
    BY <1>1, <1>2, <2>4, <2>5, <2>6 DEF Counted
<1>6. CASE Removes
  <2>1. PICK s \in Stages : ScaleDownMap(s)
    BY <1>6 DEF Removes
  <2>2. PICK n \in Nat \ {0, 1} : MapShrinks(s, n)
    BY <2>1, ScaleDownMapOp
  <2>3. n - 1 \in Ids
    <3>1. n - 1 < NumTasks + ups
      BY <2>2 DEF MapShrinks, TypeInv, MapBounded
    <3> QED
      BY <3>1, ConstTypes DEF TypeInv, TasksTyped, Ids
  <2>4. <<s, n - 1>> \in Mapped
    BY <1>k, <2>2, <2>3 DEF MapShrinks
  <2>5. Mapped' = Mapped \ {<<s, n - 1>>}
    BY <2>2, <2>3 DEF Mapped, MapShrinks, Keys
  <2>6. Cardinality(Mapped \ {<<s, n - 1>>}) = Cardinality(Mapped) - 1
    BY <1>3, <2>4, FS_RemoveElement
  <2>7. TotalTasks' = TotalTasks - 1
    BY <2>1 DEF ScaleDownMap
  <2> QED
    BY <1>1, <1>2, <2>5, <2>6, <2>7 DEF Counted
<1>7. CASE \E r \in restarts : RestartMap(r)
  <2>1. SameMap /\ UNCHANGED TotalTasks
    BY <1>7, RestartMapOp
  <2>2. Mapped' = Mapped
    BY <2>1 DEF SameMap, Mapped, Keys
  <2> QED
    BY <1>1, <1>2, <2>1, <2>2 DEF Counted
<1> QED
  BY <1>1, <1>2, <1>4, <1>5, <1>6, <1>7, Frames DEF LeaderFrame, Counted

(* Every step keeps the counters within their bounds.                      *)
LEMMA NextCounts ==
  ASSUME TypeInv, [Next]_vars
  PROVE  CountsTyped'
<1>1. /\ CountsTyped /\ MaxDowns \in Nat /\ MaxReports \in Nat /\ MaxLosses \in Nat
  BY ConstTypes DEF TypeInv
<1>2. CountSteps
  BY CountFrames
<1>3. downs' \in 0 .. MaxDowns
  BY <1>1, <1>2 DEF CountSteps, CountsTyped
<1>4. reported' \in 0 .. MaxReports
  BY <1>1, <1>2 DEF CountSteps, CountsTyped
<1>5. unanswered' \in Nat /\ losses' \in Nat /\ losses' + unanswered' <= MaxLosses
  BY <1>1, <1>2 DEF CountSteps, CountsTyped, MayLose
<1> QED
  BY <1>3, <1>4, <1>5 DEF CountsTyped

-----------------------------------------------------------------------------
(* The initial state.                                                      *)

(* Quotient and remainder.                                                 *)
LEMMA DivMod ==
  ASSUME NEW T \in Nat \ {0}, NEW q \in Nat, NEW r \in 0 .. T - 1
  PROVE  (q * T + r) \div T = q /\ (q * T + r) % T = r
OBVIOUS

(* Row by row, the entries of a table are numbered from 0.                 *)
LEMMA RowsNumbered ==
  ASSUME NEW S \in Nat, NEW T \in Nat \ {0}, NEW q \in 0 .. S - 1, NEW r \in 0 .. T - 1
  PROVE  q * T + r \in 0 .. S * T - 1
<1>1. q * T >= 0 /\ q * T + T = (q + 1) * T /\ q * T \in Nat /\ S * T \in Nat
  OBVIOUS
<1>2. (q + 1) * T <= S * T
  <2>1. q + 1 <= S /\ q + 1 \in Nat
    OBVIOUS
  <2> QED
    BY <2>1
<1> QED
  BY <1>1, <1>2

(* And every number is that of one entry.                                  *)
LEMMA NumbersSplit ==
  ASSUME NEW S \in Nat, NEW T \in Nat \ {0}, NEW i \in 0 .. S * T - 1
  PROVE  \E q \in 0 .. S - 1, r \in 0 .. T - 1 :
           q = i \div T /\ r = i % T /\ i = q * T + r
<1>0. i \in Nat
  OBVIOUS
<1>1. i \div T \in Nat /\ i % T \in 0 .. T - 1 /\ i % T = i - T * (i \div T)
  BY <1>0
<1>2. PICK q \in Nat : q = i \div T
  BY <1>1
<1>a. PICK r \in 0 .. T - 1 : r = i % T /\ r = i - T * q
  BY <1>1, <1>2
<1>b. T * q \in Nat /\ T * q = q * T
  OBVIOUS
<1>c. i = q * T + r /\ T * q <= i
  BY <1>0, <1>a, <1>b
<1>3. q < S
  <2>1. SUFFICES ASSUME q >= S PROVE FALSE
    BY <1>2
  <2>2. T * q >= T * S
    BY <2>1
  <2>3. T * S = S * T /\ S * T \in Nat
    OBVIOUS
  <2> QED
    BY <1>0, <1>b, <1>c, <2>2, <2>3
<1>4. q \in 0 .. S - 1
  BY <1>3
<1> QED
  BY <1>2, <1>4, <1>a, <1>c, Zenon

(* The deployment plan: task t of stage s has a PID and a worker.          *)
LEMMA PlanFacts ==
  ASSUME NEW s \in Stages, NEW t \in 0 .. NumTasks - 1
  PROVE  /\ PlanPID(s, t) \in 1 .. NumStages * NumTasks /\ PlanVM(s, t) \in VMs
         /\ (PlanPID(s, t) - 1) \div NumTasks + 1 = s /\ (PlanPID(s, t) - 1) % NumTasks = t
         /\ t \in Ids
<1>1. PICK q \in 0 .. NumStages - 1 : q = s - 1
  BY ConstTypes DEF Stages
<1>2. PICK x : x = q * NumTasks + t
  OBVIOUS
<1>3. x \in 0 .. NumStages * NumTasks - 1 /\ x \div NumTasks = q /\ x % NumTasks = t
  BY <1>2, ConstTypes, RowsNumbered, DivMod
<1>4. x \in Nat
  BY <1>3, ConstTypes
<1>5. x % NumVMs \in 0 .. NumVMs - 1
  BY <1>4, ConstTypes
<1>6. PlanVM(s, t) = (x % NumVMs) + 1 /\ PlanPID(s, t) = x + 1
  BY <1>1, <1>2 DEF PlanVM, PlanPID
<1>7. PlanVM(s, t) \in VMs
  BY <1>5, <1>6, ConstTypes DEF VMs
<1>8. PlanPID(s, t) \in 1 .. NumStages * NumTasks /\ PlanPID(s, t) - 1 = x
  BY <1>3, <1>4, <1>6, ConstTypes
<1>9. t \in Ids
  BY ConstTypes DEF Ids
<1>10. q + 1 = s
  BY <1>1, ConstTypes
<1> QED
  BY <1>3, <1>7, <1>8, <1>9, <1>10

(* The first list of the tasks of stage s.                                 *)
LEMMA PlanList ==
  ASSUME NEW s \in Stages
  PROVE  /\ ListFor(s, Plan(s + 1)) /\ PlanUpstream(s) \in Nat
         /\ s < NumStages => /\ s + 1 \in Stages /\ Len(Plan(s + 1)) = NumTasks
                             /\ \A n \in 1 .. NumTasks : Plan(s + 1)[n] = PlanVM(s + 1, n - 1)
<1>1. s < NumStages <=> s + 1 \in Stages
  BY ConstTypes DEF Stages
<1>2. CASE s + 1 \in Stages
  <2>1. Plan(s + 1) = [n \in 1 .. NumTasks |-> PlanVM(s + 1, n - 1)]
    BY <1>2 DEF Plan
  <2>2. \A n \in 1 .. NumTasks : n - 1 \in 0 .. NumTasks - 1
    BY ConstTypes
  <2>3. \A n \in 1 .. NumTasks : PlanVM(s + 1, n - 1) \in VMs
    BY <1>2, <2>2, PlanFacts
  <2>4. Plan(s + 1) \in Seq(VMs) /\ Len(Plan(s + 1)) = NumTasks
    BY <2>1, <2>3, ConstTypes
  <2> QED
    BY <1>1, <1>2, <2>1, <2>4, ConstTypes DEF ListFor, WorkerList, PlanUpstream
<1>3. CASE s + 1 \notin Stages
  <2>1. Plan(s + 1) = <<>>
    BY <1>3 DEF Plan
  <2>2. <<>> \in Seq(VMs) /\ Len(<<>>) = 0
    OBVIOUS
  <2>3. WorkerList(Plan(s + 1))
    <3>1. 0 <= NumTasks + MaxUps
      BY ConstTypes
    <3>2. WorkerList(<<>>)
      BY <2>2, <3>1 DEF WorkerList
    <3> QED
      BY <2>1, <3>2
  <2> QED
    BY <1>1, <1>3, <2>3, ConstTypes DEF ListFor, PlanUpstream
<1> QED
  BY <1>2, <1>3

(* The tasks of the plan.                                                  *)
LEMMA InitTasks ==
  ASSUME Init
  PROVE  /\ task \in Seq(TaskRec) /\ Len(task) = NumStages * NumTasks
         /\ \A i \in 1 .. Len(task) : \E s \in Stages, t \in 0 .. NumTasks - 1 :
              /\ i = PlanPID(s, t) /\ task[i].stage = s /\ task[i].id = t
              /\ task[i].vm = PlanVM(s, t) /\ task[i].log = i /\ task[i].Stdin = <<>>
              /\ task[i].ProcessedIDs = {} /\ task[i].SeqNum = 0
              /\ task[i].DownstreamList = Plan(s + 1)
<1> DEFINE N == NumStages * NumTasks
           st(i) == (i - 1) \div NumTasks + 1
           tk(i) == (i - 1) % NumTasks
           q(i) == NewTask(st(i), tk(i), PlanVM(st(i), tk(i)), i, <<>>, Plan(st(i) + 1),
                           PlanUpstream(st(i)))
<1>1. task = [i \in 1 .. N |-> q(i)] /\ N \in Nat
  BY ConstTypes DEF Init
<1>2. \A i \in 1 .. N :
        st(i) \in Stages /\ tk(i) \in 0 .. NumTasks - 1 /\ i = PlanPID(st(i), tk(i))
  <2> TAKE i \in 1 .. N
  <2>1. PICK j : j = i - 1
    OBVIOUS
  <2>2. j \in 0 .. N - 1
    BY <1>1, <2>1
  <2>3. PICK a \in 0 .. NumStages - 1, b \in 0 .. NumTasks - 1 :
          a = j \div NumTasks /\ b = j % NumTasks /\ j = a * NumTasks + b
    BY <2>2, ConstTypes, NumbersSplit
  <2>5. a + 1 \in Stages /\ (a + 1) - 1 = a
    BY ConstTypes DEF Stages
  <2>6. st(i) = a + 1 /\ tk(i) = b
    BY <2>1, <2>3
  <2>7. i = j + 1
    BY <2>1, <2>2
  <2>10. PlanPID(a + 1, b) = i
    BY <2>3, <2>5, <2>7 DEF PlanPID
  <2> QED
    BY <2>5, <2>6, <2>10
<1>3. IdsOf(<<>>) = {} /\ {} \in SUBSET MsgIds /\ <<>> \in Seq(Lines)
  BY DEF IdsOf
<1>4. \A i \in 1 .. N : i \in Procs
  BY <1>1, ConstTypes, AutoscaleAssumption DEF Procs, MaxProcs
<1> HIDE DEF N, st, tk
<1>5. \A i \in 1 .. N :
        /\ q(i) \in TaskRec /\ q(i).stage = st(i) /\ q(i).id = tk(i)
        /\ q(i).vm = PlanVM(st(i), tk(i)) /\ q(i).log = i /\ q(i).Stdin = <<>>
        /\ q(i).ProcessedIDs = {} /\ q(i).SeqNum = 0 /\ q(i).DownstreamList = Plan(st(i) + 1)
  <2> TAKE i \in 1 .. N
  <2>1. PlanVM(st(i), tk(i)) \in VMs /\ tk(i) \in Ids
    BY <1>2, PlanFacts
  <2>2. Plan(st(i) + 1) \in Seq(VMs) /\ PlanUpstream(st(i)) \in Nat
    BY <1>2, PlanList DEF ListFor, WorkerList
  <2> QED
    BY <1>2, <1>3, <1>4, <2>1, <2>2 DEF NewTask, TaskRec
<1> HIDE DEF q
<1>6. task \in Seq(TaskRec) /\ Len(task) = N
  BY <1>1, <1>5
<1> QED
  BY <1>1, <1>2, <1>5, <1>6 DEF N

(* The map of the plan.                                                    *)
LEMMA InitMap ==
  ASSUME Init, NEW s \in Stages
  PROVE  /\ DOMAIN GlobalTaskMap[s] = 0 .. NumTasks - 1
         /\ \A t \in 0 .. NumTasks - 1 :
              /\ GlobalTaskMap[s][t] \in InfoRec /\ InfoFits(GlobalTaskMap[s][t], s)
              /\ GlobalTaskMap[s][t].vm = PlanVM(s, t)
              /\ GlobalTaskMap[s][t].PID = PlanPID(s, t)
              /\ rsTasks[PlanVM(s, t)][<<s, t>>] = PlanPID(s, t)
<1> DEFINE e(t) == [vm |-> PlanVM(s, t), PID |-> PlanPID(s, t), log |-> PlanPID(s, t),
                    down |-> Plan(s + 1), upstream |-> PlanUpstream(s)]
<1>1. GlobalTaskMap[s] = [t \in 0 .. NumTasks - 1 |-> e(t)]
  BY DEF Init
<1>2. \A t \in 0 .. NumTasks - 1 :
        /\ e(t) \in InfoRec /\ InfoFits(e(t), s) /\ e(t).vm = PlanVM(s, t)
        /\ e(t).PID = PlanPID(s, t)
  <2> TAKE t \in 0 .. NumTasks - 1
  <2>1. PlanPID(s, t) \in 1 .. NumStages * NumTasks /\ PlanVM(s, t) \in VMs
    BY PlanFacts
  <2>2. ListFor(s, Plan(s + 1)) /\ PlanUpstream(s) \in Nat /\ Plan(s + 1) \in Seq(VMs)
    BY PlanList DEF ListFor, WorkerList
  <2>3. Len(task) = NumStages * NumTasks
    BY InitTasks
  <2>4. PlanPID(s, t) \in Procs /\ PlanPID(s, t) <= Len(task)
    BY <2>1, <2>3, ConstTypes, AutoscaleAssumption DEF Procs, MaxProcs
  <2>5. e(t) \in InfoRec
    BY <2>1, <2>2, <2>4 DEF InfoRec
  <2> QED
    BY <2>2, <2>4, <2>5 DEF InfoFits
<1>3. \A t \in 0 .. NumTasks - 1 : rsTasks[PlanVM(s, t)][<<s, t>>] = PlanPID(s, t)
  <2> TAKE t \in 0 .. NumTasks - 1
  <2>1. PlanVM(s, t) \in VMs /\ <<s, t>> \in Keys /\ t < NumTasks
    BY PlanFacts, ConstTypes DEF Keys
  <2> QED
    BY <2>1 DEF Init
<1> HIDE DEF e
<1> QED
  BY <1>1, <1>2, <1>3

(* The initial state is typed.                                             *)
LEMMA InitTypes == Init => TypeInv
<1> SUFFICES ASSUME Init PROVE TypeInv
  OBVIOUS
<1> DEFINE N == NumStages * NumTasks
<1>n. N \in Nat /\ Len(task) = N /\ task \in Seq(TaskRec) /\ DOMAIN dedup = 1 .. N
  BY InitTasks, ConstTypes DEF Init
<1>1. TasksTyped
  <2>1. ups = 0 /\ N <= MaxProcs - (MaxUps - 0)
    BY <1>n, ConstTypes, AutoscaleAssumption DEF Init, MaxProcs
  <2>2. \A i \in 1 .. Len(task) :
          task[i].log <= Len(task) /\ ListFor(task[i].stage, task[i].DownstreamList)
    <3> TAKE i \in 1 .. Len(task)
    <3>1. PICK s \in Stages : /\ task[i].stage = s /\ task[i].log = i
                              /\ task[i].DownstreamList = Plan(s + 1)
      BY InitTasks
    <3> QED
      BY <1>n, <3>1, PlanList
  <2> QED
    BY <1>n, <2>1, <2>2, ConstTypes DEF TasksTyped
<1>2. NodesTyped
  <2> DEFINE f(v, k) == IF k[2] < NumTasks /\ PlanVM(k[1], k[2]) = v
                        THEN PlanPID(k[1], k[2]) ELSE 0
  <2>1. rsTasks = [v \in VMs |-> [k \in Keys |-> f(v, k)]] /\ pids = 1 .. N
    BY DEF Init
  <2>2. \A v \in VMs, k \in Keys : f(v, k) \in 0 .. N
    <3> TAKE v \in VMs, k \in Keys
    <3>1. k[1] \in Stages /\ k[2] \in Nat
      BY ConstTypes DEF Keys
    <3>2. CASE k[2] < NumTasks
      <4>1. k[2] \in 0 .. NumTasks - 1
        BY <3>1, <3>2, ConstTypes
      <4>2. PlanPID(k[1], k[2]) \in 1 .. N
        BY <3>1, <4>1, PlanFacts
      <4> QED
        BY <1>n, <4>2
    <3>3. CASE ~(k[2] < NumTasks)
      BY <1>n, <3>3
    <3> QED
      BY <3>2, <3>3
  <2> HIDE DEF f
  <2> QED
    BY <1>n, <2>1, <2>2 DEF NodesTyped
<1>3. LogsTyped
  <2>1. dedup = [i \in 1 .. N |-> <<>>] /\ output = <<>>
    BY DEF Init
  <2>2. <<>> \in Seq(Entries) /\ <<>> \in Seq(Lines)
    OBVIOUS
  <2>3. \A i \in 1 .. N : dedup[i] \in Seq(Entries)
    BY <2>1, <2>2
  <2> HIDE DEF N
  <2>4. dedup \in Seq(Seq(Entries)) /\ Len(dedup) = N
    BY <1>n, <2>1, <2>3
  <2> QED
    BY <1>n, <2>1, <2>2, <2>4 DEF LogsTyped
<1>4. PushesTyped /\ ReplaysTyped /\ SourceTyped /\ CallsTyped /\ ReportsTyped /\ RestartsTyped
  BY ConstTypes DEF Init, PushesTyped, ReplaysTyped, SourceTyped, SourceRec, CallsTyped,
                    ReportsTyped, RestartsTyped
<1>5. MapTyped
  BY InitMap DEF MapTyped
<1>6. MapBounded
  <2>1. ups = 0 /\ scaler.pc = "tick"
    BY DEF Init
  <2> QED
    BY <2>1, InitMap, ConstTypes DEF MapBounded
<1>7. RatesTyped
  <2>1. \A s \in Stages : DOMAIN TaskRates[s] = {}
    BY DEF Init
  <2>2. DOMAIN TaskRates = Stages /\ rates = {}
    BY DEF Init
  <2> QED
    BY <2>1, <2>2 DEF RatesTyped
<1>8. ScalerTyped
  BY <1>n, ConstTypes DEF Init, ScalerTyped, ScalerRec
<1>c. CountsTyped
  BY ConstTypes DEF Init, CountsTyped
<1>9. Counted
  <2>1. \A s \in Stages, t \in Ids : t \in DOMAIN GlobalTaskMap[s] <=> t \in 0 .. NumTasks - 1
    BY InitMap
  <2>2. 0 .. NumTasks - 1 \subseteq Ids
    BY ConstTypes DEF Ids
  <2>3. Mapped = Stages \X (0 .. NumTasks - 1)
    BY <2>1, <2>2 DEF Mapped, Keys
  <2>4. /\ IsFiniteSet(Stages) /\ Cardinality(Stages) = NumStages
        /\ IsFiniteSet(0 .. NumTasks - 1) /\ Cardinality(0 .. NumTasks - 1) = NumTasks
    <3>1. /\ NumStages \in Int /\ NumTasks - 1 \in Int /\ 0 \in Int /\ 1 \in Int
          /\ ~(1 > NumStages) /\ ~(0 > NumTasks - 1) /\ NumStages - 1 + 1 = NumStages
          /\ NumTasks - 1 - 0 + 1 = NumTasks
      BY ConstTypes
    <3> QED
      BY <3>1, FS_Interval DEF Stages
  <2>5. Cardinality(Stages \X (0 .. NumTasks - 1)) = NumStages * NumTasks
    BY <2>4, FS_Product
  <2> QED
    BY <2>3, <2>5 DEF Counted, Init
<1>10. IndexInv
  BY InitIndex
<1> QED
  BY <1>1, <1>2, <1>3, <1>4, <1>5, <1>6, <1>7, <1>8, <1>9, <1>10, <1>c DEF TypeInv

(* Every step keeps the types.                                             *)
LEMMA NextTypes == TypeInv /\ [Next]_vars => TypeInv'
<1> SUFFICES ASSUME TypeInv, [Next]_vars PROVE TypeInv'
  OBVIOUS
<1>1. IndexInv'
  BY NextIndex DEF TypeInv
<1> QED
  BY <1>1, NextTasks, NextNodes, NextLogs, NextPushes, NextReplays, NextSource, NextMap,
     NextRates, NextScaler, NextCalls, NextReports, NextRestarts, NextCounted, NextCounts
  DEF TypeInv

(* TypeInv holds in every reachable state.                                 *)
LEMMA TypesHold == Spec => []TypeInv
BY InitTypes, NextTypes, PTL DEF Spec

(* The type invariant follows.                                             *)
LEMMA TypesFollow == TypeInv => TypeOK
<1> SUFFICES ASSUME TypeInv PROVE TypeOK
  OBVIOUS
<1>1. Len(task) \in Nat /\ Len(task) <= MaxProcs /\ task \in Seq(TaskRec)
  BY ConstTypes DEF TypeInv, TasksTyped
<1>2. rsTasks \in [VMs -> [Keys -> 0 .. MaxProcs]] /\ pids \subseteq Procs
  <2>1. 0 .. Len(task) \subseteq 0 .. MaxProcs /\ 1 .. Len(task) \subseteq Procs
    BY <1>1, ConstTypes DEF Procs
  <2>2. \A v \in VMs : rsTasks[v] \in [Keys -> 0 .. MaxProcs]
    BY <2>1 DEF TypeInv, NodesTyped
  <2> QED
    BY <2>1, <2>2 DEF TypeInv, NodesTyped
<1>3. dedup \in Seq(Seq(Entries)) /\ Len(dedup) = Len(task) /\ output \in Seq(Lines)
  BY DEF TypeInv, LogsTyped
<1>4. ASSUME NEW s \in Stages
      PROVE  /\ DOMAIN GlobalTaskMap[s] \subseteq Ids
             /\ \A t \in DOMAIN GlobalTaskMap[s] : GlobalTaskMap[s][t] \in InfoRec
             /\ DOMAIN TaskRates[s] \subseteq Ids
             /\ \A t \in DOMAIN TaskRates[s] : TaskRates[s][t] \in Nat
  <2>1. PICK n \in Nat \ {0} : DOMAIN GlobalTaskMap[s] = 0 .. n - 1 /\ n <= NumTasks + ups
    BY StageFacts
  <2>2. ups \in 0 .. MaxUps
    BY DEF TypeInv, TasksTyped
  <2>3. DOMAIN GlobalTaskMap[s] \subseteq Ids
    BY <2>1, <2>2, ConstTypes DEF Ids
  <2> QED
    BY <2>3 DEF TypeInv, MapTyped, InfoFits, RatesTyped
<1>5. pushes \subseteq PushRec /\ replays \subseteq ReplayRec /\ source \in SourceRec
  BY DEF TypeInv, PushesTyped, PushFits, ReplaysTyped, ReplayFits, SourceTyped
<1>6. DOMAIN GlobalTaskMap = Stages /\ DOMAIN TaskRates = Stages /\ rates \subseteq RateRec
  BY DEF TypeInv, IndexInv, MapContiguous, RatesTyped
<1>7. /\ scaler \in ScalerRec /\ calls \subseteq CallRec /\ reports \subseteq ReportRec
      /\ restarts \subseteq RestartRec
  BY DEF TypeInv, ScalerTyped, CallsTyped, CallFits, ReportsTyped, RestartsTyped, RestartFits
<1>8. TotalTasks = Cardinality(Mapped) /\ FinishedTasks \in Nat
  BY DEF TypeInv, Counted
<1>9. /\ ups \in 0 .. MaxUps /\ downs \in 0 .. MaxDowns /\ reported \in 0 .. MaxReports
      /\ unanswered \in Nat /\ losses \in Nat /\ losses + unanswered <= MaxLosses
  BY DEF TypeInv, TasksTyped, CountsTyped
<1> QED
  BY <1>1, <1>2, <1>3, <1>4, <1>5, <1>6, <1>7, <1>8, <1>9 DEF TypeOK

(* Every structure of the autoscaler keeps its shape: in particular PIDs,  *)
(* task ids and list positions stay in range, and TotalTasks, which        *)
(* scaleDown decrements, is the number of the tasks in the map and so      *)
(* never negative.                                                         *)
THEOREM AutoscaleTyped == Spec => []TypeOK
BY TypesHold, TypesFollow, PTL

-----------------------------------------------------------------------------
(* Routing.  Between two scalings no routing update is on its way, so what *)
(* has to be kept while one is: the updates carry the list that the map    *)
(* now gives, and a task whose list is old has one coming.                 *)

(* What a worker registers under a key is a task of its own with that key. *)
Registered ==
  \A v \in VMs, k \in Keys : rsTasks[v][k] # 0 =>
    /\ task[rsTasks[v][k]].stage = k[1] /\ task[rsTasks[v][k]].id = k[2]
    /\ task[rsTasks[v][k]].vm = v

NoneOnItsWay == scaler.pc # "waiting" => AllUpdated

BroadcastCurrent ==
  \A c \in calls : c.kind = "UpdateDownstream" =>
    c.stage = scaler.stage - 1 /\ c.arg = SortedWorkers(scaler.stage)

(* The task with key k is on worker v, by the map or by the scaler that is *)
(* about to enter it.                                                      *)
Placed(v, k) ==
  \/ k \in Mapped /\ GlobalTaskMap[k[1]][k[2]].vm = v
  \/ /\ scaler.pc = "map" /\ k = <<scaler.stage, NewId(scaler.stage)>>
     /\ task[scaler.pid].vm = v

(* The list of the task registered for key k on worker v is current, or    *)
(* the update has not reached it yet.                                      *)
RoutesRight(v, k) ==
  rsTasks[v][k] # 0 /\ ~Restarted(rsTasks[v][k]) =>
    \/ task[rsTasks[v][k]].DownstreamList = SortedWorkers(k[1] + 1)
    \/ \E c \in calls : c.kind = "UpdateDownstream" /\ c.stage = k[1] /\ c.vm = v

RoutesInv ==
  /\ losses \in Nat
  /\ losses = 0 => \A v \in VMs, k \in Keys : k[1] < NumStages /\ Placed(v, k) => RoutesRight(v, k)

RouteInv == Registered /\ NoneOnItsWay /\ BroadcastCurrent /\ RoutesInv

(* What a step may do to the routing updates on their way.                 *)
LEMMA CallSteps ==
  ASSUME [Next]_vars
  PROVE  /\ losses' = losses \/ losses' = losses + 1
         /\ \/ losses' = losses + 1
            \/ \E c \in calls : UpdateDownstream(c)
            \/ \A c \in calls : c.kind = "UpdateDownstream" => c \in calls'
<1>1. CASE UNCHANGED vars
  BY <1>1 DEF vars
<1>2. CASE \E i \in DOMAIN task : UpdateRate(i) \/ TaskStep(i)
  <2>1. UNCHANGED <<calls, losses>>
    BY <1>2 DEF UpdateRate, TaskStep, Operator, OperatorExit, HandleEOF, HandleEOSSent
  <2> QED
    BY <2>1
<1>3. CASE \E c \in rates : StoreRate(c)
  BY <1>3 DEF StoreRate
<1>4. CASE Scaler
  <2>1. CASE Adds
    <3>1. UNCHANGED calls /\ (losses' = losses \/ losses' = losses + 1)
      BY <2>1 DEF Adds, ScaleUpStart
    <3> QED
      BY <3>1
  <2>2. CASE Removes \/ ScaleUpMap \/ BroadcastUpstream \/ ScalerStops
    <3>1. UNCHANGED losses /\ calls \subseteq calls'
      BY <2>2 DEF Removes, ScaleDownMap, ScaleUpMap, BroadcastUpstream, ScalerStops,
                  BroadcastDownstream
    <3> QED
      BY <3>1
  <2> QED
    BY <1>4, <2>1, <2>2 DEF Scaler, Adds, Removes
<1>5. CASE \E c \in calls : Handle(c) \/ CallLost(c)
  <2>1. PICK c \in calls : Handle(c) \/ CallLost(c)
    BY <1>5
  <2>2. CASE UpdateDownstream(c)
    BY <2>2 DEF UpdateDownstream
  <2>3. CASE UpdateUpstream(c) \/ KillTask(c) \/ ProcessOrphanLog(c)
    <3>1. UNCHANGED losses /\ calls' = calls \ {c} /\ c.kind # "UpdateDownstream"
      BY <2>3 DEF UpdateUpstream, KillTask, ProcessOrphanLog
    <3> QED
      BY <3>1
  <2>4. CASE CallLost(c)
    BY <2>4 DEF CallLost
  <2> QED
    BY <2>1, <2>2, <2>3, <2>4 DEF Handle
<1>6. CASE \E g \in replays : ReplayLine(g)
  BY <1>6 DEF ReplayLine
<1>7. CASE \E m \in pushes : PushStep(m) \/ PushGivenUp(m)
  <2>1. UNCHANGED <<calls, losses>>
    BY <1>7 DEF PushStep, SendTuple, PushNotFound, PushEOS, PushDuplicate, PushTuple,
                PushWriteFails, PushGivenUp
  <2> QED
    BY <2>1
<1>8. CASE SourceLine \/ SourceStops \/ SourceEOS
  BY <1>8 DEF SourceLine, SourceStops, SourceEOS
<1>9. CASE \E r \in reports : TaskFinished(r)
  BY <1>9 DEF TaskFinished
<1>10. CASE \E r \in restarts : Restart(r) \/ RestartMap(r)
  <2>1. UNCHANGED <<calls, losses>>
    BY <1>10 DEF Restart, RestartMap
  <2> QED
    BY <2>1
<1> QED
  BY <1>1, <1>2, <1>3, <1>4, <1>5, <1>6, <1>7, <1>8, <1>9, <1>10 DEF Next

(* Every step keeps Registered.                                            *)
LEMMA NextRegistered ==
  ASSUME TypeInv, Registered, [Next]_vars
  PROVE  Registered'
<1>g. TasksGrow /\ NodesTyped /\ Len(task) \in Nat
  BY NextTasks DEF TypeInv, TasksGrow
<1>r. \A v \in VMs, k \in Keys : rsTasks[v][k] \in 0 .. Len(task)
  BY <1>g DEF NodesTyped
<1>0. \A v \in VMs, k \in Keys : rsTasks[v][k] # 0 =>
        /\ task'[rsTasks[v][k]].stage = k[1] /\ task'[rsTasks[v][k]].id = k[2]
        /\ task'[rsTasks[v][k]].vm = v
  <2> SUFFICES ASSUME NEW v \in VMs, NEW k \in Keys, rsTasks[v][k] # 0
               PROVE  /\ task'[rsTasks[v][k]].stage = k[1] /\ task'[rsTasks[v][k]].id = k[2]
                      /\ task'[rsTasks[v][k]].vm = v
    OBVIOUS
  <2>1. PICK i : i = rsTasks[v][k]
    OBVIOUS
  <2>2. i \in 1 .. Len(task)
    BY <1>g, <1>r, <2>1
  <2>3. SameTask(i)
    BY <1>g, <2>2 DEF TasksGrow
  <2> QED
    BY <2>1, <2>3 DEF Registered, SameTask
<1>1. ASSUME NEW s \in Stages, NEW t \in Ids, NEW v \in VMs, NEW f, NEW l,
             Starts(s, t, v, f, l)
      PROVE  Registered'
  <2>1. PICK i : i = Len(task) + 1
    OBVIOUS
  <2>2. /\ rsTasks' = [rsTasks EXCEPT ![v][<<s, t>>] = i] /\ task'[i].stage = s
        /\ task'[i].id = t /\ task'[i].vm = v
    BY <1>1, <2>1 DEF Starts
  <2>3. \A w \in VMs, k \in Keys : rsTasks'[w][k] =
          IF w = v /\ k = <<s, t>> THEN i ELSE rsTasks[w][k]
    BY <1>g, <2>2 DEF NodesTyped, Keys
  <2> QED
    BY <1>0, <2>2, <2>3 DEF Registered
<1>2. CASE Adds
  <2>1. PICK s \in Stages : ScaleUpStart(s)
    BY <1>2 DEF Adds
  <2> QED
    BY <1>1, <2>1, ScaleUpStartOp
<1>3. CASE Restarts
  <2>1. PICK r \in restarts : Restart(r)
    BY <1>3 DEF Restarts
  <2> QED
    BY <1>1, <2>1, RestartOp
<1>4. CASE \E c \in calls : KillTask(c)
  <2>1. PICK c \in calls : KillTask(c)
    BY <1>4
  <2>2. c.vm \in VMs /\ <<c.stage, c.id>> \in Keys
    BY DEF TypeInv, CallsTyped, CallFits, Keys
  <2>3. \A v \in VMs, k \in Keys : rsTasks'[v][k] = 0 \/ rsTasks'[v][k] = rsTasks[v][k]
    BY <1>g, <2>1, <2>2 DEF KillTask, NodesTyped
  <2> QED
    BY <1>0, <2>3 DEF Registered
<1>5. CASE UNCHANGED <<rsTasks, pids>>
  BY <1>0, <1>5 DEF Registered
<1> QED
  BY <1>2, <1>3, <1>4, <1>5, Frames DEF NodeFrame

(* The same map gives the same lists and the same next id.                 *)
LEMMA SameLists ==
  ASSUME TypeInv, SameMap, NEW s \in Stages
  PROVE  SortedWorkers(s)' = SortedWorkers(s) /\ NewId(s)' = NewId(s)
<1>1. PICK n \in Nat \ {0} : DOMAIN GlobalTaskMap[s] = 0 .. n - 1
  BY StageFacts
<1>2. PICK f : f = GlobalTaskMap[s]
  OBVIOUS
<1>3. PICK g : g = GlobalTaskMap'[s]
  OBVIOUS
<1>4. /\ DOMAIN f = 0 .. n - 1 /\ DOMAIN g = 0 .. n - 1
      /\ \A t \in 0 .. n - 1 : g[t].vm = f[t].vm
  BY <1>1, <1>2, <1>3 DEF SameMap
<1>5. /\ Workers(f) = [k \in 1 .. n |-> f[k - 1].vm]
      /\ Workers(g) = [k \in 1 .. n |-> g[k - 1].vm]
  BY <1>4, WorkersInOrder
<1>6. Workers(f) = Workers(g)
  BY <1>4, <1>5
<1>7. NewId(s)' = NewId(s)
  BY <1>2, <1>3, <1>4 DEF NewId, MaxId
<1> QED
  BY <1>2, <1>3, <1>6, <1>7 DEF SortedWorkers

(* Every step keeps NoneOnItsWay and BroadcastCurrent.                     *)
LEMMA NextBroadcast ==
  ASSUME TypeInv, NoneOnItsWay, BroadcastCurrent, [Next]_vars
  PROVE  NoneOnItsWay' /\ BroadcastCurrent'
<1>s. ScalerTyped
  BY DEF TypeInv
<1>1. ASSUME NEW s \in Stages, BroadcastDownstream(s), scaler.pc # "waiting",
             scaler'.pc = "waiting", scaler'.stage = s
      PROVE  NoneOnItsWay' /\ BroadcastCurrent'
  <2>1. PICK l : l = Workers(GlobalTaskMap'[s])
    OBVIOUS
  <2>2. calls' = calls \cup Broadcast("UpdateDownstream", s - 1, l)
    BY <1>1, <2>1 DEF BroadcastDownstream
  <2>3. \A c \in calls : c.kind # "UpdateDownstream"
    BY <1>1 DEF NoneOnItsWay, AllUpdated
  <2>4. \A c \in Broadcast("UpdateDownstream", s - 1, l) : c.stage = s - 1 /\ c.arg = l
    <3>1. s - 1 \in Int
      BY ConstTypes
    <3> QED
      BY <3>1, BroadcastCalls
  <2>5. SortedWorkers(s)' = l
    BY <2>1 DEF SortedWorkers
  <2>6. SortedWorkers(scaler.stage)' = l
    BY <1>1, <2>1 DEF SortedWorkers
  <2> QED
    BY <1>1, <2>2, <2>3, <2>4, <2>6 DEF NoneOnItsWay, BroadcastCurrent
<1>2. CASE ScaleUpMap
  <2>1. /\ scaler.pc = "map" /\ scaler.stage \in Stages /\ BroadcastDownstream(scaler.stage)
        /\ scaler' = [scaler EXCEPT !.pc = "waiting"]
    BY <1>2, <1>s DEF ScaleUpMap, ScalerTyped
  <2>2. scaler'.pc = "waiting" /\ scaler'.stage = scaler.stage
    BY <1>s, <2>1 DEF ScalerTyped
  <2> QED
    BY <1>1, <2>1, <2>2
<1>3. CASE Removes
  <2>1. PICK s \in Stages : ScaleDownMap(s)
    BY <1>3 DEF Removes
  <2>2. /\ scaler.pc = "tick" /\ scaler'.pc = "waiting" /\ scaler'.stage = s
        /\ BroadcastDownstream(s)
    BY <2>1 DEF ScaleDownMap
  <2> QED
    BY <1>1, <2>2
<1>4. CASE BroadcastUpstream
  <2> DEFINE B == Broadcast("UpdateUpstream", scaler.stage + 1, <<Count(scaler.stage)>>)
  <2>1. /\ scaler.pc = "waiting" /\ AllUpdated
        /\ \A c \in calls' : c \in calls \/ c \in B \/ c \in Retire(scaler.pid)
    BY <1>4 DEF BroadcastUpstream
  <2>2. scaler.stage + 1 \in Int
    <3>1. scaler.stage \in Nat
      BY <1>s, <2>1, ConstTypes DEF ScalerTyped
    <3> QED
      BY <3>1
  <2>3. \A c \in B : c.kind = "UpdateUpstream"
    BY <2>2, BroadcastCalls
  <2>4. \A c \in Retire(scaler.pid) : c.kind # "UpdateDownstream"
    BY DEF Retire
  <2>5. \A c \in calls' : c.kind # "UpdateDownstream"
    BY <2>1, <2>3, <2>4 DEF AllUpdated
  <2> QED
    BY <2>5 DEF NoneOnItsWay, BroadcastCurrent, AllUpdated
<1>5. CASE Adds \/ ScalerStops
  <2>1. UNCHANGED calls /\ scaler.pc = "tick"
    BY <1>5 DEF Adds, ScaleUpStart, ScalerStops
  <2> QED
    BY <2>1 DEF NoneOnItsWay, BroadcastCurrent, AllUpdated
<1>6. CASE SameMap /\ UNCHANGED scaler /\ calls' \subseteq calls
  <2>1. NoneOnItsWay'
    BY <1>6 DEF NoneOnItsWay, AllUpdated
  <2>2. CASE scaler.pc # "waiting"
    BY <1>6, <2>2 DEF NoneOnItsWay, AllUpdated, BroadcastCurrent
  <2>3. CASE scaler.pc = "waiting"
    <3>1. PICK s \in Stages : s = scaler.stage
      BY <1>s, <2>3 DEF ScalerTyped
    <3>2. SortedWorkers(s)' = SortedWorkers(s)
      BY <1>6, SameLists
    <3>3. SortedWorkers(scaler.stage)' = SortedWorkers(scaler.stage)
      BY <1>6, <3>1, <3>2 DEF SortedWorkers
    <3> QED
      BY <1>6, <2>1, <3>3 DEF BroadcastCurrent
  <2> QED
    BY <2>1, <2>2, <2>3
<1>7. CASE ~Scaler
  <2>1. UNCHANGED scaler /\ calls' \subseteq calls
    BY <1>7, Frames DEF LeaderFrame, Scaler, Removes
  <2>2. SameMap
    <3>1. CASE \E r \in restarts : RestartMap(r)
      BY <3>1, RestartMapOp
    <3>2. CASE UNCHANGED GlobalTaskMap
      BY <3>2 DEF SameMap
    <3> QED
      BY <1>7, <3>1, <3>2, Frames DEF LeaderFrame, Scaler, Removes
  <2> QED
    BY <1>6, <2>1, <2>2
<1> QED
  BY <1>2, <1>3, <1>4, <1>5, <1>7 DEF Scaler, Adds, Removes

(* A list that a step does not touch stays right.                          *)
LEMMA RightKept ==
  ASSUME TypeInv, NEW v \in VMs, NEW k \in Keys, RoutesRight(v, k),
         rsTasks'[v][k] = 0 \/ rsTasks'[v][k] = rsTasks[v][k],
         \A i \in 1 .. Len(task) :
           /\ task'[i].log = task[i].log
           /\ task'[i].DownstreamList = task[i].DownstreamList,
         SortedWorkers(k[1] + 1)' = SortedWorkers(k[1] + 1),
         \A c \in calls : c.kind = "UpdateDownstream" => c \in calls'
  PROVE  RoutesRight(v, k)'
<1>1. CASE rsTasks'[v][k] = 0
  BY <1>1 DEF RoutesRight
<1>2. CASE rsTasks'[v][k] # 0
  <2>1. PICK i : i = rsTasks[v][k]
    OBVIOUS
  <2>2. i \in 1 .. Len(task) /\ rsTasks'[v][k] = i
    BY <1>2, <2>1 DEF TypeInv, NodesTyped, TasksTyped
  <2>3. Restarted(i)' <=> Restarted(i)
    BY <2>2 DEF Restarted
  <2> QED
    BY <2>1, <2>2, <2>3 DEF RoutesRight, Restarted
<1> QED
  BY <1>1, <1>2

(* Every step keeps RoutesInv.                                             *)
LEMMA NextRoutes ==
  ASSUME TypeInv, RouteInv, [Next]_vars
  PROVE  RoutesInv'
<1>l. losses \in Nat /\ losses' \in Nat /\ (losses' = 0 => losses = 0)
  BY CallSteps DEF RouteInv, RoutesInv
<1> SUFFICES ASSUME losses' = 0, NEW v \in VMs, NEW k \in Keys, k[1] < NumStages, Placed(v, k)'
             PROVE  RoutesRight(v, k)'
  BY <1>l DEF RoutesInv
<1>g. /\ TasksGrow /\ NodesTyped /\ ScalerTyped /\ Len(task) \in Nat
      /\ DOMAIN task = 1 .. Len(task) /\ losses = 0 /\ losses' # losses + 1
  BY <1>l, NextTasks DEF TypeInv, TasksGrow, TasksTyped
<1>k. k[1] \in Stages /\ k[2] \in Ids /\ k[1] + 1 \in Stages /\ k = <<k[1], k[2]>>
  BY ConstTypes DEF Keys, Stages
<1>h. Placed(v, k) => RoutesRight(v, k)
  BY <1>g DEF RouteInv, RoutesInv
<1>r. rsTasks[v][k] \in 0 .. Len(task)
  BY <1>g DEF NodesTyped
<1>p. ASSUME SameMap, UNCHANGED scaler
      PROVE  Placed(v, k) /\ SortedWorkers(k[1] + 1)' = SortedWorkers(k[1] + 1)
  <2>1. SortedWorkers(k[1] + 1)' = SortedWorkers(k[1] + 1)
    BY <1>k, <1>p, SameLists
  <2>2. CASE k \in Mapped' /\ GlobalTaskMap'[k[1]][k[2]].vm = v
    BY <1>k, <1>p, <2>1, <2>2 DEF SameMap, Mapped, Placed
  <2>3. CASE /\ scaler'.pc = "map" /\ k = <<scaler'.stage, NewId(scaler.stage)'>>
             /\ task'[scaler'.pid].vm = v
    <3>1. PICK s \in Stages : s = scaler.stage
      BY <1>g, <1>p, <2>3 DEF ScalerTyped
    <3>2. NewId(scaler.stage)' = NewId(scaler.stage)
      BY <1>p, <3>1, SameLists DEF NewId, MaxId
    <3>3. scaler.pid \in 1 .. Len(task)
      BY <1>g, <1>p, <2>3 DEF ScalerTyped, ScalerRec
    <3>4. task'[scaler.pid].vm = task[scaler.pid].vm
      BY <1>g, <3>3 DEF TasksGrow, SameTask
    <3> QED
      BY <1>p, <2>1, <2>3, <3>2, <3>4 DEF Placed
  <2> QED
    BY <2>2, <2>3 DEF Placed
<1>1. ASSUME NEW c \in calls, UpdateDownstream(c) PROVE RoutesRight(v, k)'
  <2>1. UNCHANGED <<rsTasks, scaler, GlobalTaskMap>>
    BY <1>1 DEF UpdateDownstream, workerVars, leaderVars
  <2>2. /\ c.kind = "UpdateDownstream" /\ calls' = calls \ {c} /\ TasksStay
        /\ \A j \in 1 .. Len(task) :
             task'[j].DownstreamList = IF j \in TasksOn(c.vm, c.stage)
                                       THEN c.arg ELSE task[j].DownstreamList
    BY <1>1, UpdateDownstreamOp
  <2>3. Placed(v, k) /\ SortedWorkers(k[1] + 1)' = SortedWorkers(k[1] + 1)
    BY <1>p, <2>1 DEF SameMap
  <2>4. PICK i : i = rsTasks[v][k]
    OBVIOUS
  <2>5. SUFFICES ASSUME i # 0, ~Restarted(i)' PROVE RoutesRight(v, k)'
    BY <2>1, <2>4 DEF RoutesRight
  <2>6. i \in 1 .. Len(task)
    BY <1>g, <1>r, <2>4, <2>5
  <2>7. ~Restarted(i)
    BY <2>2, <2>5, <2>6 DEF TasksStay, SameTask, Restarted
  <2>8. CASE c.vm = v /\ c.stage = k[1]
    <3>1. i \in TasksOn(c.vm, c.stage)
      BY <1>k, <2>4, <2>5, <2>8 DEF TasksOn
    <3>2. k[1] + 1 = scaler.stage /\ c.arg = SortedWorkers(k[1] + 1)
      <4>1. c.stage = scaler.stage - 1 /\ c.arg = SortedWorkers(scaler.stage)
        BY <2>2 DEF RouteInv, BroadcastCurrent
      <4>2. scaler.stage \in 0 .. NumStages /\ k[1] \in Nat
        BY <1>g, <1>k, ConstTypes DEF ScalerTyped, ScalerRec
      <4>3. k[1] + 1 = scaler.stage
        BY <2>8, <4>1, <4>2, ConstTypes
      <4> QED
        BY <4>1, <4>3
    <3>3. task'[i].DownstreamList = SortedWorkers(k[1] + 1)'
      BY <2>2, <2>3, <2>6, <3>1, <3>2
    <3> QED
      BY <2>1, <2>4, <3>3 DEF RoutesRight
  <2>9. CASE ~(c.vm = v /\ c.stage = k[1])
    <3>1. i \notin TasksOn(c.vm, c.stage)
      <4>1. c.vm \in VMs /\ c.stage \in Stages
        BY DEF TypeInv, CallsTyped, CallFits
      <4>2. task[i].stage = k[1] /\ task[i].vm = v
        BY <2>4, <2>5 DEF RouteInv, Registered
      <4>3. \A t \in Ids : rsTasks[c.vm][<<c.stage, t>>] = i =>
              task[i].stage = c.stage /\ task[i].vm = c.vm
        <5> SUFFICES ASSUME NEW t \in Ids, rsTasks[c.vm][<<c.stage, t>>] = i
                     PROVE  task[i].stage = c.stage /\ task[i].vm = c.vm
          OBVIOUS
        <5>1. PICK x \in Keys : x = <<c.stage, t>>
          BY <4>1 DEF Keys
        <5>2. rsTasks[c.vm][x] = i /\ x[1] = c.stage
          BY <5>1
        <5> QED
          BY <2>5, <4>1, <5>2 DEF RouteInv, Registered
      <4> QED
        BY <2>9, <4>2, <4>3 DEF TasksOn
    <3>2. task'[i].DownstreamList = task[i].DownstreamList
      BY <2>2, <2>6, <3>1
    <3>3. RoutesRight(v, k)
      BY <1>h, <2>3
    <3>4. CASE task[i].DownstreamList = SortedWorkers(k[1] + 1)
      BY <2>1, <2>3, <2>4, <3>2, <3>4 DEF RoutesRight
    <3>5. CASE \E x \in calls : x.kind = "UpdateDownstream" /\ x.stage = k[1] /\ x.vm = v
      <4>1. PICK x \in calls : x.kind = "UpdateDownstream" /\ x.stage = k[1] /\ x.vm = v
        BY <3>5
      <4>2. x \in calls'
        BY <2>2, <2>9, <4>1
      <4> QED
        BY <4>1, <4>2 DEF RoutesRight
    <3> QED
      BY <2>4, <2>5, <2>7, <3>3, <3>4, <3>5 DEF RoutesRight
  <2> QED
    BY <2>8, <2>9
<1> DEFINE Kept == \A c \in calls : c.kind = "UpdateDownstream" => c \in calls'
<1>2. ASSUME NEW s \in Stages, ScaleUpStart(s) PROVE RoutesRight(v, k)'
  <2>1. PICK i : i = Len(task) + 1
    OBVIOUS
  <2>2. PICK w : w = LeastLoadedWorker
    OBVIOUS
  <2>3. PICK t : t = NewId(s)
    OBVIOUS
  <2>4. /\ Starts(s, t, w, i, Downstreams(s)) /\ w \in VMs /\ t \in Ids
        /\ scaler' = [pc |-> "map", stage |-> s, op |-> "up", pid |-> i]
    BY <1>2, <1>g, <2>1, <2>2, <2>3, ScaleUpStartOp
  <2>5. UNCHANGED <<GlobalTaskMap, calls>>
    BY <1>2 DEF ScaleUpStart, leaderVars
  <2>6. SortedWorkers(k[1] + 1)' = SortedWorkers(k[1] + 1)
    BY <2>5 DEF SortedWorkers
  <2>7. /\ rsTasks' = [rsTasks EXCEPT ![w][<<s, t>>] = i] /\ task'[i].vm = w
        /\ task'[i].DownstreamList = Downstreams(s)
        /\ \A j \in 1 .. Len(task) : task'[j] = task[j]
    BY <2>1, <2>4 DEF Starts
  <2>8. \A x \in VMs, y \in Keys : rsTasks'[x][y] =
          IF x = w /\ y = <<s, t>> THEN i ELSE rsTasks[x][y]
    BY <1>g, <2>4, <2>7 DEF NodesTyped, Keys
  <2>9. CASE v = w /\ k = <<s, t>>
    <3>1. k[1] = s /\ Downstreams(s) = SortedWorkers(s + 1)
      BY <2>9, DownstreamsType
    <3>2. rsTasks'[v][k] = i
      BY <2>8, <2>9
    <3> QED
      BY <2>6, <2>7, <3>1, <3>2 DEF RoutesRight
  <2>10. CASE ~(v = w /\ k = <<s, t>>)
    <3>1. rsTasks'[v][k] = rsTasks[v][k]
      BY <2>8, <2>10
    <3>2. NewId(s)' = t
      BY <2>3, <2>5 DEF NewId, MaxId
    <3>3. NewId(scaler.stage)' = t
      BY <2>4, <3>2 DEF NewId, MaxId
    <3>4. Placed(v, k)
      BY <2>4, <2>5, <2>7, <2>10, <3>3 DEF Placed, Mapped
    <3> QED
      BY <1>h, <2>5, <2>6, <2>7, <3>1, <3>4, RightKept
  <2> QED
    BY <2>9, <2>10
<1>3. ASSUME NEW s \in Stages, BroadcastDownstream(s), scaler.pc # "waiting",
             scaler.pc = "map" => scaler.stage = s, UNCHANGED <<task, rsTasks>>, Placed(v, k),
             \A r \in Stages : r # s => GlobalTaskMap'[r] = GlobalTaskMap[r]
      PROVE  RoutesRight(v, k)'
  <2>1. PICK l : l = Workers(GlobalTaskMap'[s])
    OBVIOUS
  <2>2. calls' = calls \cup Broadcast("UpdateDownstream", s - 1, l)
    BY <1>3, <2>1 DEF BroadcastDownstream
  <2>3. CASE k[1] + 1 # s
    <3>1. SortedWorkers(k[1] + 1)' = SortedWorkers(k[1] + 1)
      BY <1>3, <1>k, <2>3 DEF SortedWorkers
    <3> QED
      BY <1>3, <1>h, <2>2, <3>1, RightKept
  <2>4. CASE k[1] + 1 = s
    <3>1. k[1] = s - 1
      BY <1>k, <2>4, ConstTypes
    <3>2. CASE k \in Mapped /\ GlobalTaskMap[k[1]][k[2]].vm = v
      <4>1. PICK c : c = Call("UpdateDownstream", k[1], k[2], l)
        OBVIOUS
      <4>2. c \in calls'
        BY <1>k, <2>2, <3>1, <3>2, <4>1 DEF Broadcast, Mapped
      <4>3. c.kind = "UpdateDownstream" /\ c.stage = k[1] /\ c.vm = v
        BY <3>2, <4>1 DEF Call
      <4> QED
        BY <4>2, <4>3 DEF RoutesRight
    <3>3. CASE scaler.pc = "map" /\ k = <<scaler.stage, NewId(scaler.stage)>>
      <4>1. k[1] = s
        BY <1>3, <3>3
      <4> QED
        BY <2>4, <4>1, ConstTypes
    <3> QED
      BY <1>3, <3>2, <3>3 DEF Placed
  <2> QED
    BY <2>3, <2>4
<1>4. CASE ScaleUpMap
  <2>1. PICK s \in Stages : s = scaler.stage
    BY <1>4, <1>g DEF ScalerTyped, ScaleUpMap
  <2>2. PICK n \in Nat \ {0}, e \in InfoRec :
          /\ n = NewId(s) /\ e.vm = task[scaler.pid].vm /\ MapGrows(s, n, e)
          /\ scaler.pc = "map" /\ scaler' = [scaler EXCEPT !.pc = "waiting"]
    BY <1>4, <2>1, ScaleUpMapOp
  <2>3. BroadcastDownstream(s) /\ UNCHANGED <<task, rsTasks>>
    BY <1>4, <2>1 DEF ScaleUpMap, workerVars
  <2>4. scaler'.pc = "waiting"
    BY <1>g, <2>2 DEF ScalerTyped
  <2>5. k \in Mapped' /\ GlobalTaskMap'[k[1]][k[2]].vm = v
    BY <2>4 DEF Placed
  <2>6. k[2] \in DOMAIN GlobalTaskMap'[k[1]]
    BY <2>5 DEF Mapped
  <2>7. \A r \in Stages : r # s => GlobalTaskMap'[r] = GlobalTaskMap[r]
    BY <2>2 DEF MapGrows
  <2>8. Placed(v, k)
    <3>1. CASE k[1] = s /\ k[2] = n
      <4>1. GlobalTaskMap'[k[1]][k[2]] = e
        BY <2>2, <3>1 DEF MapGrows
      <4> QED
        BY <1>k, <2>1, <2>2, <2>5, <3>1, <4>1 DEF Placed
    <3>2. CASE ~(k[1] = s /\ k[2] = n)
      <4>1. /\ k[2] \in DOMAIN GlobalTaskMap[k[1]]
            /\ GlobalTaskMap'[k[1]][k[2]] = GlobalTaskMap[k[1]][k[2]]
        BY <1>k, <2>2, <2>6, <3>2 DEF MapGrows
      <4> QED
        BY <2>5, <4>1 DEF Placed, Mapped
    <3> QED
      BY <3>1, <3>2
  <2> QED
    BY <1>3, <2>1, <2>2, <2>3, <2>7, <2>8
<1>5. CASE Removes
  <2>1. PICK s \in Stages : ScaleDownMap(s)
    BY <1>5 DEF Removes
  <2>2. PICK n \in Nat \ {0, 1} :
          MapShrinks(s, n) /\ scaler.pc = "tick" /\ scaler'.pc = "waiting"
    BY <2>1, ScaleDownMapOp
  <2>3. BroadcastDownstream(s) /\ UNCHANGED <<task, rsTasks>>
    BY <2>1 DEF ScaleDownMap, workerVars
  <2>4. k \in Mapped' /\ GlobalTaskMap'[k[1]][k[2]].vm = v
    BY <2>2 DEF Placed
  <2>5. k[2] \in DOMAIN GlobalTaskMap'[k[1]]
    BY <2>4 DEF Mapped
  <2>6. /\ k[2] \in DOMAIN GlobalTaskMap[k[1]]
        /\ GlobalTaskMap'[k[1]][k[2]] = GlobalTaskMap[k[1]][k[2]]
    BY <1>k, <2>2, <2>5 DEF MapShrinks
  <2>7. Placed(v, k)
    BY <2>4, <2>6 DEF Placed, Mapped
  <2>8. \A r \in Stages : r # s => GlobalTaskMap'[r] = GlobalTaskMap[r]
    BY <2>2 DEF MapShrinks
  <2> QED
    BY <1>3, <2>2, <2>3, <2>7, <2>8
<1>6. CASE BroadcastUpstream \/ ScalerStops
  <2>1. UNCHANGED <<task, rsTasks, GlobalTaskMap>> /\ calls \subseteq calls'
    BY <1>6 DEF BroadcastUpstream, ScalerStops, workerVars, leaderVars
  <2>2. scaler'.pc # "map"
    BY <1>6, <1>g DEF BroadcastUpstream, ScalerStops, Tick, ScalerTyped, ScalerRec
  <2>3. Placed(v, k)
    BY <2>1, <2>2 DEF Placed, Mapped
  <2>4. SortedWorkers(k[1] + 1)' = SortedWorkers(k[1] + 1)
    BY <2>1 DEF SortedWorkers
  <2> QED
    BY <1>h, <2>1, <2>3, <2>4, RightKept
<1>7. ASSUME NEW r \in restarts, Restart(r) PROVE RoutesRight(v, k)'
  <2>1. PICK i : i = Len(task) + 1
    OBVIOUS
  <2>2. /\ Starts(r.stage, r.id, r.info.vm, r.info.log, r.info.down) /\ r.info.vm \in VMs
        /\ r.stage \in Stages /\ r.id \in Ids /\ r.info.log \in 1 .. Len(task)
    BY <1>7, RestartOp
  <2>3. /\ rsTasks' = [rsTasks EXCEPT ![r.info.vm][<<r.stage, r.id>>] = i]
        /\ task'[i].log = r.info.log /\ \A j \in 1 .. Len(task) : task'[j] = task[j]
    BY <2>1, <2>2 DEF Starts
  <2>4. UNCHANGED <<GlobalTaskMap, scaler, calls>>
    BY <1>7 DEF Restart, leaderVars
  <2>5. Placed(v, k) /\ SortedWorkers(k[1] + 1)' = SortedWorkers(k[1] + 1)
    BY <1>p, <2>4 DEF SameMap
  <2>6. rsTasks'[v][k] = i \/ rsTasks'[v][k] = rsTasks[v][k]
    BY <1>g, <2>2, <2>3 DEF NodesTyped, Keys
  <2>7. CASE rsTasks'[v][k] = i
    <3>1. Restarted(i)'
      BY <1>g, <2>1, <2>2, <2>3 DEF Restarted
    <3> QED
      BY <2>7, <3>1 DEF RoutesRight, Restarted
  <2>8. CASE rsTasks'[v][k] = rsTasks[v][k]
    BY <1>h, <2>3, <2>4, <2>5, <2>8, RightKept
  <2> QED
    BY <2>6, <2>7, <2>8
<1>8. CASE ~Scaler /\ ~Restarts /\ ~\E c \in calls : UpdateDownstream(c)
  <2>1. SameMap
    <3>1. CASE \E r \in restarts : RestartMap(r)
      BY <3>1, RestartMapOp
    <3>2. CASE UNCHANGED GlobalTaskMap
      BY <3>2 DEF SameMap
    <3> QED
      BY <1>8, <3>1, <3>2, Frames DEF LeaderFrame, Scaler, Removes
  <2>2. UNCHANGED scaler
    BY <1>8, Frames DEF LeaderFrame
  <2>3. Placed(v, k) /\ SortedWorkers(k[1] + 1)' = SortedWorkers(k[1] + 1)
    BY <1>p, <2>1, <2>2
  <2>4. \A i \in 1 .. Len(task) :
          task'[i].log = task[i].log /\ task'[i].DownstreamList = task[i].DownstreamList
    BY <1>8, TaskSteps DEF Scaler, Restarts, TasksStay, ListsStay, SameTask
  <2>5. rsTasks'[v][k] = 0 \/ rsTasks'[v][k] = rsTasks[v][k]
    <3>1. ASSUME NEW c \in calls, KillTask(c)
          PROVE  rsTasks'[v][k] = 0 \/ rsTasks'[v][k] = rsTasks[v][k]
      <4>1. c.vm \in VMs /\ <<c.stage, c.id>> \in Keys
        BY DEF TypeInv, CallsTyped, CallFits, Keys
      <4> QED
        BY <1>g, <3>1, <4>1 DEF KillTask, NodesTyped
    <3> QED
      BY <1>8, <3>1, Frames DEF NodeFrame, Scaler, Adds
  <2>6. Kept
    BY <1>8, <1>g, CallSteps
  <2> QED
    BY <1>h, <2>3, <2>4, <2>5, <2>6, RightKept
<1> QED
  BY <1>1, <1>2, <1>4, <1>5, <1>6, <1>7, <1>8 DEF Scaler, Removes, Restarts

(* Initially the tasks route by the plan.                                  *)
LEMMA InitRoutes == Init => RouteInv
<1> SUFFICES ASSUME Init PROVE RouteInv
  OBVIOUS
<1>1. TypeInv
  BY InitTypes
<1>i. /\ calls = {} /\ scaler.pc = "tick" /\ losses = 0
  BY DEF Init
<1>2. ASSUME NEW v \in VMs, NEW k \in Keys, rsTasks[v][k] # 0
      PROVE  /\ task[rsTasks[v][k]].stage = k[1] /\ task[rsTasks[v][k]].id = k[2]
             /\ task[rsTasks[v][k]].vm = v
             /\ k[1] < NumStages => task[rsTasks[v][k]].DownstreamList = SortedWorkers(k[1] + 1)
  <2>1. k[1] \in Stages /\ k[2] \in Nat
    BY ConstTypes DEF Keys
  <2>2. k[2] < NumTasks /\ PlanVM(k[1], k[2]) = v /\ rsTasks[v][k] = PlanPID(k[1], k[2])
    BY <1>2 DEF Init
  <2>3. PICK t \in 0 .. NumTasks - 1 : t = k[2]
    BY <2>1, <2>2, ConstTypes
  <2>4. PICK i \in 1 .. Len(task) : i = PlanPID(k[1], t)
    BY <2>1, InitTasks, PlanFacts
  <2>5. PICK s \in Stages, u \in 0 .. NumTasks - 1 :
              /\ i = PlanPID(s, u) /\ task[i].stage = s /\ task[i].id = u
              /\ task[i].vm = PlanVM(s, u) /\ task[i].DownstreamList = Plan(s + 1)
    BY InitTasks
  <2>6. s = k[1] /\ u = t
    <3>1. /\ (i - 1) \div NumTasks + 1 = s /\ (i - 1) % NumTasks = u
      BY <2>5, PlanFacts
    <3>2. /\ (i - 1) \div NumTasks + 1 = k[1] /\ (i - 1) % NumTasks = t
      BY <2>1, <2>4, PlanFacts
    <3> QED
      BY <3>1, <3>2
  <2>7. CASE k[1] < NumStages
    <3>1. PICK r \in Stages : r = k[1] + 1
      BY <2>1, <2>7, ConstTypes DEF Stages
    <3>2. /\ Plan(k[1] + 1) = [n \in 1 .. NumTasks |-> PlanVM(r, n - 1)]
      BY <3>1 DEF Plan
    <3>3. /\ DOMAIN GlobalTaskMap[r] = 0 .. NumTasks - 1
          /\ \A n \in 0 .. NumTasks - 1 : GlobalTaskMap[r][n].vm = PlanVM(r, n)
      BY InitMap
    <3>4. Workers(GlobalTaskMap[r]) = [n \in 1 .. NumTasks |-> GlobalTaskMap[r][n - 1].vm]
      BY <3>3, WorkersInOrder, ConstTypes
    <3>5. \A n \in 1 .. NumTasks : n - 1 \in 0 .. NumTasks - 1
      BY ConstTypes
    <3>6. \A n \in 1 .. NumTasks : GlobalTaskMap[r][n - 1].vm = PlanVM(r, n - 1)
      BY <3>3, <3>5
    <3>7. SortedWorkers(r) = Plan(k[1] + 1)
      BY <3>2, <3>4, <3>6 DEF SortedWorkers
    <3> QED
      BY <2>2, <2>3, <2>4, <2>5, <2>6, <3>1, <3>7
  <2> QED
    BY <2>2, <2>3, <2>4, <2>5, <2>6, <2>7
<1>3. Registered
  BY <1>2 DEF Registered
<1>4. NoneOnItsWay /\ BroadcastCurrent
  BY <1>i DEF NoneOnItsWay, BroadcastCurrent, AllUpdated
<1>5. RoutesInv
  BY <1>2, <1>i DEF RoutesInv, RoutesRight
<1> QED
  BY <1>3, <1>4, <1>5 DEF RouteInv

(* RoutesCurrent is what RouteInv says when no scaling is going on.        *)
LEMMA RoutesFollow == TypeInv /\ RouteInv => RoutesCurrent
<1> SUFFICES ASSUME TypeInv, RouteInv, losses = 0, scaler.pc = "tick", NEW k \in Keys,
                    k[1] < NumStages, k[2] \in DOMAIN GlobalTaskMap[k[1]],
                    NEW i, i = rsTasks[GlobalTaskMap[k[1]][k[2]].vm][k], i # 0, ~Restarted(i)
             PROVE  task[i].DownstreamList = SortedWorkers(k[1] + 1)
  BY DEF RoutesCurrent
<1>1. k[1] \in Stages
  BY DEF Keys
<1>2. PICK v : v = GlobalTaskMap[k[1]][k[2]].vm
  OBVIOUS
<1>3. v \in VMs
  <2>1. InfoFits(GlobalTaskMap[k[1]][k[2]], k[1])
    BY <1>1 DEF TypeInv, MapTyped
  <2> QED
    BY <1>2, <2>1 DEF InfoFits, InfoRec
<1>4. RoutesRight(v, k)
  BY <1>2, <1>3 DEF RouteInv, RoutesInv, Placed, Mapped
<1>5. \A c \in calls : c.kind # "UpdateDownstream"
  BY DEF RouteInv, NoneOnItsWay, AllUpdated
<1> QED
  BY <1>2, <1>4, <1>5 DEF RoutesRight

(* Every step keeps RouteInv.                                              *)
LEMMA NextRoute == TypeInv /\ RouteInv /\ [Next]_vars => RouteInv'
BY NextRegistered, NextBroadcast, NextRoutes DEF RouteInv

(* Between two scalings every registered task that was not restarted       *)
(* routes by the current list of the next stage, as long as no call of the *)
(* scaler was lost: the monitor waits for the updates it broadcasts, and a *)
(* task that is started meanwhile gets the list of the map.                *)
THEOREM RoutesAreCurrent == Spec => []RoutesCurrent
<1>1. Init => RouteInv
  BY InitRoutes
<1>2. TypeInv /\ RouteInv /\ [Next]_vars => RouteInv'
  BY NextRoute
<1>3. TypeInv /\ RouteInv => RoutesCurrent
  BY RoutesFollow
<1> QED
  BY <1>1, <1>2, <1>3, TypesHold, PTL DEF Spec
=============================================================================
