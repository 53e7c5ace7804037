# A TLA+ model of RainStorm, HyDFS and their failure detector

The repository is a stream processing system (RainStorm) on top of a replicated
file system (HyDFS) on top of a gossip/ping failure detector, written in Go. This
directory holds TLA+ modules translated from the source, TLC runs on small
instances, and theorems checked by TLAPS for all instances.

`PROJECT.json` lists the components, the runs, the mutants that show that each
property can fail, the source lines behind each definition, the disagreements
between code and documentation, the hazards and the theorems.

## 1. The system

| Component | State | Operations | Source |
|---|---|---|---|
| Pipeline | `RainStormTask` per task (process, pipes, `ProcessedIDs`, `SeqNum`, `EOSCount`, `Lock`), `rsTasks`, `TaskPidMap`, dedup logs and output file in HyDFS, leader's `FinishedTasks` and `GlobalTaskMap` | `StartSource`, `PushTuple`, `handleTaskOutput`, `replayLogData`, `TaskFinished`, `StartTask`, `KillTask` | `node/node_stream.go`, `utils/stream_utils.go`, `ops/` |
| HyDFS | per replica: data file, operation log, `FileMetadata.lock` | create, append, multiappend, get, merge | `node/node.go`, `demo/demo.go` |
| Ring | none; computed from the member list at each use | `GetReplica`, `GetSuccessor`, `GetRingInfo` | `utils/utils.go` |
| Membership | member list, protocol, suspicion, round robin list, `ackchan` | join, ping/ack, gossip, timeout, switch, leave | `node/node.go`, `node/membership_crud.go` |
| Autoscaler | `TaskRates`, `GlobalTaskMap`, `TotalTasks`; per task `DownstreamList` and `NumUpstream` | `UpdateRate`, `monitorAutoscale`, `scaleUp`, `scaleDown`, `UpdateDownstream`, `UpdateUpstream`, `ProcessOrphanLog` | `node/node_autoscale.go`, `node/node_stream.go` |
| Others | commands, log querier, loggers, scripts | | `demo/`, `mp4_main/`, `distributed_log_querier/`, `streamlog/`, `vmlog/`, `scripts/` |

How they interact. The leader (VM1) starts a job: it creates a dedup log per task
and the output file in HyDFS, starts the tasks by RPC and starts the source. A task
is an operator process fed through its stdin by `PushTuple` and read by
`handleTaskOutput`. Every tuple is sent by a goroutine that retries until it is
acknowledged; a task appends the tuple's id to its dedup log in HyDFS before it
feeds the operator. End of stream is one EOS from each upstream task. A task that
ends before all EOSs came is reported to the leader, which starts it again; the new
process loads the dedup log and replays it. With autoscaling, tasks report their
rates to the leader, whose monitor adds a task to a busy stage or removes the last
task of an idle one, tells the stages around it, kills the removed task and has its
dedup log replayed by task 0 of the stage; tuples are routed anew on every retry, by
the list of then. HyDFS calls find the replicas of a file
by hashing it on a ring made from the local member list, which the failure detector
maintains over UDP.

What is hard. Pushes, replay, output and EOS of one task run concurrently under one
mutex; processes are killed between any two of their steps; replies and reports get
lost; HyDFS calls fail halfway; merges run beside appends that are being fanned out;
datagrams are lost, delayed and reordered. What makes each part correct:

* pipeline: exactly-once output, write-ahead of the dedup log, no close before the
  last data, a true completion report, eventual completion;
* autoscaler: the index in a list of workers is the task id that the index is used
  as, tasks route by the current list, no tuple is lost or stuck while the number of
  tasks changes;
* HyDFS: an acknowledged write is never lost by a merge, gets see it, merges
  converge, calls return, a create wins once;
* ring: three nearest nodes clockwise, minimal movement, distinct machines;
* membership: nobody outruns a node's own incarnation, verdicts are not taken back
  by stale news, a node does not doubt itself, crashes are detected.

## 2. Modules

**Stream** (`MCStream`, `StreamProofs`, `StreamControlProofs`, `StreamOutputProofs`). `task` is indexed by *instances*, i.e. the
successive processes of a task, so an old process's calls may still be under way
when its successor runs, as with the pointer that `PushTuple` looks up. `pushes`
holds one record per sending goroutine; `PushLookup`, `PushFresh`, `PushLog`,
`PushWrite` are the places between which `PushTuple` can be interleaved: after the
look-up, with `task.Lock` held during the HyDFS append, and during the write to the
pipe. Pipes are bounded (`PipeCap`), a full one blocks. `Answer` is a reply that
arrives or is lost. `HandleOutput` takes `task.Lock` only for `SeqNum++`; the append
or the start of the goroutine that follows is part of the action, because no other
process can observe a state in between (one handler per instance, and the output is
only appended to). `KillTask` is two actions, the kill and the clean-up of the maps,
because the restart may come in between. A tuple's value is the number of its line;
operators pass or drop it.
Abstracted: rates and tickers, log files, the VM on which a task runs. Not modelled:
failures while the job starts (`Init` is a started job), failure of a worker VM or
of the leader, an RPC of the leader that fails to restart a task (the model may
just never take that step), `KillTask` of a process that had already exited.

**Pipeline** is what a job promises: lines are read in order, every line that passes
all operators is written once and after it was read, nothing is written after the
completion, and the job gets that far. Stream maps its state to it by
`read <- source.seq`, `out <- output`, `done <- Completed`; `ImplementsPipeline`
(run StreamBase) says that the failure-free pipeline, its fairness included, is such
a job. After a kill it is not (`StreamKillExactlyOnce`).

**Autoscale** (`MCAutoscale`, `AutoscaleProofs`, `AutoscaleGrowProofs`). The
composition of the autoscaler with the pipeline.
What Stream shows in detail is coarser here: `PushTuple` under `task.Lock` is one
step, and so are the operator and its output handler. What Stream keeps constant
varies: `task` is a sequence that grows with every `StartTask` (its index is the
PID), the stages' tasks are in `GlobalTaskMap`, every task has its own
`DownstreamList` and `NumUpstream`, and a push is routed (`SendTuple`) before each
call. The goroutine of the monitor goes through `tick`, `map` and `waiting`: between
`StartTask` and the entry in the map, and while it waits for the `UpdateDownstream`
calls, everything else runs. Calls of the scaler are records in `calls`, handled in
any order; an error of theirs is ignored by the code, so a call may be lost.
`UpdateRate` is two steps, because it looks at the map and stores the rate under
different locks. Rates are chosen from `Rates`, at most `MaxReports` times, instead
of being counted: the source streams for long, of which the model shows a few
tuples; the cooldown then only delays. The monitor's loop may scale any eligible
stage: a rate that is stored behind it counts in the next tick.
A call of `PushTuple` may end with an error at its caller although it is served: after
`PushGivenUp` the caller sends again, a data tuple by the list of then
(`sendTupleWithDynamicRouting`, `sendSourceTuple`), and the call that it gave up
stays as a push of its own (`late`) that the task may still serve, before or after the
second one, or never; nobody reads its answer. Not modelled: failing HyDFS calls and
dying processes other than by `KillTask` (Stream has them), dying workers.

**HyDFS** (`MCHyDFS`, `HyDFSProofs`). One file, `ReplicaNum`
replicas, and client commands with their calls. What a replica does under its lock is one step; the lock is a variable
only because `MergeFile` keeps it across calls and because `AppendFile` loses it on
two error returns: to a file that is missing (`WriteRefused`) or that cannot be opened
(`WriteError`). A call of a fan-out whose caller has seen an error may still wait at
the replica; it is `late` and served by `FanOutLate`. Chunks are named by the operation that wrote them, `OpID`s are
ordered by operation number, and since operations start in any order every order of
clocks is covered. The unsynchronised `err` of `MergeFile` is a nondeterministic
choice in `MergeBuild`. `ScanLog` stops at a line longer than `MaxToken` chunks, as
`bufio.Scanner` does at 64 KB. Not modelled: different member lists at different
nodes, a reply of the first replica to its client that is lost (the client would not
count the write as acknowledged), a log line that was written only in part.

**Ring** (`MCRing`, `RingProofs`). `GetReplica` as an operator, over every member list that adding
and deleting entries reaches, compared with a reference definition by clockwise
distance. Hashes are assumed to be different.

**Membership** (`MCMembership`, `MembershipProofs`). Lists, modes and datagrams in
flight. Time is left out: what the code does after a timeout it may do at any time,
since datagrams and goroutines may be delayed without bound. Receiving a datagram,
updating the list and answering is one step, likewise a heart beat and its gossip:
the real answer may carry news of a later datagram, which an answer to that later
datagram shows as well. The round robin list is kept as the set of its members: the
order in which it is used up is arbitrary here, fixed by a shuffle in the code. Only
one ping of a member is under way at a time.

## 3. Runs

| Run | Checks | Bounds, and why they are enough |
|---|---|---|
| StreamBase | ExactlyOnce, ClosedAfterData, JobCompletes, ImplementsPipeline (fair) | 2 stages x 2 tasks, 3 lines, one filtered: both tasks of a stage get data, each stage 2 task waits for two EOSs |
| StreamRestart | TypeOK, NoDuplicateOutput, AckedIsLogged, AckedIsRemembered, ClosedAfterData, CompletionSound | 2 stages, 1 line, in either stage one kill or crash, 1 loss, 1 HyDFS failure: a retried tuple or EOS meets the old or the new process, a retry follows a failed append |
| HyDFSMerge | AckedEverywhere, GetReturnsAcked, NoDuplicateChunk, MergeConverges, LockOwned | 3 replicas, 3 operations: an append or a get between and beside two merges, 1 failing, late or leaking write or get |
| HyDFSMultiAppend | AckedAtPrimary, CallsReturn (fair) | 2 replicas, 3 operations, appends starting at any replica, 1 failing call of a merge: two lock holders and a third call are enough for a circle |
| HyDFSCreate | TypeOK, CreateOnce, LockOwned | 3 operations among create, append, get; 1 failure |
| Ring | NearestClockwise, OneReplicaMoves | 8 ids on 16 positions: every member list, every file position |
| MembershipGossip | TypeOK, OwnerAhead, VerdictsStand | 2 nodes, 1 datagram in flight, incarnation and heart beat up to 1; the proofs cover any number |
| MembershipPing | SelfAlive, Detected (fair) | 2 nodes, 1 crash, suspicion switched on at any time |
| AutoscaleSafety | TypeOK, IndexIsTaskID, RoutesCurrent, NoLossWhileGrowing, NoDuplicateWhileGrowing | 2 stages of 1 task, 2 workers, 1 line, 1 task added and 1 removed in either stage, 1 restart; while the job grows 1 call of the scaler lost or 1 push given up: the tuple meets every step of both scalings at either stage |
| AutoscaleDrains | Drains (fair) | stage 2 grows and shrinks while 1 line travels, 1 lost call or 1 push given up: the push, and the one that replaces it, meet the removed task in every state |

Deadlock checking is off where the system may really stop: `StreamRestart` (a lost report, or a restarted task whose registration `KillTask`
removed, leaves the job incomplete for ever), `HyDFSCreate` and `HyDFSMerge` (an append
to a missing file, or one that cannot open it, leaves the lock taken), the Autoscale runs (an EOS for a removed task is
never taken). In `HyDFSMultiAppend` the clients stop.

Named bounds: `MaxKills`, `MaxLosses`, `MaxFails`, `MaxLog` (a sender stops retrying
against a task that cannot take its tuple once the dedup log is that long: otherwise
the log would grow for ever), `NumOps`, `MaxWriteFails`, `MaxMergeFails`, `MaxInc`,
`MaxHB`, `MaxMsgs` (a datagram that would exceed it is lost), `MaxCrashes`, `MaxUps`,
`MaxDowns`, `MaxRestarts`, `MaxReports`; in Autoscale too `MaxLog` ends the retries
against a task that refuses every tuple. There `MaxLosses` bounds the lost calls of
the scaler and the pushes given up together. AutoscaleSafety has a state constraint
besides, `MCLossesWhileGrowing`: a call is lost or given up only while no task has
been removed and with at most one rate report, which is all that growing takes. The
three properties that a loss concerns need no more: `RoutesCurrent` speaks of no lost
call, the other two of no removed task; the proofs know no such bound.

Fairness. Stream: weak fairness of each goroutine and each process, which the Go and
OS schedulers give; failures are never forced. HyDFS: strong fairness of each
command, since a waiter of a `sync.Mutex` is not starved (starvation mode) although
the lock may be taken by others in between. Membership: the heart beat routine pings
every listed member in turn, a ping ends by its timer, and `TimeOutCheck` comes back
to every entry. Message delivery is never assumed. Autoscale: weak fairness of the
monitor, of each push, each task, the replays and of the calls on their way, which
TCP delivers or reports as failed; nobody is obliged to report a rate.

### Where the code disagrees with its documentation

Two runs show a violation of what the README or a comment promises:

* `StreamKillExactlyOnce`: killing a stage 1 task changes the output (Test 2);
* `AutoscaleAtLeastOnce`: scale-down loses a tuple ("Prevent data loss by scale
  down"). A tuple is on its way to the last task of stage 1 when that task is removed
  from the map. Its log is read for the survivor, then it takes, logs and
  acknowledges the tuple, then it is killed with the tuple in its stdin.

The same modules show more when the constants of a passing run are changed:

* no all-or-nothing (comment at node.go:675): a write that failed at one replica is
  reported as failed but stays in the data and the log of the others, and the next
  merge spreads it;
* a leaked lock: with `Created = FALSE`, or with `MaxWriteFails = 1`, and appends among
  the commands `CallsReturn` fails: `AppendFile` to a file that is missing (node.go:521)
  or cannot be opened (node.go:528) returns without unlocking, so that every later
  call on that name hangs; `LockOwned` says that these two leaks are the only ones;
* an EOS counted twice: with `NumTasks = 2` and `MaxLosses = 1` the close of a stdin
  precedes data (`ClosedAfterData` without its condition): the reply to an EOS is
  lost, the EOS is sent again and counted again, and the tuples of the other
  upstream task are refused for ever; the job then never completes;
* a late `UpdateUpstream`: with `Rates <- MCRates1` and `MaxLosses = 0` in
  AutoscaleDrains, `Drains` fails: stage 2 counts its EOSs against the old number of
  upstream tasks, closes its stdin early and refuses the tuples of the added task for
  ever;
* full pipes: with `NumStages = 1`, `NumTasks = 1`, `NumLines = 4`, `PipeCap = 1` in
  StreamBase, `JobCompletes` fails: a push waits for room in stdin holding
  `task.Lock`, the operator waits for room in stdout, and the output handler waits
  for the lock;
* a hanging job: with a kill in stage 1 (the constants of StreamKillExactlyOnce under
  `FairSpec`) `JobCompletes` fails: `KillTask` removes the registration of the
  restarted task, and a restarted task waits for EOSs that are not sent again;
* long log lines: with `MaxToken = 1` and `NumOps = 4` in HyDFSMerge,
  `AckedEverywhere` and `GetReturnsAcked` fail: a second merge drops the line that
  the first one compacted, because the scanner does not return it;
* the shared `err`: with `MaxMergeFails = 1` in HyDFSMerge the same two fail: one
  failing poll lets a merge skip logs that it received;
* a tuple taken twice: without its condition on `ups` and `unanswered`,
  `NoDuplicateWhileGrowing` fails: a task takes a tuple, the reply is lost, a task is
  added, and the tuple is sent again by the new list, to a task that does not know
  its id (node_stream.go:582-588). At-least-once allows it;
* replayed tuples: after a restart the replay runs beside new pushes, so that a
  sequence number may name another tuple than before and the next stage drops a
  tuple it never processed; it is one of the ways to violate ExactlyOnce after a kill;
* a machine that rejoined is on the ring twice until its old entry is deleted, and
  may be two of the three replicas of a file.

So the passing runs say what holds *in spite of* these: e.g. exactly-once holds when
no process dies, and with deaths the write-ahead and the remembered ids still do.
Some properties hold only under a condition that they or their run name:
`NoDuplicateChunk` and `MergeConverges` when no merge met a fan-out, or a late call of
one; `AckedAtPrimary`
until a call of a merge fails; `AckedIsRemembered` until a HyDFS call fails;
`ClosedAfterData` until a message is lost;
`SelfAlive` in ping mode; `NoDuplicateOutput` until a process dies;
`NoLossWhileGrowing` and `NoDuplicateWhileGrowing` until a task is removed or
restarted, the latter also until a task is added *and* a push given up; `RoutesCurrent` for tasks that were not restarted (a restart uses the list
of the first start) and until a call is lost; `Drains` while the last stage scales.

## 4. Proofs

The theorems hold for every number of stages, tasks, lines and failures (Stream),
replicas and operations (HyDFS), workers and scalings (Autoscale), nodes,
incarnations and datagrams (Membership), from the assumptions `StreamAssumption`,
`HyDFSAssumption`, `AutoscaleAssumption` and `MembershipAssumption`, which only give
the constants their types. The proofs of a component go from one lemma per action,
which says what the action does to each field (`PushWriteOp`, `ReconcileOp`, ...), to
one lemma per invariant and step, to the theorem.

### The pipeline

`StreamProofs`, `StreamControlProofs` and `StreamOutputProofs`, in this order, prove
every safety invariant of Stream.

* `TypeCorrect`: `Spec => []TypeOK`, one lemma per group of actions.
* `AckedLogged`: `Spec => []AckedIsLogged`. The property is not
  inductive: a duplicate is acknowledged because its id is in `ProcessedIDs`, which
  after a restart come from the log that the restart read. The invariant
  `WriteAhead` therefore adds that the ids of pushes past their append, of every
  process's `ProcessedIDs` and of every recovered log are in the dedup log; it rests
  on the log only growing.
* `RestartRemembers`: `Spec => []AckedIsRemembered`. `RunInv` describes the runs of a
  task: later runs do not exist, earlier ones are dead and have reported, at most one
  report or restart of a key is under way. `RemInv` adds that what an old
  process may still log reaches no acknowledgement that the new one does not know.
* `StdinClosedAfterData`: `Spec => []ClosedAfterData`. `EosInv` counts: every task has
  at most as many EOSs as there are upstream tasks whose EOS push to it has been
  answered, no task sends one before its tuples are acknowledged, none sends two,
  and a task that sent its EOSs is never restarted.
* `CompletionIsSound`: `Spec => []CompletionSound`. `DoneInv` relates `FinishedTasks` to
  the set of keys whose success was counted, by cardinality.
* `OutputHasNoDuplicate`: `Spec => []NoDuplicateOutput`. While no process has died
  (`CalmInv`) a line is, within a stage, in exactly one place: sent to it, in stdin,
  in stdout or consumed (`FlowInv`). A retry does not move it twice because
  `task.Lock` is held from the duplicate check to the mark (`LockInv`).
* `OutputIsExact`: `Spec => [](kills = 0 /\ fails = 0 => ExactlyOnce)`. Different lines
  have different ids (`IdInv`), so no tuple is taken for the duplicate of another;
  a line reaches a stage only if it passes all before it (`PassInv`); what a stage
  took it holds or has sent on (`KeepInv`); at the end of a stream nothing is held
  (`DrainInv`). An induction over the stages (`StageInduction`) then
  gives the output of a complete job. The hypothesis is that of
  the run StreamBase, except that replies and reports may be lost here: after a kill
  the property fails (run StreamKillExactlyOnce).
* `PipelineRefined`: under the same hypothesis every step is a step of Pipeline or
  leaves its variables alone, which is the safety part of `ImplementsPipeline`.

### HyDFS

`HyDFSProofs` proves every safety invariant of HyDFS. The hypotheses are those of the
runs: `Created` (the file exists), `AnyPrimary = FALSE` (writes go through the primary, no multiappend) and `mergeFails = 0`.

* `FilesTyped`: `Spec => []TypeOK`. `SortedData` is a recursive function over operation
  ids; that it has a value for every set of entries, and which, is shown by
  `SegmentInduction`.
* `CreatedOnce`: `Spec => []CreateOnce`: no step removes the log at the primary, not
  even the clean-up of a failed create, and a create succeeds only without one.
* `LocksOwned`: `Spec => []LockOwned`, with or without `Created` and with any number of
  failing writes. `LockInv` adds that both files of a created file stay on every
  replica, so that only the failing open leaks its lock. The owner of a leaked lock
  stays an append that failed (`KeepsLocks`): nobody takes a lock that is not free.
* `MergesConverge`, from `AnyPrimary = FALSE`: `Spec => []MergeConverges`. `MergeInv`:
  while a merge that met no fan-out reconciles, no write fans out, and replicas that
  answered it have its content.
* `PrimaryKeepsAcked`, `AckedIsEverywhere`, `GetsReturnAcked`. `CanonicalInv`: log entries
  and polled entries with one id are equal, the id names its content. `AckInv`:
  what a replica has applied is in its log and, while a merge runs, in what the merge
  has polled or will poll. They assume `[]ShortLines`, no line of an operation log
  is longer than the buffer of `bufio.Scanner`: without it `ScanLog` drops the rest of
  a log and the properties fail (see above).
* `ChunksAreUnique`: `NoDuplicateChunk` while `mergeFails = 0`. `DupInv`: what a merge
  collects are disjoint sets of chunks, one for each id, and a chunk of a write that
  is still to be applied somewhere is in no file there.

### Membership

* `MembershipTyped`: `Spec => []TypeOK`.
* `OwnerIsAhead`: `Spec => []OwnerAhead`. Every action is shown to
  have the shape `StepShape` (entries of others come from entries and datagrams that
  exist, own entries grow, new datagrams carry entries of now), and one lemma shows
  that such a step preserves the invariant.
* `VerdictsAreFinal`: `Spec => VerdictsStand`, an action property,
  from the types and from what `UpdateOther` and `Expire` do to one entry.
* `NoSelfDoubt`: `Spec => []SelfAlive` if `Modes` has ping modes
  only. The invariant `SelfInv` adds that nobody pings itself: `permutation` leaves
  the node out of its own round, so that no ping of its own can time out on it, and
  in ping mode an Alive or Leave entry does not expire.

### The autoscaler

`AutoscaleProofs` and `AutoscaleGrowProofs` prove every safety invariant of the run
AutoscaleSafety.

* `ListIndexIsTaskID`: `Spec => []IndexIsTaskID`. What is inductive is that the ids of
  each stage are an interval from 0 (`IndexInv`): `scaleUp` adds its upper end,
  `scaleDown` removes it and only from a stage with more than one task, a restart
  changes a PID.
* `AutoscaleTyped`: `Spec => []TypeOK`, which types every variable, also what travels:
  pushes, replays, rates, calls, reports and restarts. `TypeInv` adds what that
  rests on: a list of workers is never empty where a tuple is routed by it
  (`ListFor`), ids stay below `NumTasks + ups` (`MapBounded`), and `TotalTasks` is the
  cardinality of the set of the mapped keys (`Counted`).
* `RoutesAreCurrent`: `Spec => []RoutesCurrent`. `RouteInv`: what a worker registers
  under a key is a task with that key (`Registered`), every update on its way carries
  the current list of the stage that is being scaled (`BroadcastCurrent`), and a task
  either routes by the current list or an update is on its way to its worker. The
  monitor waits for the updates (`AllUpdated`), so that none is left between two
  scalings. The new task, which is registered before the map has it, is included:
  `Placed`.
* `GrowthLosesNothing` and `GrowthRepeatsNothing`: `NoLossWhileGrowing` and
  `NoDuplicateWhileGrowing`. While no task is removed or restarted an entry of the map
  never changes, so a list of any age gives the workers of the first tasks of a stage,
  and a push always reaches the process that the map has for its key; one that was
  started but never mapped, because the reply of `StartTask` was lost, stays idle
  (`GrowInv`). Hence each message id is issued once, pushes with one id are calls for
  one tuple, and the caller of a tuple that no task has taken still sends it
  (`IdInv`): no line vanishes (`PresentInv`). That a tuple is not taken twice has two
  reasons, one for each case of the property. While no call was given up, a tuple on
  its way is in no process's `ProcessedIDs` (`FreshInv`). While no task was added,
  all lists have `NumTasks` workers, all calls for a tuple go to one task, and only
  that task can have taken it (`SettledInv`): a call that comes after another one is
  answered as a duplicate. So a line is in at most one place, a tuple that nobody has
  taken, a stdin or the output (`TokenInv`); each step moves at most one line
  (`OneMoves`). Once a task is removed a line may be lost: run AutoscaleAtLeastOnce.

### Ring

* `LookupsAreNearest`: `Spec => []NearestClockwise`. `RanksTaken`: the number of nodes
  with smaller hashes is an injection of the nodes into `0 .. n - 1`, hence every
  number is taken once, and the `CHOOSE` of `SortedRing` finds a node for every position
  (`RingSorted`). `SuccessorsClockwise`: from the first node at or after the file, past
  the end of the list, the distances grow. That the member list is finite is an
  invariant of its own (`MembersFinite`).

### Induction over data

The induction theorems of the library take an operator, which the provers cannot
instantiate. Where an induction over numbers is needed, it is done on the *set* of
the numbers with the property: a least counterexample exists because `<` is
well-founded on `Nat` (`WFMin`, `NatLessThanWellFounded`), and the step contradicts it
(`SegmentInduction`, `StageInduction`).

### Only model-checked

All liveness (`JobCompletes`, `CallsReturn`, `Detected`, `Drains` and the fairness of
`ImplementsPipeline`): fairness and `ENABLED` are out of the prover's reach.
`OneReplicaMoves`, which compares the order of two lists by `SelectSeq`, a recursive
operator with an operator as its argument: what it returns for every list needs an
induction over data.

## 5. Plan

1. Done: Stream with its abstract specification Pipeline, HyDFS, Ring, Membership,
   Autoscale, their runs, the theorems above.
2. To come: more about the ring, that a change of the membership moves at most one
   replica of a file (the part of `OneReplicaMoves` without the order).

## 6. Not modelled

* Replica repair: `CheckReplicaRoutine` is not started (node.go:212), so neither is
  what it calls.
* The counting operator: its output depends on the order of its input, which the
  pipeline does not fix; the properties here are about lines that pass or not.
* Failures while a job is being started, and a second job beside the first: they
  share keys and `FinishedTasks`.
* Overlapping pings of one member: they need a round over the member list that is
  shorter than `PingTimeout` and a late ack; the ack then may block with `ackMutex`
  held (node.go:1210).
* The log querier, loggers, command parsing and scripts: input and output only. The
  querier's `switch` command ends in `Node.Switch`, which is an action of Membership.
