------------------------------- MODULE HyDFS --------------------------------
(***************************************************************************)
(* One file of HyDFS (node/node.go) and the replicas that store it.  Each  *)
(* replica keeps the data file and an operation log and serialises calls   *)
(* on the file with a mutex (FileMetadata.lock).  A write goes to one      *)
(* replica, which applies it and forwards it to the others (primaryWrite); *)
(* MergeFile unites the operation logs and pushes the result back.         *)
(*                                                                         *)
(* The replica list is constant: replica 1 is replicaInfo[0] for everyone. *)
(* A chunk of bytes is named by the operation that wrote it.  An OpID is a *)
(* time stamp of the caller's clock, and clocks are not synchronised: an   *)
(* operation takes any unused id.                                          *)
(***************************************************************************)
EXTENDS Integers, Sequences, FiniteSets

CONSTANTS
  ReplicaNum,     \* constants.ReplicaNum
  NumOps,         \* bound: client operations
  Commands,       \* kinds of operation that the clients issue
  AnyPrimary,     \* multiappend is used: TriggerAppend picks any replica
  Created,        \* the file was created before
  MaxToken,       \* chunks of the longest log line that bufio.Scanner returns
  MaxWriteFails,  \* bound: writes and gets that fail, in the network or on disk
  MaxMergeFails   \* bound: failures of the calls of a merge

Replicas == 1 .. ReplicaNum
Ops == 1 .. NumOps
Chunks == Ops \cup {0}                   \* 0: what the file was created with
Entry == [OpID: Chunks, Data: Seq(Chunks)]
Kinds == {"create", "append", "merge", "get"}

ASSUME HyDFSAssumption ==
  /\ ReplicaNum \in Nat \ {0} /\ NumOps \in Nat
  /\ Commands \subseteq Kinds
  /\ AnyPrimary \in BOOLEAN /\ Created \in BOOLEAN
  /\ MaxToken \in Nat /\ MaxWriteFails \in Nat /\ MaxMergeFails \in Nat

VARIABLES
  present,     \* Replicas -> which of the two files exist
  data,        \* Replicas -> contents of the data file
  log,         \* Replicas -> entries of the operation log
  lock,        \* Replicas -> operation that holds FileMetadata.lock, or 0
  op,          \* Ops -> state of the client's call
  writeFails, mergeFails

disk == <<present, data, log>>
vars == <<disk, lock, op, writeFails, mergeFails>>

OpRec ==
  [ kind: Kinds,
    pc: {"idle", "local", "fanout", "poll", "reconcile", "ok", "failed"},
    at: Replicas,                        \* the replica that serves the client
    call: [Replicas -> {"none", "sent", "ok", "failed", "late", "error"}],
    logs: [Replicas -> Seq(Entry)],      \* entries a merge has polled
    final: Seq(Chunks),                  \* FinalDataFile, or the reply of a get
    seen: SUBSET Chunks,                 \* chunks acknowledged before the call
    quiet: BOOLEAN ]                     \* nothing of a fan-out was on its way

OpEntry(i) == [OpID |-> i, Data |-> <<i>>]
NoCalls == [r \in Replicas |-> "none"]
Idle ==
  [ kind |-> "get", pc |-> "idle", at |-> 1, call |-> NoCalls,
    logs |-> [r \in Replicas |-> <<>>], final |-> <<>>, seen |-> {},
    quiet |-> TRUE ]

Init ==
  /\ present = [r \in Replicas |-> IF Created THEN {"data", "log"} ELSE {}]
  /\ data = [r \in Replicas |-> IF Created THEN <<0>> ELSE <<>>]
  /\ log = [r \in Replicas |->
              IF Created THEN <<OpEntry(0)>> ELSE <<>>]
  /\ lock = [r \in Replicas |-> 0]
  /\ op = [i \in Ops |-> Idle]
  /\ writeFails = 0
  /\ mergeFails = 0

IsWrite(i) == op[i].kind \in {"create", "append"}
OnItsWay(i) == op[i].pc = "fanout" \/ \E r \in Replicas : op[i].call[r] = "late"
AckedChunks == {i \in Ops : IsWrite(i) /\ op[i].pc = "ok"}
                 \cup (IF Created THEN {0} ELSE {})

-----------------------------------------------------------------------------
(* A client starts a command at replica r.                                 *)
Start(i, k, r) ==
  /\ op[i].pc = "idle" /\ k \in Commands
  /\ op' = [op EXCEPT ![i].kind = k, ![i].pc = "local", ![i].at = r,
                      ![i].seen = AckedChunks]
  /\ UNCHANGED <<disk, lock, writeFails, mergeFails>>

(* ExecCreate, ExecAppend, ExecMerge and ExecGet go to replicaInfo[0].     *)
ExecCreate(i) == Start(i, "create", 1)
ExecAppend(i) == Start(i, "append", 1)
ExecMerge(i) == Start(i, "merge", 1)
ExecGet(i) == Start(i, "get", 1)

(* TriggerAppend, which multiappend calls, takes a random replica.         *)
TriggerAppend(i) == AnyPrimary /\ \E r \in Replicas : Start(i, "append", r)

Begin(i) ==
  ExecCreate(i) \/ ExecAppend(i) \/ ExecMerge(i) \/ ExecGet(i) \/ TriggerAppend(i)

-----------------------------------------------------------------------------
(* The part of CreateFile and AppendFile under the lock of replica r.      *)

SetFiles(r, d, l) ==
  /\ present' = [present EXCEPT ![r] = {"data", "log"}]
  /\ data' = [data EXCEPT ![r] = d]
  /\ log' = [log EXCEPT ![r] = l]

(* Mutant: a create does not look for an existing file.                    *)
CanWriteAlways(i, r) == op[i].kind = "create" \/ present[r] = {"data", "log"}

(* Only the log decides whether the file exists for a create; an append    *)
(* needs both files.                                                       *)
CanWrite(i, r) ==
  IF op[i].kind = "create" THEN "log" \notin present[r]
                           ELSE present[r] = {"data", "log"}

WriteOK(i, r) ==
  /\ lock[r] = 0 /\ CanWrite(i, r)
  /\ \/ op[i].kind = "create" /\ SetFiles(r, <<i>>, <<OpEntry(i)>>)
     \/ op[i].kind = "append" /\ SetFiles(r, Append(data[r], i), Append(log[r], OpEntry(i)))
  /\ UNCHANGED lock

(* Mutant: a create that is refused does not release the lock either.      *)
RefusedLeaks(i, r) ==
  /\ lock[r] = 0 /\ ~CanWrite(i, r)
  /\ lock' = [lock EXCEPT ![r] = i]
  /\ UNCHANGED disk

(* "File already exists."; an append to a file that is missing returns     *)
(* without releasing the lock.                                             *)
WriteRefused(i, r) ==
  /\ lock[r] = 0 /\ ~CanWrite(i, r)
  /\ lock' = IF op[i].kind = "append" THEN [lock EXCEPT ![r] = i] ELSE lock
  /\ UNCHANGED disk

(* A disk error.  CreateFile removes the data file when the log cannot be  *)
(* written, but not when the data file itself cannot.  AppendFile keeps    *)
(* the lock when it cannot open the data file; after that it releases it,  *)
(* and may leave bytes that the log does not have.                         *)
WriteError(i, r) ==
  /\ lock[r] = 0 /\ CanWrite(i, r)
  /\ \/ /\ op[i].kind = "create"
        /\ \/ /\ present' = [present EXCEPT ![r] = {}]
              /\ data' = [data EXCEPT ![r] = <<>>]
           \/ /\ present' = [present EXCEPT ![r] = {"data"}]
              /\ \E d \in {<<>>, <<i>>} : data' = [data EXCEPT ![r] = d]
        /\ UNCHANGED lock
     \/ /\ op[i].kind = "append"
        /\ \/ lock' = [lock EXCEPT ![r] = i] /\ UNCHANGED data
           \/ /\ data' = data \/ data' = [data EXCEPT ![r] = Append(@, i)]
              /\ UNCHANGED lock
        /\ UNCHANGED present
  /\ UNCHANGED log

CountWriteFail == writeFails < MaxWriteFails /\ writeFails' = writeFails + 1

(* The replica that the client called writes, then starts the fan-out.     *)
LocalWrite(i) ==
  LET p == op[i].at IN
  /\ IsWrite(i) /\ op[i].pc = "local"
  /\ \/ /\ WriteOK(i, p)
        /\ op' = [op EXCEPT ![i].pc = "fanout",
             ![i].call = [r \in Replicas |-> IF r = p THEN "ok" ELSE "sent"]]
     \/ /\ WriteRefused(i, p)
        /\ op' = [op EXCEPT ![i].pc = "failed"]
  /\ UNCHANGED <<writeFails, mergeFails>>

LocalWriteFails(i) ==
  /\ IsWrite(i) /\ op[i].pc = "local"
  /\ WriteError(i, op[i].at)
  /\ CountWriteFail
  /\ op' = [op EXCEPT ![i].pc = "failed"]
  /\ UNCHANGED mergeFails

(* One goroutine of primaryWrite: its call is served by replica r.         *)
FanOut(i, r) ==
  /\ op[i].pc = "fanout" /\ op[i].call[r] = "sent"
  /\ \/ WriteOK(i, r) /\ op' = [op EXCEPT ![i].call[r] = "ok"]
     \/ WriteRefused(i, r) /\ op' = [op EXCEPT ![i].call[r] = "failed"]
  /\ UNCHANGED <<writeFails, mergeFails>>

(* Its call does not reach the replica, the disk fails there, the reply of *)
(* a call that was served is lost, or the connection breaks while the call *)
(* waits at the replica, which serves it later.                            *)
FanOutFails(i, r) ==
  /\ op[i].pc = "fanout" /\ op[i].call[r] = "sent"
  /\ CountWriteFail
  /\ \/ /\ UNCHANGED <<disk, lock>> \/ WriteError(i, r) \/ WriteOK(i, r)
        /\ op' = [op EXCEPT ![i].call[r] = "failed"]
     \/ /\ op' = [op EXCEPT ![i].call[r] = "late"]
        /\ UNCHANGED <<disk, lock>>
  /\ UNCHANGED mergeFails

(* The replica serves a call that its caller has given up.                 *)
FanOutLate(i, r) ==
  /\ op[i].call[r] = "late"
  /\ \/ (WriteOK(i, r) \/ WriteRefused(i, r)) /\ UNCHANGED writeFails
     \/ WriteError(i, r) /\ CountWriteFail
  /\ op' = [op EXCEPT ![i].call[r] = "failed"]
  /\ UNCHANGED mergeFails

(* Mutant: one successful replica is enough.                               *)
WriteDoneAny(i) ==
  /\ op[i].pc = "fanout"
  /\ \A r \in Replicas : op[i].call[r] # "sent"
  /\ op' = [op EXCEPT ![i].pc = "ok"]
  /\ UNCHANGED <<disk, lock, writeFails, mergeFails>>

(* wg.Wait() and the count of the successes; a create that fails removes   *)
(* the data file, without the lock, and leaves the log.                    *)
WriteDone(i) ==
  /\ op[i].pc = "fanout"
  /\ \A r \in Replicas : op[i].call[r] # "sent"
  /\ \/ /\ \A r \in Replicas : op[i].call[r] = "ok"
        /\ op' = [op EXCEPT ![i].pc = "ok"]
        /\ UNCHANGED disk
     \/ /\ \E r \in Replicas : op[i].call[r] # "ok"
        /\ op' = [op EXCEPT ![i].pc = "failed"]
        /\ \/ /\ op[i].kind = "create"
              /\ present' = [present EXCEPT ![op[i].at] = @ \ {"data"}]
              /\ data' = [data EXCEPT ![op[i].at] = <<>>]
              /\ UNCHANGED log
           \/ op[i].kind = "append" /\ UNCHANGED disk
  /\ UNCHANGED <<lock, writeFails, mergeFails>>

-----------------------------------------------------------------------------
(* MergeFile.                                                              *)

(* GetLocalOperationLog: the scanner stops at the first line longer than   *)
(* its buffer.                                                             *)
ScanLog(l) ==
  LET short(n) == \A m \in 1 .. n : Len(l[m].Data) <= MaxToken
      last == CHOOSE n \in 0 .. Len(l) :
                short(n) /\ \A m \in 0 .. Len(l) : short(m) => m <= n
  IN SubSeq(l, 1, last)

(* Mutant: the merge does not take the lock.                               *)
MergeLockNone(i) ==
  /\ op[i].kind = "merge" /\ op[i].pc = "local"
  /\ op' = [op EXCEPT ![i].pc = "poll",
                      ![i].call = [r \in Replicas |-> "sent"],
                      ![i].quiet = \A j \in Ops : ~OnItsWay(j)]
  /\ UNCHANGED <<disk, lock, writeFails, mergeFails>>

(* The lock is taken and every replica polled.                             *)
MergeLock(i) ==
  /\ op[i].kind = "merge" /\ op[i].pc = "local"
  /\ lock[op[i].at] = 0
  /\ lock' = [lock EXCEPT ![op[i].at] = i]
  /\ op' = [op EXCEPT ![i].pc = "poll",
                      ![i].call = [r \in Replicas |-> "sent"],
                      ![i].quiet = \A j \in Ops : ~OnItsWay(j)]
  /\ UNCHANGED <<disk, writeFails, mergeFails>>

(* GetOperationLog of replica r, under its lock; the own log is read       *)
(* directly.                                                               *)
Poll(i, r) ==
  /\ op[i].pc = "poll" /\ op[i].call[r] = "sent"
  /\ lock[r] = 0 \/ r = op[i].at
  /\ op' = [op EXCEPT ![i].call[r] = IF "log" \in present[r] THEN "ok" ELSE "failed",
                      ![i].logs[r] = IF "log" \in present[r] THEN ScanLog(log[r]) ELSE @]
  /\ UNCHANGED <<disk, lock, writeFails, mergeFails>>

PollFails(i, r) ==
  /\ op[i].pc = "poll" /\ op[i].call[r] = "sent" /\ r # op[i].at
  /\ mergeFails < MaxMergeFails
  /\ mergeFails' = mergeFails + 1
  /\ op' = [op EXCEPT ![i].call[r] = "error"]
  /\ UNCHANGED <<disk, lock, writeFails>>

(* The union of the polled entries by OpID, in the order of the OpIDs.     *)
Entries(i, rs) == UNION {{op[i].logs[r][n] : n \in 1 .. Len(op[i].logs[r])} : r \in rs}

SortedData(E) ==
  LET upTo[n \in -1 .. NumOps] ==
        IF n = -1 THEN <<>>
        ELSE IF \E e \in E : e.OpID = n
          THEN upTo[n - 1] \o (CHOOSE e \in E : e.OpID = n).Data
          ELSE upTo[n - 1]
  IN upTo[NumOps]

(* wg.Wait(), then the merged file.  The goroutines share the variable err *)
(* and read it unsynchronised: once one call has set it, any log that was  *)
(* received may be skipped too.                                            *)
MergeBuild(i) ==
  LET received == {r \in Replicas : op[i].call[r] = "ok"} IN
  /\ op[i].pc = "poll"
  /\ \A r \in Replicas : op[i].call[r] # "sent"
  /\ \E used \in SUBSET received :
       /\ used = received \/ \E r \in Replicas : op[i].call[r] = "error"
       /\ op' = [op EXCEPT ![i].pc = "reconcile",
                           ![i].call = [r \in Replicas |-> "sent"],
                           ![i].final = SortedData(Entries(i, used))]
  /\ UNCHANGED <<disk, lock, writeFails, mergeFails>>

(* Mutant: the compacted entry is added to the log instead of replacing it. *)
ReconcileAppends(i, r) ==
  /\ op[i].pc = "reconcile" /\ op[i].call[r] = "sent"
  /\ lock[r] = 0 \/ r = op[i].at
  /\ SetFiles(r, op[i].final, Append(log[r], [OpID |-> i, Data |-> op[i].final]))
  /\ op' = [op EXCEPT ![i].call[r] = "ok"]
  /\ UNCHANGED <<lock, writeFails, mergeFails>>

(* Mutant: a replica whose data is the same is skipped altogether.         *)
ReconcileSkips(i, r) ==
  /\ op[i].pc = "reconcile" /\ op[i].call[r] = "sent"
  /\ lock[r] = 0 \/ r = op[i].at
  /\ IF data[r] = op[i].final
       THEN UNCHANGED disk
       ELSE SetFiles(r, op[i].final, <<[OpID |-> i, Data |-> op[i].final]>>)
  /\ op' = [op EXCEPT ![i].call[r] = "ok"]
  /\ UNCHANGED <<lock, writeFails, mergeFails>>

(* ReconcileFile at replica r: data and log are replaced (when the data is *)
(* the same only the log is written).                                      *)
Reconcile(i, r) ==
  /\ op[i].pc = "reconcile" /\ op[i].call[r] = "sent"
  /\ lock[r] = 0 \/ r = op[i].at
  /\ SetFiles(r, op[i].final, <<[OpID |-> i, Data |-> op[i].final]>>)
  /\ op' = [op EXCEPT ![i].call[r] = "ok"]
  /\ UNCHANGED <<lock, writeFails, mergeFails>>

(* The call does not reach the replica, its reply is lost, or the disk     *)
(* fails before or after the data file is written: it is only printed.     *)
ReconcileFails(i, r) ==
  /\ op[i].pc = "reconcile" /\ op[i].call[r] = "sent"
  /\ mergeFails < MaxMergeFails
  /\ mergeFails' = mergeFails + 1
  /\ op' = [op EXCEPT ![i].call[r] = "error"]
  /\ \/ UNCHANGED disk
     \/ /\ r # op[i].at /\ lock[r] = 0
        /\ SetFiles(r, op[i].final, <<[OpID |-> i, Data |-> op[i].final]>>)
     \/ /\ lock[r] = 0 \/ r = op[i].at
        /\ data' = [data EXCEPT ![r] = op[i].final]
        /\ present' = [present EXCEPT ![r] = @ \cup {"data"}]
        /\ UNCHANGED log
  /\ UNCHANGED <<lock, writeFails>>

(* Mutant: the lock is not released.                                       *)
MergeDoneLocked(i) ==
  /\ op[i].pc = "reconcile"
  /\ \A r \in Replicas : op[i].call[r] # "sent"
  /\ op' = [op EXCEPT ![i].pc = "ok"]
  /\ UNCHANGED <<disk, lock, writeFails, mergeFails>>

(* wg.Wait() and the reply, which is always Success.                       *)
MergeDone(i) ==
  /\ op[i].pc = "reconcile"
  /\ \A r \in Replicas : op[i].call[r] # "sent"
  /\ lock' = [lock EXCEPT ![op[i].at] = 0]
  /\ op' = [op EXCEPT ![i].pc = "ok"]
  /\ UNCHANGED <<disk, writeFails, mergeFails>>

-----------------------------------------------------------------------------
(* Mutant: the loop goes on past the last replica.                         *)
NextReplicaPast(i) ==
  op' = IF op[i].at <= ReplicaNum THEN [op EXCEPT ![i].at = @ + 1]
                                  ELSE [op EXCEPT ![i].pc = "failed"]

(* ExecGet: GetFile at one replica after the other until one succeeds.     *)
NextReplica(i) ==
  op' = IF op[i].at < ReplicaNum THEN [op EXCEPT ![i].at = @ + 1]
                                 ELSE [op EXCEPT ![i].pc = "failed"]

Get(i) ==
  LET r == op[i].at IN
  /\ op[i].kind = "get" /\ op[i].pc = "local"
  /\ lock[r] = 0
  /\ \/ /\ "data" \in present[r]
        /\ op' = [op EXCEPT ![i].pc = "ok", ![i].final = data[r]]
     \/ /\ "data" \notin present[r]
        /\ NextReplica(i)
  /\ UNCHANGED <<disk, lock, writeFails, mergeFails>>

GetFails(i) ==
  /\ op[i].kind = "get" /\ op[i].pc = "local"
  /\ CountWriteFail
  /\ NextReplica(i)
  /\ UNCHANGED <<disk, lock, mergeFails>>

-----------------------------------------------------------------------------
ServeOp(i) ==
  \/ LocalWrite(i) \/ WriteDone(i)
  \/ MergeLock(i) \/ MergeBuild(i) \/ MergeDone(i)
  \/ Get(i)
  \/ \E r \in Replicas : FanOut(i, r) \/ FanOutLate(i, r) \/ Poll(i, r) \/ Reconcile(i, r)

Fault(i) ==
  \/ LocalWriteFails(i) \/ GetFails(i)
  \/ \E r \in Replicas : FanOutFails(i, r) \/ PollFails(i, r) \/ ReconcileFails(i, r)

(* Every command was answered.                                             *)
Quiescent == (\A i \in Ops : op[i].pc \in {"ok", "failed"}) /\ UNCHANGED vars

Next == (\E i \in Ops : Begin(i) \/ ServeOp(i) \/ Fault(i)) \/ Quiescent

Spec == Init /\ [][Next]_vars

(* A command one of whose calls can be served over and over is eventually  *)
(* served: no goroutine is forgotten, and sync.Mutex starves no waiter.    *)
Fairness == \A i \in Ops : SF_vars(ServeOp(i))

FairSpec == Spec /\ Fairness

-----------------------------------------------------------------------------
(* Properties.                                                             *)

ChunksIn(s) == {s[n] : n \in 1 .. Len(s)}

(* Files, locks and calls keep their shapes.                               *)
TypeOK ==
  /\ present \in [Replicas -> SUBSET {"data", "log"}]
  /\ data \in [Replicas -> Seq(Chunks)]
  /\ log \in [Replicas -> Seq(Entry)]
  /\ lock \in [Replicas -> Chunks]
  /\ op \in [Ops -> OpRec]
  /\ writeFails \in 0 .. MaxWriteFails /\ mergeFails \in 0 .. MaxMergeFails

(* A write that AppendFile or CreateFile acknowledged is in the data file  *)
(* of every replica, whatever merges run beside it.                        *)
AckedEverywhere ==
  \A r \in Replicas : AckedChunks \subseteq ChunksIn(data[r])

(* With multiappend the first replica of a write may be any: then, as long *)
(* as no call of a merge failed, replica 1, whose lock a merge keeps from  *)
(* the poll to the end, still has every acknowledged write.                *)
AckedAtPrimary == mergeFails = 0 => AckedChunks \subseteq ChunksIn(data[1])

(* A get that returns a file returns every write that was acknowledged     *)
(* before the get was issued.                                              *)
GetReturnsAcked ==
  \A i \in Ops : op[i].kind = "get" /\ op[i].pc = "ok" =>
    op[i].seen \subseteq ChunksIn(op[i].final)

(* A merge that found no fan-out on its way and had no failed call leaves  *)
(* the same data and the same log on every replica.                        *)
MergeConverges ==
  \A i \in Ops :
    /\ op[i].kind = "merge" /\ op[i].pc = "reconcile" /\ op[i].quiet
    /\ \A r \in Replicas : op[i].call[r] = "ok"
    => \A r, s \in Replicas : data[r] = data[s] /\ log[r] = log[s]

(* As long as no merge met a fan-out on its way, no chunk is in a file     *)
(* twice: appends are applied once and a merge unites entries by OpID.     *)
NoDuplicateChunk ==
  (\A i \in Ops : op[i].quiet) =>
    \A r \in Replicas : Cardinality(ChunksIn(data[r])) = Len(data[r])

(* Between two calls a lock belongs to a merge that its replica serves, or *)
(* was leaked by an append that failed there; where the file was created   *)
(* before, only a failing disk leaks one.  So no command that succeeds,    *)
(* and no create or get, leaves a file locked.                             *)
LockOwned ==
  \A r \in Replicas : lock[r] # 0 =>
    LET holder == op[lock[r]] IN
    \/ holder.kind = "merge" /\ holder.at = r /\ holder.pc \in {"poll", "reconcile"}
    \/ /\ holder.kind = "append"
       /\ holder.pc = "failed" \/ (holder.pc = "fanout" /\ holder.call[r] = "failed")
       /\ ~Created \/ writeFails > 0

(* At most one create of the file is acknowledged ("File already exists"). *)
CreateOnce ==
  Cardinality({i \in Ops : op[i].kind = "create" /\ op[i].pc = "ok"})
    + (IF Created THEN 1 ELSE 0) <= 1

(* Every command that a client issued returns.                             *)
CallsReturn == \A i \in Ops : (op[i].pc = "local") ~> (op[i].pc \in {"ok", "failed"})
=============================================================================
