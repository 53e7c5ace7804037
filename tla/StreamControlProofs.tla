------------------------ MODULE StreamControlProofs -------------------------
(***************************************************************************)
(* Proofs about the tuple pipeline: restarts, EOSs and the completion of   *)
(* the job.                                                                *)
(***************************************************************************)
EXTENDS StreamProofs, FiniteSetTheorems

-----------------------------------------------------------------------------
(* What the steps do to the task and to the push that they are about.      *)

(* The fields of task i after a step that changes no other task.           *)
TaskBecomes(i, proc, stdin, pipe, stdout, ids, seq, eos, lock, replay, handler) ==
  /\ TaskOK'
  /\ \A j \in Inst : j # i => task'[j] = task[j]
  /\ task'[i].proc = proc /\ task'[i].Stdin = stdin /\ task'[i].pipe = pipe
  /\ task'[i].Stdout = stdout /\ task'[i].ProcessedIDs = ids
  /\ task'[i].SeqNum = seq /\ task'[i].EOSCount = eos /\ task'[i].lock = lock
  /\ task'[i].replay = replay /\ task'[i].handler = handler

(* A step that replaces the record of one task changes its fields and no   *)
(* other task.                                                             *)
LEMMA TaskSet ==
  ASSUME TaskOK, NEW i \in Inst, NEW q \in TaskRec, task' = [task EXCEPT ![i] = q]
  PROVE  TaskBecomes(i, q.proc, q.Stdin, q.pipe, q.Stdout, q.ProcessedIDs, q.SeqNum,
                     q.EOSCount, q.lock, q.replay, q.handler)
BY DEF TaskOK, TaskBecomes

(* A step that moves only task.Lock.                                       *)
LEMMA LockSet ==
  ASSUME TaskOK, NEW i \in Inst, NEW l \in {"free", "push", "replay"},
         task' = [task EXCEPT ![i].lock = l]
  PROVE  TaskBecomes(i, task[i].proc, task[i].Stdin, task[i].pipe, task[i].Stdout,
                     task[i].ProcessedIDs, task[i].SeqNum, task[i].EOSCount, l,
                     task[i].replay, task[i].handler)
<1> DEFINE q == [task[i] EXCEPT !.lock = l]
<1>1. task[i] \in TaskRec
  BY DEF TaskOK
<1>2. /\ q \in TaskRec /\ q.proc = task[i].proc /\ q.Stdin = task[i].Stdin
      /\ q.pipe = task[i].pipe /\ q.Stdout = task[i].Stdout
      /\ q.ProcessedIDs = task[i].ProcessedIDs /\ q.SeqNum = task[i].SeqNum
      /\ q.EOSCount = task[i].EOSCount /\ q.lock = l /\ q.replay = task[i].replay
      /\ q.handler = task[i].handler
  BY <1>1 DEF TaskRec
<1>3. task' = [task EXCEPT ![i] = q]
  OBVIOUS
<1> HIDE DEF q
<1>4. TaskBecomes(i, q.proc, q.Stdin, q.pipe, q.Stdout, q.ProcessedIDs, q.SeqNum,
                  q.EOSCount, q.lock, q.replay, q.handler)
  BY <1>2, <1>3, TaskSet
<1> QED
  BY <1>2, <1>4

(* A step that counts an EOS and may close stdin.                          *)
LEMMA EOSSet ==
  ASSUME TaskOK, NEW i \in Inst, NEW n \in Nat, NEW c \in {"open", "closed"},
         task' = [task EXCEPT ![i].EOSCount = n, ![i].pipe = c]
  PROVE  TaskBecomes(i, task[i].proc, task[i].Stdin, c, task[i].Stdout,
                     task[i].ProcessedIDs, task[i].SeqNum, n, task[i].lock,
                     task[i].replay, task[i].handler)
<1> DEFINE q == [task[i] EXCEPT !.EOSCount = n, !.pipe = c]
<1>1. task[i] \in TaskRec
  BY DEF TaskOK
<1>2. /\ q \in TaskRec /\ q.proc = task[i].proc /\ q.Stdin = task[i].Stdin
      /\ q.pipe = c /\ q.Stdout = task[i].Stdout
      /\ q.ProcessedIDs = task[i].ProcessedIDs /\ q.SeqNum = task[i].SeqNum
      /\ q.EOSCount = n /\ q.lock = task[i].lock /\ q.replay = task[i].replay
      /\ q.handler = task[i].handler
  BY <1>1 DEF TaskRec
<1>3. task' = [task EXCEPT ![i] = q]
  OBVIOUS
<1> HIDE DEF q
<1>4. TaskBecomes(i, q.proc, q.Stdin, q.pipe, q.Stdout, q.ProcessedIDs, q.SeqNum,
                  q.EOSCount, q.lock, q.replay, q.handler)
  BY <1>2, <1>3, TaskSet
<1> QED
  BY <1>2, <1>4

(* A step that writes to stdin, marks the tuple and frees the lock.        *)
LEMMA WriteSet ==
  ASSUME TaskOK, NEW i \in Inst, NEW x \in Seq(Lines), NEW s \in SUBSET MsgIds,
         task' = [task EXCEPT ![i].Stdin = x, ![i].ProcessedIDs = s, ![i].lock = "free"]
  PROVE  TaskBecomes(i, task[i].proc, x, task[i].pipe, task[i].Stdout, s,
                     task[i].SeqNum, task[i].EOSCount, "free", task[i].replay,
                     task[i].handler)
<1> DEFINE q == [task[i] EXCEPT !.Stdin = x, !.ProcessedIDs = s, !.lock = "free"]
<1>1. task[i] \in TaskRec
  BY DEF TaskOK
<1>2. /\ q \in TaskRec /\ q.proc = task[i].proc /\ q.Stdin = x
      /\ q.pipe = task[i].pipe /\ q.Stdout = task[i].Stdout
      /\ q.ProcessedIDs = s /\ q.SeqNum = task[i].SeqNum
      /\ q.EOSCount = task[i].EOSCount /\ q.lock = "free" /\ q.replay = task[i].replay
      /\ q.handler = task[i].handler
  BY <1>1 DEF TaskRec
<1>3. task' = [task EXCEPT ![i] = q]
  OBVIOUS
<1> HIDE DEF q
<1>4. TaskBecomes(i, q.proc, q.Stdin, q.pipe, q.Stdout, q.ProcessedIDs, q.SeqNum,
                  q.EOSCount, q.lock, q.replay, q.handler)
  BY <1>2, <1>3, TaskSet
<1> QED
  BY <1>2, <1>4

(* A step of the operator on its two pipes.                                *)
LEMMA PipesSet ==
  ASSUME TaskOK, NEW i \in Inst, NEW x \in Seq(Lines), NEW y \in Seq(Lines),
         task' = [task EXCEPT ![i].Stdin = x, ![i].Stdout = y]
  PROVE  TaskBecomes(i, task[i].proc, x, task[i].pipe, y, task[i].ProcessedIDs,
                     task[i].SeqNum, task[i].EOSCount, task[i].lock, task[i].replay,
                     task[i].handler)
<1> DEFINE q == [task[i] EXCEPT !.Stdin = x, !.Stdout = y]
<1>1. task[i] \in TaskRec
  BY DEF TaskOK
<1>2. /\ q \in TaskRec /\ q.proc = task[i].proc /\ q.Stdin = x
      /\ q.pipe = task[i].pipe /\ q.Stdout = y
      /\ q.ProcessedIDs = task[i].ProcessedIDs /\ q.SeqNum = task[i].SeqNum
      /\ q.EOSCount = task[i].EOSCount /\ q.lock = task[i].lock
      /\ q.replay = task[i].replay /\ q.handler = task[i].handler
  BY <1>1 DEF TaskRec
<1>3. task' = [task EXCEPT ![i] = q]
  OBVIOUS
<1> HIDE DEF q
<1>4. TaskBecomes(i, q.proc, q.Stdin, q.pipe, q.Stdout, q.ProcessedIDs, q.SeqNum,
                  q.EOSCount, q.lock, q.replay, q.handler)
  BY <1>2, <1>3, TaskSet
<1> QED
  BY <1>2, <1>4

(* A step that reads stdout and counts the line.                           *)
LEMMA OutSet ==
  ASSUME TaskOK, NEW i \in Inst, NEW y \in Seq(Lines), NEW n \in Nat,
         task' = [task EXCEPT ![i].Stdout = y, ![i].SeqNum = n]
  PROVE  TaskBecomes(i, task[i].proc, task[i].Stdin, task[i].pipe, y,
                     task[i].ProcessedIDs, n, task[i].EOSCount, task[i].lock,
                     task[i].replay, task[i].handler)
<1> DEFINE q == [task[i] EXCEPT !.Stdout = y, !.SeqNum = n]
<1>1. task[i] \in TaskRec
  BY DEF TaskOK
<1>2. /\ q \in TaskRec /\ q.proc = task[i].proc /\ q.Stdin = task[i].Stdin
      /\ q.pipe = task[i].pipe /\ q.Stdout = y
      /\ q.ProcessedIDs = task[i].ProcessedIDs /\ q.SeqNum = n
      /\ q.EOSCount = task[i].EOSCount /\ q.lock = task[i].lock
      /\ q.replay = task[i].replay /\ q.handler = task[i].handler
  BY <1>1 DEF TaskRec
<1>3. task' = [task EXCEPT ![i] = q]
  OBVIOUS
<1> HIDE DEF q
<1>4. TaskBecomes(i, q.proc, q.Stdin, q.pipe, q.Stdout, q.ProcessedIDs, q.SeqNum,
                  q.EOSCount, q.lock, q.replay, q.handler)
  BY <1>2, <1>3, TaskSet
<1> QED
  BY <1>2, <1>4

(* A step that replays a line of the log and frees the lock.               *)
LEMMA ReplaySet ==
  ASSUME TaskOK, NEW i \in Inst, NEW x \in Seq(Lines), NEW r \in Seq(Entries),
         task' = [task EXCEPT ![i].Stdin = x, ![i].replay = r, ![i].lock = "free"]
  PROVE  TaskBecomes(i, task[i].proc, x, task[i].pipe, task[i].Stdout,
                     task[i].ProcessedIDs, task[i].SeqNum, task[i].EOSCount, "free", r,
                     task[i].handler)
<1> DEFINE q == [task[i] EXCEPT !.Stdin = x, !.replay = r, !.lock = "free"]
<1>1. task[i] \in TaskRec
  BY DEF TaskOK
<1>2. /\ q \in TaskRec /\ q.proc = task[i].proc /\ q.Stdin = x
      /\ q.pipe = task[i].pipe /\ q.Stdout = task[i].Stdout
      /\ q.ProcessedIDs = task[i].ProcessedIDs /\ q.SeqNum = task[i].SeqNum
      /\ q.EOSCount = task[i].EOSCount /\ q.lock = "free" /\ q.replay = r
      /\ q.handler = task[i].handler
  BY <1>1 DEF TaskRec
<1>3. task' = [task EXCEPT ![i] = q]
  OBVIOUS
<1> HIDE DEF q
<1>4. TaskBecomes(i, q.proc, q.Stdin, q.pipe, q.Stdout, q.ProcessedIDs, q.SeqNum,
                  q.EOSCount, q.lock, q.replay, q.handler)
  BY <1>2, <1>3, TaskSet
<1> QED
  BY <1>2, <1>4

(* A step that moves only the output goroutine.                            *)
LEMMA HandlerSet ==
  ASSUME TaskOK, NEW i \in Inst, NEW h \in {"scan", "eos", "done"},
         task' = [task EXCEPT ![i].handler = h]
  PROVE  TaskBecomes(i, task[i].proc, task[i].Stdin, task[i].pipe, task[i].Stdout,
                     task[i].ProcessedIDs, task[i].SeqNum, task[i].EOSCount,
                     task[i].lock, task[i].replay, h)
<1> DEFINE q == [task[i] EXCEPT !.handler = h]
<1>1. task[i] \in TaskRec
  BY DEF TaskOK
<1>2. /\ q \in TaskRec /\ q.proc = task[i].proc /\ q.Stdin = task[i].Stdin
      /\ q.pipe = task[i].pipe /\ q.Stdout = task[i].Stdout
      /\ q.ProcessedIDs = task[i].ProcessedIDs /\ q.SeqNum = task[i].SeqNum
      /\ q.EOSCount = task[i].EOSCount /\ q.lock = task[i].lock
      /\ q.replay = task[i].replay /\ q.handler = h
  BY <1>1 DEF TaskRec
<1>3. task' = [task EXCEPT ![i] = q]
  OBVIOUS
<1> HIDE DEF q
<1>4. TaskBecomes(i, q.proc, q.Stdin, q.pipe, q.Stdout, q.ProcessedIDs, q.SeqNum,
                  q.EOSCount, q.lock, q.replay, q.handler)
  BY <1>2, <1>3, TaskSet
<1> QED
  BY <1>2, <1>4

(* A step in which the operator process ends.                              *)
LEMMA DeadSet ==
  ASSUME TaskOK, NEW i \in Inst, NEW x \in Seq(Lines),
         task' = [task EXCEPT ![i].proc = "dead", ![i].Stdin = x]
  PROVE  TaskBecomes(i, "dead", x, task[i].pipe, task[i].Stdout, task[i].ProcessedIDs,
                     task[i].SeqNum, task[i].EOSCount, task[i].lock, task[i].replay,
                     task[i].handler)
<1> DEFINE q == [task[i] EXCEPT !.proc = "dead", !.Stdin = x]
<1>1. task[i] \in TaskRec
  BY DEF TaskOK
<1>2. /\ q \in TaskRec /\ q.proc = "dead" /\ q.Stdin = x
      /\ q.pipe = task[i].pipe /\ q.Stdout = task[i].Stdout
      /\ q.ProcessedIDs = task[i].ProcessedIDs /\ q.SeqNum = task[i].SeqNum
      /\ q.EOSCount = task[i].EOSCount /\ q.lock = task[i].lock
      /\ q.replay = task[i].replay /\ q.handler = task[i].handler
  BY <1>1 DEF TaskRec
<1>3. task' = [task EXCEPT ![i] = q]
  OBVIOUS
<1> HIDE DEF q
<1>4. TaskBecomes(i, q.proc, q.Stdin, q.pipe, q.Stdout, q.ProcessedIDs, q.SeqNum,
                  q.EOSCount, q.lock, q.replay, q.handler)
  BY <1>2, <1>3, TaskSet
<1> QED
  BY <1>2, <1>4

-----------------------------------------------------------------------------
(* Pushes.                                                                 *)

(* Push m becomes n, which differs in the control point and the run only.  *)
Moved(m, p, q, n) ==
  /\ n \in PushRec /\ pushes' = (pushes \ {m}) \cup {n}
  /\ n.org = m.org /\ n.kind = m.kind /\ n.dest = m.dest /\ n.id = m.id /\ n.val = m.val
  /\ n.pc = p /\ n.run = q

(* A push moves on: it is the same tuple at another place of PushTuple.    *)
LEMMA MoveTo ==
  ASSUME PushesOK, NEW m \in pushes, NEW q \in Runs \cup {0},
         NEW p \in {"send", "locking", "logging", "writing", "acked"}, Move(m, p, q)
  PROVE  \E n : Moved(m, p, q, n)
<1> DEFINE n == [m EXCEPT !.pc = p, !.run = q]
<1>1. m \in PushRec
  BY DEF PushesOK
<1>2. /\ n \in PushRec /\ n.org = m.org /\ n.kind = m.kind /\ n.dest = m.dest
      /\ n.id = m.id /\ n.val = m.val /\ n.pc = p /\ n.run = q
  BY <1>1 DEF PushRec
<1>3. pushes' = (pushes \ {m}) \cup {n}
  BY DEF Move
<1> HIDE DEF n
<1> QED
  BY <1>2, <1>3 DEF Moved

(* The types of the fields of a push.                                      *)
LEMMA PushFacts ==
  ASSUME TypeOK, NEW m \in pushes
  PROVE  /\ m \in PushRec /\ m.org \in Inst \cup {Source} /\ m.kind \in {"data", "EOS"}
         /\ m.dest \in Keys /\ m.id \in MsgIds /\ m.run \in Runs \cup {0}
         /\ m.pc \in {"send", "locking", "logging", "writing", "acked"}
         /\ m.kind = "data" => m.val \in Lines
         /\ m.pc \in {"logging", "writing"} => m.kind = "data"
         /\ m.pc \in {"locking", "logging", "writing"} =>
              /\ m.run \in Runs /\ Target(m) \in Inst /\ KeyOf(Target(m)) = m.dest
              /\ Target(m)[3] = m.run
<1>1. /\ m \in PushRec
      /\ m.kind = "data" => m.val \in Lines
      /\ m.pc \in {"logging", "writing"} => m.kind = "data"
      /\ m.pc \in {"locking", "logging", "writing"} => m.run # 0
  BY DEF TypeOK, PushesOK
<1>2. m.pc \in {"locking", "logging", "writing"} =>
        Target(m) \in Inst /\ KeyOf(Target(m)) = m.dest /\ Target(m)[3] = m.run
  BY <1>1, TargetType DEF Target
<1> QED
  BY <1>1, <1>2 DEF PushRec

Answered(m) ==
  \/ losses' = losses /\ \E n : Moved(m, "acked", m.run, n)
  \/ losses' = losses + 1 /\ \E n : Moved(m, "send", 0, n)

(* The reply arrives and the goroutine ends its loop, or it is lost and    *)
(* the tuple is sent again.                                                *)
LEMMA AnswerTo ==
  ASSUME TypeOK, NEW m \in pushes, Answer(m)
  PROVE  Answered(m)
<1>1. PushesOK /\ m.run \in Runs \cup {0}
  BY PushFacts DEF TypeOK
<1>2. Move(m, "acked", m.run) => \E n : Moved(m, "acked", m.run, n)
  BY <1>1, MoveTo
<1>3. Move(m, "send", 0) => \E n : Moved(m, "send", 0, n)
  BY <1>1, MoveTo
<1> QED
  BY <1>2, <1>3 DEF Answer, Answered

(* What a PushTuple call leaves alone.                                     *)
PushFrame ==
  /\ UNCHANGED <<rsTasks, pids, runs, output, source, reports, restart, FinishedTasks>>
  /\ UNCHANGED <<killing, kills>>

(* Effect of PushLookup: the push has the task that is registered now.     *)
LEMMA PushLookupOp ==
  ASSUME TypeOK, NEW m \in pushes, PushLookup(m)
  PROVE  /\ m.pc = "send" /\ rsTasks[m.dest] \in Runs
         /\ \E n : Moved(m, "locking", rsTasks[m.dest], n)
         /\ PushFrame /\ UNCHANGED <<task, dedup, losses, fails>>
<1>1. rsTasks[m.dest] \in Runs
  BY PushFacts DEF PushLookup, TypeOK, NodeOK
<1>2. \E n : Moved(m, "locking", rsTasks[m.dest], n)
  BY <1>1, MoveTo DEF PushLookup, TypeOK
<1> QED
  BY <1>1, <1>2 DEF PushLookup, PushFrame, nodeVars, files, leaderVars, faults

(* Effect of PushEOS: the EOS is counted, and the last one closes stdin.   *)
LEMMA PushEOSOp ==
  ASSUME TypeOK, NEW m \in pushes, PushEOS(m)
  PROVE  /\ m.pc = "locking" /\ m.kind = "EOS"
         /\ \E c \in {"open", "closed"} :
              /\ c = IF task[Target(m)].EOSCount + 1 >= NumUpstream(Target(m))
                       THEN "closed" ELSE task[Target(m)].pipe
              /\ LET i == Target(m) IN
                 TaskBecomes(i, task[i].proc, task[i].Stdin, c, task[i].Stdout,
                             task[i].ProcessedIDs, task[i].SeqNum, task[i].EOSCount + 1,
                             task[i].lock, task[i].replay, task[i].handler)
         /\ Answered(m) /\ PushFrame /\ UNCHANGED <<dedup, fails>>
<1> DEFINE i == Target(m)
           c == IF task[i].EOSCount + 1 >= NumUpstream(i) THEN "closed" ELSE task[i].pipe
<1>1. i \in Inst
  BY PushFacts DEF PushEOS
<1>2. task[i].EOSCount + 1 \in Nat /\ c \in {"open", "closed"} /\ TaskOK
  BY <1>1, FieldTypes DEF TypeOK
<1>3. task' = [task EXCEPT ![i].EOSCount = task[i].EOSCount + 1, ![i].pipe = c]
  BY DEF PushEOS
<1>4. TaskBecomes(i, task[i].proc, task[i].Stdin, c, task[i].Stdout,
                  task[i].ProcessedIDs, task[i].SeqNum, task[i].EOSCount + 1,
                  task[i].lock, task[i].replay, task[i].handler)
  <2> HIDE DEF i, c
  <2> QED
    BY <1>1, <1>2, <1>3, EOSSet
<1>5. Answered(m)
  BY AnswerTo DEF PushEOS
<1>6. PushFrame /\ UNCHANGED <<dedup, fails>> /\ m.pc = "locking" /\ m.kind = "EOS"
  BY DEF PushEOS, PushFrame, nodeVars, files, leaderVars
<1> QED
  BY <1>2, <1>4, <1>5, <1>6

(* Effect of PushDuplicate: a known tuple is answered, nothing else.       *)
LEMMA PushDuplicateOp ==
  ASSUME TypeOK, NEW m \in pushes, PushDuplicate(m)
  PROVE  /\ m.pc = "locking" /\ m.kind = "data" /\ m.id \in task[Target(m)].ProcessedIDs
         /\ Answered(m) /\ PushFrame /\ UNCHANGED <<task, dedup, fails>>
BY AnswerTo DEF PushDuplicate, PushFrame, nodeVars, files, leaderVars

(* The lock of the target is all that changes in a task.                   *)
LockBecomes(i, l) ==
  TaskBecomes(i, task[i].proc, task[i].Stdin, task[i].pipe, task[i].Stdout,
              task[i].ProcessedIDs, task[i].SeqNum, task[i].EOSCount, l,
              task[i].replay, task[i].handler)

(* Effect of PushFresh: a new tuple takes the lock of the task.            *)
LEMMA PushFreshOp ==
  ASSUME TypeOK, NEW m \in pushes, PushFresh(m)
  PROVE  /\ m.pc = "locking" /\ m.kind = "data" /\ task[Target(m)].lock = "free"
         /\ m.id \notin task[Target(m)].ProcessedIDs
         /\ LockBecomes(Target(m), "push")
         /\ \E n : Moved(m, "logging", m.run, n)
         /\ PushFrame /\ UNCHANGED <<dedup, losses, fails>>
<1>1. Target(m) \in Inst /\ m.run \in Runs \cup {0} /\ TaskOK /\ PushesOK
  BY PushFacts DEF PushFresh, TypeOK
<1>2. task' = [task EXCEPT ![Target(m)].lock = "push"] /\ Move(m, "logging", m.run)
  BY DEF PushFresh
<1>3. LockBecomes(Target(m), "push")
  BY <1>1, <1>2, LockSet DEF LockBecomes
<1>4. \E n : Moved(m, "logging", m.run, n)
  BY <1>1, <1>2, MoveTo
<1> QED
  BY <1>3, <1>4 DEF PushFresh, PushFrame, nodeVars, files, leaderVars, faults

(* Effect of PushLog: the tuple is in the dedup log.                       *)
LEMMA PushLogOp ==
  ASSUME TypeOK, NEW m \in pushes, PushLog(m)
  PROVE  /\ m.pc = "logging" /\ AppendDedup(m)
         /\ \E n : Moved(m, "writing", m.run, n)
         /\ PushFrame /\ UNCHANGED <<task, losses, fails>>
<1>1. m.run \in Runs \cup {0} /\ PushesOK
  BY PushFacts DEF PushLog, TypeOK
<1>2. \E n : Moved(m, "writing", m.run, n)
  BY <1>1, MoveTo DEF PushLog
<1> QED
  BY <1>2 DEF PushLog, PushFrame, nodeVars, leaderVars, faults

(* Effect of PushLogFails: the lock is free and the tuple is sent again.   *)
LEMMA PushLogFailsOp ==
  ASSUME TypeOK, NEW m \in pushes, PushLogFails(m)
  PROVE  /\ m.pc = "logging" /\ LockBecomes(Target(m), "free")
         /\ \E n : Moved(m, "send", 0, n)
         /\ fails' = fails + 1 /\ PushFrame /\ UNCHANGED losses
<1>1. Target(m) \in Inst /\ TaskOK /\ PushesOK
  BY PushFacts DEF PushLogFails, TypeOK
<1>2. task' = [task EXCEPT ![Target(m)].lock = "free"] /\ Move(m, "send", 0)
  BY DEF PushLogFails, Refuse
<1>3. LockBecomes(Target(m), "free")
  BY <1>1, <1>2, LockSet DEF LockBecomes
<1>4. \E n : Moved(m, "send", 0, n)
  BY <1>1, <1>2, MoveTo
<1> QED
  BY <1>3, <1>4 DEF PushLogFails, PushFrame, nodeVars, leaderVars

(* Effect of PushWrite: the tuple is in stdin and marked, and answered.    *)
LEMMA PushWriteOp ==
  ASSUME TypeOK, NEW m \in pushes, PushWrite(m)
  PROVE  /\ m.pc = "writing" /\ Writable(Target(m))
         /\ LET i == Target(m) IN
            TaskBecomes(i, task[i].proc, Append(task[i].Stdin, m.val), task[i].pipe,
                        task[i].Stdout, task[i].ProcessedIDs \cup {m.id}, task[i].SeqNum,
                        task[i].EOSCount, "free", task[i].replay, task[i].handler)
         /\ Answered(m) /\ PushFrame /\ UNCHANGED <<dedup, fails>>
<1> DEFINE i == Target(m)
           x == Append(task[i].Stdin, m.val)
           s == task[i].ProcessedIDs \cup {m.id}
<1>1. i \in Inst /\ m.val \in Lines /\ m.id \in MsgIds
  BY PushFacts DEF PushWrite
<1>2. x \in Seq(Lines) /\ s \in SUBSET MsgIds /\ TaskOK
  BY <1>1, FieldTypes DEF TypeOK
<1>3. task' = [task EXCEPT ![i].Stdin = x, ![i].ProcessedIDs = s, ![i].lock = "free"]
  BY DEF PushWrite
<1>4. TaskBecomes(i, task[i].proc, x, task[i].pipe, task[i].Stdout, s,
                  task[i].SeqNum, task[i].EOSCount, "free", task[i].replay,
                  task[i].handler)
  <2> HIDE DEF i, x, s
  <2> QED
    BY <1>1, <1>2, <1>3, WriteSet
<1>5. Answered(m)
  BY AnswerTo DEF PushWrite
<1>6. PushFrame /\ UNCHANGED <<dedup, fails>> /\ m.pc = "writing" /\ Writable(i)
  BY DEF PushWrite, PushFrame, nodeVars, files, leaderVars
<1> QED
  BY <1>4, <1>5, <1>6

(* Effect of PushWriteFails: the lock is free and the tuple is sent again. *)
LEMMA PushWriteFailsOp ==
  ASSUME TypeOK, NEW m \in pushes, PushWriteFails(m)
  PROVE  /\ m.pc = "writing" /\ LockBecomes(Target(m), "free")
         /\ \E n : Moved(m, "send", 0, n)
         /\ PushFrame /\ UNCHANGED <<dedup, losses, fails>>
<1>1. Target(m) \in Inst /\ TaskOK /\ PushesOK
  BY PushFacts DEF PushWriteFails, TypeOK
<1>2. task' = [task EXCEPT ![Target(m)].lock = "free"] /\ Move(m, "send", 0)
  BY DEF PushWriteFails, Refuse
<1>3. LockBecomes(Target(m), "free")
  BY <1>1, <1>2, LockSet DEF LockBecomes
<1>4. \E n : Moved(m, "send", 0, n)
  BY <1>1, <1>2, MoveTo
<1> QED
  BY <1>3, <1>4 DEF PushWriteFails, PushFrame, nodeVars, files, leaderVars, faults

-----------------------------------------------------------------------------
(* New pushes.                                                             *)

Created(n, org, dest, id, v) ==
  /\ n \in PushRec /\ n.org = org /\ n.kind = "data" /\ n.dest = dest /\ n.id = id
  /\ n.val = v /\ n.pc = "send" /\ n.run = 0

(* The fields of a new data push.                                          *)
LEMMA DataPushFacts ==
  ASSUME NEW org \in Inst \cup {Source}, NEW dest \in Keys, NEW id \in MsgIds,
         NEW v \in Lines
  PROVE  Created(DataPush(org, dest, id, v), org, dest, id, v)
BY StreamAssumption DEF DataPush, PushRec, Lines, Created

(* The fields of the EOS pushes to a stage, one for each of its tasks.     *)
LEMMA EOSPushFacts ==
  ASSUME NEW org \in Inst \cup {Source}, NEW s \in Stages
  PROVE  /\ \A e \in EOSPushes(org, s) :
              /\ e \in PushRec /\ e.org = org /\ e.kind = "EOS" /\ e.dest[1] = s
              /\ e.dest \in Keys /\ e.pc = "send" /\ e.run = 0
         /\ \A e, f \in EOSPushes(org, s) : e.dest = f.dest => e = f
<1>1. EOSId \in MsgIds
  BY StreamAssumption DEF EOSId, MsgIds, Tasks
<1>2. 0 \in 0 .. NumLines
  BY StreamAssumption
<1>3. \A t \in Tasks : <<s, t>> \in Keys /\ <<s, t>>[1] = s
  BY DEF Keys
<1> QED
  BY <1>1, <1>2, <1>3 DEF EOSPushes, PushRec

(* What the source leaves alone.                                           *)
SourceFrame ==
  /\ UNCHANGED <<task, rsTasks, pids, runs, dedup, output, reports, restart, FinishedTasks>>
  /\ UNCHANGED <<killing, kills, losses, fails>>

(* Effect of SourceLine: one push with the next sequence number.           *)
LEMMA SourceLineOp ==
  ASSUME TypeOK, SourceLine
  PROVE  /\ source.pc = "stream" /\ source.seq + 1 \in Lines
         /\ source'.pc = "stream" /\ source'.seq = source.seq + 1 /\ SourceFrame
         /\ <<1, (source.seq + 1) % NumTasks>> \in Keys
         /\ \E n : /\ pushes' = pushes \cup {n}
                   /\ Created(n, Source, <<1, (source.seq + 1) % NumTasks>>,
                              <<0, 0, source.seq + 1>>, source.seq + 1)
<1> USE StreamAssumption
<1> DEFINE seq == source.seq + 1
<1>1. seq \in Lines /\ source.seq \in Nat
  BY DEF SourceLine, TypeOK, SourceOK, Lines
<1>2. <<1, seq % NumTasks>> \in Keys /\ <<0, 0, seq>> \in MsgIds
  <2>1. seq \in Nat
    BY <1>1
  <2> HIDE DEF seq
  <2>2. seq % NumTasks \in Tasks
    BY <2>1 DEF Tasks
  <2>3. 1 \in Stages /\ 0 \in Tasks /\ 0 \in 0 .. NumStages
    BY DEF Stages, Tasks
  <2> QED
    BY <2>1, <2>2, <2>3 DEF Keys, MsgIds
<1>3. Created(DataPush(Source, <<1, seq % NumTasks>>, <<0, 0, seq>>, seq),
              Source, <<1, seq % NumTasks>>, <<0, 0, seq>>, seq)
  BY <1>1, <1>2, DataPushFacts
<1>4. source'.pc = "stream" /\ source'.seq = seq
  BY DEF SourceLine, TypeOK, SourceOK
<1>5. SourceFrame /\ source.pc = "stream"
  BY DEF SourceLine, SourceFrame, nodeVars, files, leaderVars, faults
<1>6. pushes' = pushes \cup {DataPush(Source, <<1, seq % NumTasks>>, <<0, 0, seq>>, seq)}
  BY DEF SourceLine
<1> QED
  BY <1>1, <1>2, <1>3, <1>4, <1>5, <1>6

(* Effect of SourceEOS: every line is acknowledged and the EOSs go out.    *)
LEMMA SourceEOSOp ==
  ASSUME TypeOK, SourceEOS
  PROVE  /\ source.pc = "stream" /\ source.seq = NumLines /\ AllAcked(Source)
         /\ source'.pc = "eos" /\ source'.seq = source.seq
         /\ pushes' = pushes \cup EOSPushes(Source, 1) /\ SourceFrame
BY DEF SourceEOS, SourceFrame, nodeVars, files, leaderVars, faults, TypeOK, SourceOK

(* Effect of SourceDone: the source ends.                                  *)
LEMMA SourceDoneOp ==
  ASSUME TypeOK, SourceDone
  PROVE  /\ source.pc = "eos" /\ source'.pc = "done" /\ source'.seq = source.seq
         /\ pushes' = pushes /\ SourceFrame
BY DEF SourceDone, SourceFrame, nodeVars, files, leaderVars, faults, TypeOK, SourceOK

-----------------------------------------------------------------------------
(* Instances.                                                              *)

LEMMA InstFacts ==
  ASSUME NEW i \in Inst
  PROVE  /\ KeyOf(i) \in Keys /\ i[1] \in Stages /\ i[2] \in Tasks /\ i[3] \in Runs
         /\ KeyOf(i)[1] = i[1] /\ KeyOf(i)[2] = i[2]
         /\ i = <<i[1], i[2], i[3]>> /\ i # Source
BY DEF Inst, Keys, KeyOf, Source, Stages

NodeFrame ==
  /\ UNCHANGED <<rsTasks, pids, runs, dedup, source, restart, FinishedTasks>>
  /\ UNCHANGED <<killing, losses>>

(* Effect of Operator: a line leaves stdin, and enters stdout if it        *)
(* passes.                                                                 *)
LEMMA OperatorOp ==
  ASSUME TypeOK, NEW i \in Inst, Operator(i)
  PROVE  /\ task[i].proc = "running" /\ task[i].Stdin # <<>>
         /\ \E y \in Seq(Lines) :
              /\ y = IF <<i[1], Head(task[i].Stdin)>> \in Passes
                       THEN Append(task[i].Stdout, Head(task[i].Stdin)) ELSE task[i].Stdout
              /\ TaskBecomes(i, task[i].proc, Tail(task[i].Stdin), task[i].pipe, y,
                             task[i].ProcessedIDs, task[i].SeqNum, task[i].EOSCount,
                             task[i].lock, task[i].replay, task[i].handler)
         /\ NodeFrame /\ UNCHANGED <<pushes, output, reports, kills, fails>>
<1> DEFINE v == Head(task[i].Stdin)
           x == Tail(task[i].Stdin)
           y == IF <<i[1], v>> \in Passes THEN Append(task[i].Stdout, v) ELSE task[i].Stdout
<1>1. TaskOK /\ task[i].Stdin \in Seq(Lines) /\ task[i].Stdout \in Seq(Lines)
  BY FieldTypes DEF TypeOK
<1>2. v \in Lines /\ x \in Seq(Lines) /\ y \in Seq(Lines)
  BY <1>1 DEF Operator
<1>3. task' = [task EXCEPT ![i].Stdin = x, ![i].Stdout = y]
  BY DEF Operator
<1>4. TaskBecomes(i, task[i].proc, x, task[i].pipe, y, task[i].ProcessedIDs,
                  task[i].SeqNum, task[i].EOSCount, task[i].lock, task[i].replay,
                  task[i].handler)
  <2> HIDE DEF x, y
  <2> QED
    BY <1>1, <1>2, <1>3, PipesSet
<1> QED
  BY <1>2, <1>4 DEF Operator, NodeFrame, nodeVars, files, leaderVars, faults

(* Effect of OperatorExit: the operator dies of an empty, closed stdin.    *)
LEMMA OperatorExitOp ==
  ASSUME TypeOK, NEW i \in Inst, OperatorExit(i)
  PROVE  /\ task[i].proc = "running" /\ task[i].pipe = "closed" /\ task[i].Stdin = <<>>
         /\ TaskBecomes(i, "dead", task[i].Stdin, task[i].pipe, task[i].Stdout,
                        task[i].ProcessedIDs, task[i].SeqNum, task[i].EOSCount,
                        task[i].lock, task[i].replay, task[i].handler)
         /\ NodeFrame /\ UNCHANGED <<pushes, output, reports, kills, fails>>
<1>1. TaskOK /\ task[i] \in TaskRec /\ task[i].Stdin \in Seq(Lines)
  BY FieldTypes DEF TypeOK
<1>2. task' = [task EXCEPT ![i].proc = "dead", ![i].Stdin = task[i].Stdin]
  BY <1>1 DEF OperatorExit, TaskOK, TaskRec
<1>3. TaskBecomes(i, "dead", task[i].Stdin, task[i].pipe, task[i].Stdout,
                  task[i].ProcessedIDs, task[i].SeqNum, task[i].EOSCount,
                  task[i].lock, task[i].replay, task[i].handler)
  BY <1>1, <1>2, DeadSet
<1> QED
  BY <1>3 DEF OperatorExit, NodeFrame, nodeVars, files, leaderVars, faults

(* Effect of ReplayLock: the replay takes the lock.                        *)
LEMMA ReplayLockOp ==
  ASSUME TypeOK, NEW i \in Inst, ReplayLock(i)
  PROVE  /\ task[i].replay # <<>> /\ task[i].lock = "free" /\ LockBecomes(i, "replay")
         /\ NodeFrame /\ UNCHANGED <<pushes, output, reports, kills, fails>>
BY LockSet DEF TypeOK, LockBecomes, ReplayLock, NodeFrame, nodeVars, files, leaderVars, faults

(* Effect of ReplayWrite: the replay goes on by one line.                  *)
LEMMA ReplayWriteOp ==
  ASSUME TypeOK, NEW i \in Inst, ReplayWrite(i)
  PROVE  /\ task[i].replay # <<>> /\ task[i].lock = "replay"
         /\ \E x \in Seq(Lines), y \in Seq(Entries) :
              /\ ~Writable(i) => x = task[i].Stdin
              /\ TaskBecomes(i, task[i].proc, x, task[i].pipe, task[i].Stdout,
                             task[i].ProcessedIDs, task[i].SeqNum, task[i].EOSCount,
                             "free", y, task[i].handler)
         /\ NodeFrame /\ UNCHANGED <<pushes, output, reports, kills, fails>>
<1> DEFINE x == IF Writable(i) THEN Append(task[i].Stdin, Head(task[i].replay)[2])
                               ELSE task[i].Stdin
           y == Tail(task[i].replay)
<1>1. TaskOK /\ task[i].Stdin \in Seq(Lines) /\ task[i].replay \in Seq(Entries)
  BY FieldTypes DEF TypeOK
<1>2. Head(task[i].replay) \in Entries /\ y \in Seq(Entries)
  BY <1>1 DEF ReplayWrite
<1>3. Head(task[i].replay)[2] \in Lines
  BY <1>2 DEF Entries
<1>4. x \in Seq(Lines)
  BY <1>1, <1>3
<1>5. task' = [task EXCEPT ![i].Stdin = x, ![i].replay = y, ![i].lock = "free"]
  BY DEF ReplayWrite
<1>6. TaskBecomes(i, task[i].proc, x, task[i].pipe, task[i].Stdout,
                  task[i].ProcessedIDs, task[i].SeqNum, task[i].EOSCount, "free", y,
                  task[i].handler)
  <2> HIDE DEF x, y
  <2> QED
    BY <1>1, <1>2, <1>4, <1>5, ReplaySet
<1> QED
  BY <1>2, <1>4, <1>6 DEF ReplayWrite, NodeFrame, nodeVars, files, leaderVars, faults

(* Effect of HandleOutput: a line of stdout becomes a push to the next     *)
(* stage, or a line of the output.                                         *)
LEMMA HandleOutputOp ==
  ASSUME TypeOK, NEW i \in Inst, HandleOutput(i)
  PROVE  LET v == Head(task[i].Stdout)
             k == <<i[1] + 1, KeyHash[v] % NumTasks>>
             id == <<i[1], i[2], task[i].SeqNum + 1>>
         IN
         /\ task[i].handler = "scan" /\ task[i].Stdout # <<>> /\ task[i].lock = "free"
         /\ v \in Lines
         /\ TaskBecomes(i, task[i].proc, task[i].Stdin, task[i].pipe, Tail(task[i].Stdout),
                        task[i].ProcessedIDs, task[i].SeqNum + 1, task[i].EOSCount,
                        task[i].lock, task[i].replay, task[i].handler)
         /\ \/ /\ IsLastStage(i) /\ pushes' = pushes
               /\ \/ output' = Append(output, v) /\ UNCHANGED fails
                  \/ fails' = fails + 1 /\ output' \in {output, Append(output, v)}
            \/ /\ ~IsLastStage(i) /\ UNCHANGED <<output, fails>> /\ k \in Keys
               /\ \E n : pushes' = pushes \cup {n} /\ Created(n, i, k, id, v)
         /\ NodeFrame /\ UNCHANGED <<reports, kills>>
<1> DEFINE v == Head(task[i].Stdout)
           k == <<i[1] + 1, KeyHash[v] % NumTasks>>
           id == <<i[1], i[2], task[i].SeqNum + 1>>
           x == Tail(task[i].Stdout)
           n == task[i].SeqNum + 1
<1>1. TaskOK /\ task[i].Stdout \in Seq(Lines) /\ task[i].SeqNum \in Nat
  BY FieldTypes DEF TypeOK
<1>2. v \in Lines /\ x \in Seq(Lines) /\ n \in Nat
  BY <1>1 DEF HandleOutput
<1>3. task' = [task EXCEPT ![i].Stdout = x, ![i].SeqNum = n]
  BY DEF HandleOutput
<1>4. TaskBecomes(i, task[i].proc, task[i].Stdin, task[i].pipe, x,
                  task[i].ProcessedIDs, n, task[i].EOSCount, task[i].lock,
                  task[i].replay, task[i].handler)
  <2> HIDE DEF x, n
  <2> QED
    BY <1>1, <1>2, <1>3, OutSet
<1>5. ASSUME ~IsLastStage(i) PROVE k \in Keys /\ id \in MsgIds /\ Created(DataPush(i, k, id, v), i, k, id, v)
  <2>1. i[1] \in Stages /\ i[2] \in Tasks
    BY InstFacts
  <2>2. KeyHash[v] % NumTasks \in Tasks
    BY <1>2, StreamAssumption DEF Tasks
  <2>3. k \in Keys /\ id \in MsgIds
    BY <1>2, <1>5, <2>1, <2>2, StreamAssumption DEF Keys, Stages, MsgIds, IsLastStage
  <2> QED
    BY <1>2, <2>3, DataPushFacts
<1>6. \/ /\ IsLastStage(i) /\ pushes' = pushes
         /\ \/ output' = Append(output, v) /\ UNCHANGED fails
            \/ fails' = fails + 1 /\ output' \in {output, Append(output, v)}
      \/ /\ ~IsLastStage(i) /\ UNCHANGED <<output, fails>>
         /\ pushes' = pushes \cup {DataPush(i, k, id, v)}
  BY DEF HandleOutput
<1>7. task[i].handler = "scan" /\ task[i].Stdout # <<>> /\ task[i].lock = "free"
  BY DEF HandleOutput
<1>8. NodeFrame /\ UNCHANGED <<reports, kills>>
  BY DEF HandleOutput, NodeFrame, nodeVars, leaderVars
<1> QED
  <2> HIDE DEF v, k, id, x, n
  <2>1. \/ /\ IsLastStage(i) /\ pushes' = pushes
           /\ \/ output' = Append(output, v) /\ UNCHANGED fails
              \/ fails' = fails + 1 /\ output' \in {output, Append(output, v)}
        \/ /\ ~IsLastStage(i) /\ UNCHANGED <<output, fails>> /\ k \in Keys
           /\ \E d : pushes' = pushes \cup {d} /\ Created(d, i, k, id, v)
    BY <1>5, <1>6
  <2> QED
    BY <1>2, <1>4, <1>7, <1>8, <2>1 DEF v, k, id, x, n

(* Effect of HandleEOF: the output goroutine reports, or sends its EOSs    *)
(* first.                                                                  *)
LEMMA HandleEOFOp ==
  ASSUME TypeOK, NEW i \in Inst, HandleEOF(i)
  PROVE  /\ task[i].handler = "scan" /\ AtEOF(i) /\ AllAcked(i)
         /\ \E h \in {"eos", "done"} :
              /\ TaskBecomes(i, task[i].proc, task[i].Stdin, task[i].pipe, task[i].Stdout,
                             task[i].ProcessedIDs, task[i].SeqNum, task[i].EOSCount,
                             task[i].lock, task[i].replay, h)
              /\ \/ /\ h = "eos" /\ IsSuccess(i) /\ i[1] + 1 \in Stages
                    /\ pushes' = pushes \cup EOSPushes(i, i[1] + 1) /\ UNCHANGED reports
                 \/ /\ h = "done" /\ pushes' = pushes
                    /\ \E r : /\ reports' = reports \cup {r} /\ r.inst = i
                              /\ r.status = IF IsSuccess(i) THEN "Success" ELSE "Failure"
         /\ NodeFrame /\ UNCHANGED <<output, kills, fails>>
<1> DEFINE h == IF IsSuccess(i) /\ ~IsLastStage(i) THEN "eos" ELSE "done"
           r == [inst |-> i, status |-> IF IsSuccess(i) THEN "Success" ELSE "Failure"]
<1>1. h \in {"eos", "done"}
  OBVIOUS
<1>2. task' = [task EXCEPT ![i].handler = h]
  BY DEF HandleEOF
<1>3. TaskBecomes(i, task[i].proc, task[i].Stdin, task[i].pipe, task[i].Stdout,
                  task[i].ProcessedIDs, task[i].SeqNum, task[i].EOSCount,
                  task[i].lock, task[i].replay, h)
  <2> HIDE DEF h
  <2> QED
    BY <1>1, <1>2, HandlerSet DEF TypeOK
<1>4. ~IsLastStage(i) => i[1] + 1 \in Stages
  BY InstFacts, StreamAssumption DEF IsLastStage, Stages
<1>5. \/ /\ h = "eos" /\ IsSuccess(i) /\ i[1] + 1 \in Stages
         /\ pushes' = pushes \cup EOSPushes(i, i[1] + 1) /\ UNCHANGED reports
      \/ /\ h = "done" /\ pushes' = pushes
         /\ reports' = reports \cup {r}
  BY <1>4 DEF HandleEOF, Report
<1>6. r.inst = i /\ r.status = IF IsSuccess(i) THEN "Success" ELSE "Failure"
  OBVIOUS
<1>7. NodeFrame /\ UNCHANGED <<output, kills, fails>>
  BY DEF HandleEOF, NodeFrame, nodeVars, files, faults
<1>8. task[i].handler = "scan" /\ AtEOF(i) /\ AllAcked(i)
  BY DEF HandleEOF
<1> HIDE DEF h, r
<1> QED
  BY <1>1, <1>3, <1>5, <1>6, <1>7, <1>8

(* Effect of HandleEOSSent: the EOSs are answered and the task reports.    *)
LEMMA HandleEOSSentOp ==
  ASSUME TypeOK, NEW i \in Inst, HandleEOSSent(i)
  PROVE  /\ task[i].handler = "eos"
         /\ TaskBecomes(i, task[i].proc, task[i].Stdin, task[i].pipe, task[i].Stdout,
                        task[i].ProcessedIDs, task[i].SeqNum, task[i].EOSCount,
                        task[i].lock, task[i].replay, "done")
         /\ \E r : reports' = reports \cup {r} /\ r.inst = i /\ r.status = "Success"
         /\ NodeFrame /\ UNCHANGED <<pushes, output, kills, fails>>
<1> DEFINE r == [inst |-> i, status |-> "Success"]
<1>1. TaskBecomes(i, task[i].proc, task[i].Stdin, task[i].pipe, task[i].Stdout,
                  task[i].ProcessedIDs, task[i].SeqNum, task[i].EOSCount,
                  task[i].lock, task[i].replay, "done")
  BY HandlerSet DEF HandleEOSSent, TypeOK
<1>2. reports' = reports \cup {r} /\ r.inst = i /\ r.status = "Success"
  BY DEF HandleEOSSent, Report
<1> HIDE DEF r
<1> QED
  BY <1>1, <1>2 DEF HandleEOSSent, NodeFrame, nodeVars, files, faults

-----------------------------------------------------------------------------
(* The leader and the failures.                                            *)

LeaderFrame ==
  /\ UNCHANGED <<pids, dedup, output, pushes, source>>
  /\ UNCHANGED <<killing, kills>>

(* Effect of TaskFinished: a success is counted, a failure restarts the    *)
(* task.                                                                   *)
LEMMA TaskFinishedOp ==
  ASSUME TypeOK, NEW r \in reports, TaskFinished(r)
  PROVE  /\ reports' = reports \ {r} /\ r.inst \in Inst
         /\ \/ /\ r.status = "Success" /\ FinishedTasks' = FinishedTasks + 1
               /\ restart' = restart
            \/ /\ r.status = "Failure" /\ FinishedTasks' = FinishedTasks
               /\ restart'[KeyOf(r.inst)].pc = "load"
               /\ \A k \in Keys : k # KeyOf(r.inst) => restart'[k] = restart[k]
         /\ LeaderFrame /\ UNCHANGED <<task, rsTasks, runs, losses, fails>>
<1>1. r.inst \in Inst /\ KeyOf(r.inst) \in Keys
  BY InstFacts DEF TypeOK, LeaderOK
<1> QED
  BY <1>1 DEF TaskFinished, LeaderFrame, nodeVars, files, faults, TypeOK, LeaderOK

(* Effect of ReportLost: the report is gone.                               *)
LEMMA ReportLostOp ==
  ASSUME TypeOK, NEW r \in reports, ReportLost(r)
  PROVE  /\ reports' = reports \ {r} /\ losses' = losses + 1
         /\ LeaderFrame /\ UNCHANGED <<task, rsTasks, runs, restart, FinishedTasks, fails>>
BY DEF ReportLost, LeaderFrame, nodeVars, files

(* Effect of LoadDedupLog: the restart has the dedup log, or an I/O error  *)
(* is counted.                                                             *)
LEMMA LoadDedupLogOp ==
  ASSUME TypeOK, NEW k \in Keys, LoadDedupLog(k)
  PROVE  /\ restart[k].pc = "load" /\ restart'[k].pc = "start"
         /\ \A j \in Keys : j # k => restart'[j] = restart[j]
         /\ \/ restart'[k].log = dedup[k] /\ fails' = fails
            \/ fails' = fails + 1
         /\ LeaderFrame
         /\ UNCHANGED <<task, rsTasks, runs, reports, FinishedTasks, losses>>
BY DEF LoadDedupLog, LeaderFrame, nodeVars, files, TypeOK, LeaderOK

(* The fields of the task that StartTask makes, and of one not started.    *)
LEMMA NewTaskFields ==
  ASSUME NEW log \in Seq(Entries)
  PROVE  /\ NewTask(log) \in TaskRec
         /\ NewTask(log).proc = "running" /\ NewTask(log).Stdin = <<>>
         /\ NewTask(log).pipe = "open" /\ NewTask(log).Stdout = <<>>
         /\ NewTask(log).ProcessedIDs = IdsOf(log) /\ NewTask(log).SeqNum = 0
         /\ NewTask(log).EOSCount = 0 /\ NewTask(log).lock = "free"
         /\ NewTask(log).replay = log /\ NewTask(log).handler = "scan"
BY NewTaskType DEF NewTask

(* The fields of a task that was never started.                            *)
LEMMA NoTaskFields ==
  /\ NoTask.proc = "none" /\ NoTask.Stdin = <<>> /\ NoTask.pipe = "open"
  /\ NoTask.Stdout = <<>> /\ NoTask.ProcessedIDs = {} /\ NoTask.SeqNum = 0
  /\ NoTask.EOSCount = 0 /\ NoTask.lock = "free" /\ NoTask.replay = <<>>
  /\ NoTask.handler = "scan"
<1>1. NewTask(<<>>).ProcessedIDs = {}
  BY IdsOfEmpty DEF NewTask
<1> QED
  BY <1>1 DEF NoTask, NewTask

(* Effect of StartTask: the next run of the key is registered and          *)
(* remembers its log.                                                      *)
LEMMA StartTaskOp ==
  ASSUME TypeOK, NEW k \in Keys, StartTask(k)
  PROVE  LET i == <<k[1], k[2], runs[k] + 1>> IN
         /\ restart[k].pc = "start" /\ i \in Inst /\ KeyOf(i) = k
         /\ TaskBecomes(i, "running", <<>>, "open", <<>>, IdsOf(restart[k].log), 0, 0,
                        "free", restart[k].log, "scan")
         /\ rsTasks'[k] = runs[k] + 1 /\ runs'[k] = runs[k] + 1
         /\ \A j \in Keys : j # k => /\ rsTasks'[j] = rsTasks[j] /\ runs'[j] = runs[j]
                                     /\ restart'[j] = restart[j]
         /\ restart'[k].pc = "none"
         /\ UNCHANGED <<dedup, output, pushes, source, reports, FinishedTasks>>
         /\ UNCHANGED <<killing, kills, losses, fails>>
<1> DEFINE i == <<k[1], k[2], runs[k] + 1>>
           q == NewTask(restart[k].log)
<1>1. /\ TaskOK /\ restart[k].log \in Seq(Entries)
      /\ restart \in [Keys -> [pc: {"none", "load", "start"}, log: Seq(Entries)]]
      /\ rsTasks \in [Keys -> Runs \cup {0}] /\ runs \in [Keys -> Runs]
  BY DEF TypeOK, LeaderOK, NodeOK
<1>2. i \in Inst /\ KeyOf(i) = k
  BY DEF StartTask, Inst, Keys, KeyOf
<1>3. /\ q \in TaskRec /\ q.proc = "running" /\ q.Stdin = <<>> /\ q.pipe = "open"
      /\ q.Stdout = <<>> /\ q.ProcessedIDs = IdsOf(restart[k].log) /\ q.SeqNum = 0
      /\ q.EOSCount = 0 /\ q.lock = "free" /\ q.replay = restart[k].log
      /\ q.handler = "scan"
  BY <1>1, NewTaskFields
<1>4. task' = [task EXCEPT ![i] = q]
  BY DEF StartTask
<1>5. TaskBecomes(i, "running", <<>>, "open", <<>>, IdsOf(restart[k].log), 0, 0,
                  "free", restart[k].log, "scan")
  <2> HIDE DEF q, i
  <2>1. TaskBecomes(i, q.proc, q.Stdin, q.pipe, q.Stdout, q.ProcessedIDs, q.SeqNum,
                    q.EOSCount, q.lock, q.replay, q.handler)
    BY <1>1, <1>2, <1>3, <1>4, TaskSet
  <2> QED
    BY <1>3, <2>1
<1>6. /\ rsTasks'[k] = runs[k] + 1 /\ runs'[k] = runs[k] + 1 /\ restart'[k].pc = "none"
      /\ \A j \in Keys : j # k => /\ rsTasks'[j] = rsTasks[j] /\ runs'[j] = runs[j]
                                  /\ restart'[j] = restart[j]
  BY <1>1 DEF StartTask
<1> QED
  BY <1>2, <1>5, <1>6 DEF StartTask, files, faults

(* Effect of Crash and KillProcess: the process is dead and what stdin     *)
(* held is lost.                                                           *)
LEMMA DieOp ==
  ASSUME TypeOK, NEW i \in Inst, Crash(i) \/ KillProcess(i)
  PROVE  /\ task[i].proc = "running" /\ kills' = kills + 1
         /\ TaskBecomes(i, "dead", <<>>, task[i].pipe, task[i].Stdout, task[i].ProcessedIDs,
                        task[i].SeqNum, task[i].EOSCount, task[i].lock, task[i].replay,
                        task[i].handler)
         /\ UNCHANGED <<rsTasks, pids, runs, dedup, output, pushes, source, reports>>
         /\ UNCHANGED <<restart, FinishedTasks, losses, fails>>
<1>1. Die(i)
  BY DEF Crash, KillProcess
<1>2. TaskOK /\ <<>> \in Seq(Lines)
  BY DEF TypeOK
<1>3. TaskBecomes(i, "dead", <<>>, task[i].pipe, task[i].Stdout, task[i].ProcessedIDs,
                  task[i].SeqNum, task[i].EOSCount, task[i].lock, task[i].replay,
                  task[i].handler)
  BY <1>1, <1>2, DeadSet DEF Die
<1> QED
  BY <1>1, <1>3 DEF Crash, KillProcess, Die, nodeVars, files, leaderVars

(* Effect of KillCleanup: registrations may go, nothing else changes.      *)
LEMMA KillCleanupOp ==
  ASSUME TypeOK, NEW i \in Inst, KillCleanup(i)
  PROVE  /\ \A k \in Keys : rsTasks'[k] \in {0, rsTasks[k]}
         /\ UNCHANGED <<task, runs, dedup, output, pushes, source, reports, restart>>
         /\ UNCHANGED <<FinishedTasks, kills, losses, fails>>
BY DEF KillCleanup, TypeOK, NodeOK, files, leaderVars, faults

-----------------------------------------------------------------------------
(* The processes of a task follow one another.                             *)

(* The latest process of a task.                                           *)
Cur(k) == <<k[1], k[2], runs[k]>>

Unstarted == \A i \in Inst : i[3] > runs[KeyOf(i)] => task[i] = NoTask
EarlierDone == \A i \in Inst : i[3] < runs[KeyOf(i)] => task[i].handler = "done"
HandlerDead == \A i \in Inst : task[i].handler # "scan" => task[i].proc = "dead"
RegisteredCurrent == \A k \in Keys : rsTasks[k] \in {0, runs[k]}
BoundStarted == \A m \in pushes : m.pc # "send" => m.run # 0 /\ m.run <= runs[m.dest]
ReportsCurrent ==
  \A r \in reports : task[r.inst].handler = "done" /\ r.inst[3] = runs[KeyOf(r.inst)]
ReportedOnce == \A r, q \in reports : r.inst = q.inst => r = q
RestartAfterDone ==
  \A k \in Keys : restart[k].pc # "none" =>
    task[Cur(k)].handler = "done" /\ \A r \in reports : KeyOf(r.inst) # k

(* Only the latest process of a task works: the earlier ones have reported *)
(* and later ones are not started; a report, or a restart, is about the    *)
(* latest process and there is at most one of them at a time.              *)
RunInv ==
  /\ Unstarted /\ EarlierDone /\ HandlerDead /\ RegisteredCurrent /\ BoundStarted
  /\ ReportsCurrent /\ ReportedOnce /\ RestartAfterDone

(* The current run of a key is the one instance with its run number.       *)
LEMMA CurFacts ==
  ASSUME TypeOK, NEW k \in Keys
  PROVE  /\ Cur(k) \in Inst /\ KeyOf(Cur(k)) = k /\ Cur(k)[3] = runs[k]
         /\ Cur(k)[1] = k[1] /\ Cur(k)[2] = k[2]
         /\ \A i \in Inst : KeyOf(i) = k /\ i[3] = runs[k] => i = Cur(k)
<1>1. runs[k] \in Runs /\ k[1] \in Stages /\ k[2] \in Tasks /\ k = <<k[1], k[2]>>
  BY DEF TypeOK, NodeOK, Keys
<1>2. Cur(k) \in Inst /\ KeyOf(Cur(k)) = k /\ Cur(k)[3] = runs[k]
      /\ Cur(k)[1] = k[1] /\ Cur(k)[2] = k[2]
  BY <1>1 DEF Cur, Inst, KeyOf
<1>3. ASSUME NEW i \in Inst, KeyOf(i) = k, i[3] = runs[k] PROVE i = Cur(k)
  BY <1>3, InstFacts DEF Cur, KeyOf
<1> QED
  BY <1>2, <1>3

(* Run numbers are natural numbers.                                        *)
LEMMA RunTypes ==
  ASSUME TypeOK
  PROVE  /\ \A k \in Keys : runs[k] \in Nat /\ runs[k] # 0
         /\ \A i \in Inst : i[3] \in Nat /\ runs[KeyOf(i)] \in Nat
         /\ \A m \in pushes : m.run \in Nat /\ runs[m.dest] \in Nat
<1>1. Runs \subseteq Nat \ {0}
  BY StreamAssumption DEF Runs
<1>2. \A k \in Keys : runs[k] \in Runs
  BY DEF TypeOK, NodeOK
<1>3. \A m \in pushes : m.run \in Runs \cup {0} /\ m.dest \in Keys
  BY PushFacts
<1> QED
  BY <1>1, <1>2, <1>3, InstFacts

(* An unfinished process that was started is the latest one of its task.   *)
LEMMA WorkingIsCurrent ==
  ASSUME TypeOK, RunInv, NEW i \in Inst, task[i].handler # "done", task[i].proc # "none"
  PROVE  i = Cur(KeyOf(i)) /\ i[3] = runs[KeyOf(i)]
<1>1. i[3] \in Nat /\ runs[KeyOf(i)] \in Nat /\ KeyOf(i) \in Keys
  BY RunTypes, InstFacts
<1>2. ~(i[3] > runs[KeyOf(i)])
  BY NoTaskFields DEF RunInv, Unstarted
<1>3. ~(i[3] < runs[KeyOf(i)])
  BY DEF RunInv, EarlierDone
<1>4. i[3] = runs[KeyOf(i)]
  BY <1>1, <1>2, <1>3
<1> QED
  BY <1>1, <1>4, CurFacts

(* What never goes back in a task.                                         *)
Aged(j) ==
  /\ task[j].proc = "dead" => task'[j].proc = "dead"
  /\ task[j].ProcessedIDs \subseteq task'[j].ProcessedIDs
  /\ task[j].EOSCount <= task'[j].EOSCount
  /\ task[j].handler = "done" => task'[j].handler = "done"
  /\ task[j].handler # "scan" => task'[j].handler # "scan"

(* A PushTuple step: one push moves, and of its target only stdin, the     *)
(* processed ids, the EOS count and the lock may change.                   *)
PushQuiet(m) ==
  /\ PushFrame
  /\ \E p, q, n : Moved(m, p, q, n) /\ (p # "send" => q # 0 /\ q <= runs[m.dest])
  /\ \A j \in Inst :
       /\ Aged(j)
       /\ j[3] > runs[KeyOf(j)] => task'[j] = task[j]
       /\ task'[j].handler = task[j].handler /\ task'[j].proc = task[j].proc
       /\ task'[j].Stdout = task[j].Stdout /\ task'[j].SeqNum = task[j].SeqNum
       /\ task'[j].replay = task[j].replay

(* A step of PushTuple starts no task, ends none and reports nothing.      *)
LEMMA PushIsQuiet ==
  ASSUME TypeOK, RunInv, NEW m \in pushes, PushStep(m)
  PROVE  PushQuiet(m)
<1>t. \A j \in Inst : task[j].EOSCount \in Nat
  BY FieldTypes DEF TypeOK
<1>u. \A j \in Inst : task[j].EOSCount <= task[j].EOSCount /\ task[j].EOSCount <= task[j].EOSCount + 1
  BY <1>t
<1>s. ASSUME task' = task
      PROVE  \A j \in Inst :
               /\ Aged(j) /\ task'[j] = task[j]
               /\ task'[j].handler = task[j].handler /\ task'[j].proc = task[j].proc
               /\ task'[j].Stdout = task[j].Stdout /\ task'[j].SeqNum = task[j].SeqNum
               /\ task'[j].replay = task[j].replay
  BY <1>s, <1>u DEF Aged
<1>b. m.pc # "send" => m.run # 0 /\ m.run <= runs[m.dest]
  BY DEF RunInv, BoundStarted
<1>i. m.pc \in {"locking", "logging", "writing"} =>
        /\ Target(m) \in Inst /\ KeyOf(Target(m)) = m.dest
        /\ ~(Target(m)[3] > runs[m.dest])
  <2>1. m.run \in Nat /\ runs[m.dest] \in Nat
    BY RunTypes
  <2>2. m.pc \in {"locking", "logging", "writing"} =>
          Target(m) \in Inst /\ KeyOf(Target(m)) = m.dest /\ Target(m)[3] = m.run
    BY PushFacts
  <2> QED
    BY <1>b, <2>1, <2>2
<1>c. ASSUME NEW c, NEW s, NEW e, NEW l, NEW x,
             m.pc \in {"locking", "logging", "writing"},
             task[Target(m)].ProcessedIDs \subseteq s, task[Target(m)].EOSCount <= e,
             TaskBecomes(Target(m), task[Target(m)].proc, x, c, task[Target(m)].Stdout, s,
                         task[Target(m)].SeqNum, e, l, task[Target(m)].replay,
                         task[Target(m)].handler)
      PROVE  \A j \in Inst :
               /\ Aged(j)
               /\ j[3] > runs[KeyOf(j)] => task'[j] = task[j]
               /\ task'[j].handler = task[j].handler /\ task'[j].proc = task[j].proc
               /\ task'[j].Stdout = task[j].Stdout /\ task'[j].SeqNum = task[j].SeqNum
               /\ task'[j].replay = task[j].replay
  <2> DEFINE i == Target(m)
  <2>1. i \in Inst /\ ~(i[3] > runs[KeyOf(i)])
    BY <1>c, <1>i
  <2> HIDE DEF i
  <2> SUFFICES ASSUME NEW j \in Inst
               PROVE  /\ Aged(j)
                      /\ j[3] > runs[KeyOf(j)] => task'[j] = task[j]
                      /\ task'[j].handler = task[j].handler /\ task'[j].proc = task[j].proc
                      /\ task'[j].Stdout = task[j].Stdout /\ task'[j].SeqNum = task[j].SeqNum
                      /\ task'[j].replay = task[j].replay
    OBVIOUS
  <2>2. CASE j = i
    BY <1>c, <2>1, <2>2 DEF Aged, TaskBecomes, i
  <2>3. CASE j # i
    <3>1. task'[j] = task[j]
      BY <1>c, <2>3 DEF TaskBecomes, i
    <3> QED
      BY <1>u, <3>1 DEF Aged
  <2> QED
    BY <2>2, <2>3
<1>a. ASSUME Answered(m), m.pc # "send"
      PROVE  \E p, q, n : Moved(m, p, q, n) /\ (p # "send" => q # 0 /\ q <= runs[m.dest])
  BY <1>a, <1>b DEF Answered
<1>l. ASSUME NEW l, LockBecomes(Target(m), l), m.pc \in {"locking", "logging", "writing"}
      PROVE  \A j \in Inst :
               /\ Aged(j)
               /\ j[3] > runs[KeyOf(j)] => task'[j] = task[j]
               /\ task'[j].handler = task[j].handler /\ task'[j].proc = task[j].proc
               /\ task'[j].Stdout = task[j].Stdout /\ task'[j].SeqNum = task[j].SeqNum
               /\ task'[j].replay = task[j].replay
  BY <1>c, <1>l, <1>i, <1>u DEF LockBecomes
<1>1. CASE PushLookup(m)
  <2>1. rsTasks[m.dest] # 0 /\ rsTasks[m.dest] <= runs[m.dest]
    <3>1. rsTasks[m.dest] # 0
      BY <1>1 DEF PushLookup
    <3>2. rsTasks[m.dest] = runs[m.dest]
      BY <3>1, PushFacts DEF RunInv, RegisteredCurrent
    <3> QED
      BY <3>1, <3>2, RunTypes
  <2> QED
    BY <1>1, <1>s, <2>1, PushLookupOp DEF PushQuiet
<1>2. CASE PushEOS(m)
  <2>1. m.pc = "locking" /\ Answered(m) /\ PushFrame
    BY <1>2, PushEOSOp
  <2>2. \A j \in Inst :
               /\ Aged(j)
               /\ j[3] > runs[KeyOf(j)] => task'[j] = task[j]
               /\ task'[j].handler = task[j].handler /\ task'[j].proc = task[j].proc
               /\ task'[j].Stdout = task[j].Stdout /\ task'[j].SeqNum = task[j].SeqNum
               /\ task'[j].replay = task[j].replay
    BY <1>2, <1>c, <1>i, <1>u, <2>1, PushEOSOp
  <2> QED
    BY <1>a, <2>1, <2>2 DEF PushQuiet
<1>3. CASE PushDuplicate(m)
  BY <1>3, <1>s, <1>a, PushDuplicateOp DEF PushQuiet
<1>4. CASE PushFresh(m)
  BY <1>4, <1>l, <1>b, PushFreshOp DEF PushQuiet
<1>5. CASE PushLog(m)
  BY <1>5, <1>s, <1>b, PushLogOp DEF PushQuiet
<1>6. CASE PushLogFails(m)
  BY <1>6, <1>l, PushLogFailsOp DEF PushQuiet
<1>7. CASE PushWrite(m)
  <2>1. m.pc = "writing" /\ Answered(m) /\ PushFrame
    BY <1>7, PushWriteOp
  <2>2. \A j \in Inst :
               /\ Aged(j)
               /\ j[3] > runs[KeyOf(j)] => task'[j] = task[j]
               /\ task'[j].handler = task[j].handler /\ task'[j].proc = task[j].proc
               /\ task'[j].Stdout = task[j].Stdout /\ task'[j].SeqNum = task[j].SeqNum
               /\ task'[j].replay = task[j].replay
    <3> DEFINE i == Target(m)
               x == Append(task[i].Stdin, m.val)
               s == task[i].ProcessedIDs \cup {m.id}
    <3>1. TaskBecomes(i, task[i].proc, x, task[i].pipe, task[i].Stdout, s, task[i].SeqNum,
                      task[i].EOSCount, "free", task[i].replay, task[i].handler)
      BY <1>7, PushWriteOp
    <3>2. task[i].ProcessedIDs \subseteq s /\ task[i].EOSCount <= task[i].EOSCount
      BY <1>i, <1>u, <2>1
    <3> HIDE DEF x, s
    <3> QED
      BY <1>c, <2>1, <3>1, <3>2
  <2> QED
    BY <1>a, <2>1, <2>2 DEF PushQuiet
<1>8. CASE PushWriteFails(m)
  BY <1>8, <1>l, PushWriteFailsOp DEF PushQuiet
<1> QED
  BY <1>1, <1>2, <1>3, <1>4, <1>5, <1>6, <1>7, <1>8 DEF PushStep

(* A step of an instance that leaves its handler where it is.              *)
LEMMA InstQuiet ==
  ASSUME TypeOK, RunInv, NEW i \in Inst,
         \/ Operator(i) \/ OperatorExit(i) \/ ReplayLock(i) \/ ReplayWrite(i)
         \/ HandleOutput(i) \/ Crash(i) \/ KillProcess(i)
  PROVE  /\ \A n \in pushes' : n \in pushes \/ n.pc = "send"
         /\ UNCHANGED <<rsTasks, runs, reports, restart, FinishedTasks, source, losses>>
         /\ \A j \in Inst :
              /\ Aged(j)
              /\ j[3] > runs[KeyOf(j)] => task'[j] = task[j]
              /\ task'[j].handler = task[j].handler
              /\ task'[j].EOSCount = task[j].EOSCount /\ task'[j].pipe = task[j].pipe
              /\ task'[j].ProcessedIDs = task[j].ProcessedIDs
<1>t. \A j \in Inst : task[j].EOSCount <= task[j].EOSCount
  BY FieldTypes DEF TypeOK
<1>c. ASSUME NEW p, NEW x, NEW y, NEW n, NEW l, NEW r,
             task[i].proc = "dead" => p = "dead", task[i] # NoTask,
             TaskBecomes(i, p, x, task[i].pipe, y, task[i].ProcessedIDs, n,
                         task[i].EOSCount, l, r, task[i].handler)
      PROVE  \A j \in Inst :
              /\ Aged(j)
              /\ j[3] > runs[KeyOf(j)] => task'[j] = task[j]
              /\ task'[j].handler = task[j].handler
              /\ task'[j].EOSCount = task[j].EOSCount /\ task'[j].pipe = task[j].pipe
              /\ task'[j].ProcessedIDs = task[j].ProcessedIDs
  <2>1. ~(i[3] > runs[KeyOf(i)])
    BY <1>c DEF RunInv, Unstarted
  <2> SUFFICES ASSUME NEW j \in Inst
               PROVE  /\ Aged(j)
                      /\ j[3] > runs[KeyOf(j)] => task'[j] = task[j]
                      /\ task'[j].handler = task[j].handler
                      /\ task'[j].EOSCount = task[j].EOSCount /\ task'[j].pipe = task[j].pipe
                      /\ task'[j].ProcessedIDs = task[j].ProcessedIDs
    OBVIOUS
  <2>2. CASE j = i
    BY <1>c, <1>t, <2>1, <2>2 DEF Aged, TaskBecomes
  <2>3. CASE j # i
    <3>1. task'[j] = task[j]
      BY <1>c, <2>3 DEF TaskBecomes
    <3> QED
      BY <1>t, <3>1 DEF Aged
  <2> QED
    BY <2>2, <2>3
<1>1. CASE Operator(i)
  BY <1>1, <1>c, OperatorOp, NoTaskFields DEF NodeFrame
<1>2. CASE OperatorExit(i)
  BY <1>2, <1>c, OperatorExitOp, NoTaskFields DEF NodeFrame
<1>3. CASE ReplayLock(i)
  BY <1>3, <1>c, ReplayLockOp, NoTaskFields DEF NodeFrame, LockBecomes
<1>4. CASE ReplayWrite(i)
  BY <1>4, <1>c, ReplayWriteOp, NoTaskFields DEF NodeFrame
<1>5. CASE HandleOutput(i)
  <2>1. /\ task[i] # NoTask /\ NodeFrame /\ reports' = reports
        /\ \A n \in pushes' : n \in pushes \/ n.pc = "send"
    <3>1. task[i].Stdout # <<>> /\ NodeFrame /\ reports' = reports
      BY <1>5, HandleOutputOp
    <3>2. \/ pushes' = pushes
          \/ \E n, k, id, v : pushes' = pushes \cup {n} /\ Created(n, i, k, id, v)
      BY <1>5, HandleOutputOp
    <3>3. \A n \in pushes' : n \in pushes \/ n.pc = "send"
      BY <3>2 DEF Created
    <3> QED
      BY <3>1, <3>3, NoTaskFields
  <2>2. TaskBecomes(i, task[i].proc, task[i].Stdin, task[i].pipe, Tail(task[i].Stdout),
                        task[i].ProcessedIDs, task[i].SeqNum + 1, task[i].EOSCount,
                        task[i].lock, task[i].replay, task[i].handler)
    BY <1>5, HandleOutputOp
  <2> QED
    BY <1>c, <2>1, <2>2 DEF NodeFrame
<1>6. CASE Crash(i) \/ KillProcess(i)
  BY <1>6, <1>c, DieOp, NoTaskFields
<1> QED
  BY <1>1, <1>2, <1>3, <1>4, <1>5, <1>6

(* The handler of an instance ends its scan or its EOSs: the instance is   *)
(* the latest one, its process is gone and nobody reported it yet.         *)
LEMMA HandlerStep ==
  ASSUME TypeOK, RunInv, NEW i \in Inst, HandleEOF(i) \/ HandleEOSSent(i)
  PROVE  /\ i[3] = runs[KeyOf(i)] /\ i = Cur(KeyOf(i))
         /\ task[i].proc = "dead" /\ restart[KeyOf(i)].pc = "none"
         /\ \A r \in reports : KeyOf(r.inst) # KeyOf(i)
         /\ UNCHANGED <<rsTasks, runs, restart, FinishedTasks, source, losses, output>>
         /\ UNCHANGED <<kills, fails, dedup>>
         /\ task'[i].handler # "scan"
         /\ \A j \in Inst :
              /\ Aged(j)
              /\ j # i => task'[j] = task[j]
              /\ task'[j].proc = task[j].proc
              /\ task'[j].EOSCount = task[j].EOSCount /\ task'[j].pipe = task[j].pipe
              /\ task'[j].ProcessedIDs = task[j].ProcessedIDs
              /\ task'[j].Stdin = task[j].Stdin /\ task'[j].Stdout = task[j].Stdout
         /\ \A n \in pushes' : n \in pushes \/ n.pc = "send"
<1>t. \A j \in Inst : task[j].EOSCount <= task[j].EOSCount
  BY FieldTypes DEF TypeOK
<1>1. task[i].proc = "dead" /\ task[i].handler # "done"
  BY HandleEOFOp, HandleEOSSentOp DEF AtEOF, RunInv, HandlerDead
<1>2. i[3] = runs[KeyOf(i)] /\ i = Cur(KeyOf(i)) /\ KeyOf(i) \in Keys
  BY <1>1, WorkingIsCurrent, InstFacts
<1>3. restart[KeyOf(i)].pc = "none"
  BY <1>1, <1>2 DEF RunInv, RestartAfterDone
<1>4. ASSUME NEW r \in reports, KeyOf(r.inst) = KeyOf(i) PROVE FALSE
  <2>1. r.inst \in Inst
    BY DEF TypeOK, LeaderOK
  <2>2. task[r.inst].handler = "done" /\ r.inst[3] = runs[KeyOf(i)]
    BY <1>4 DEF RunInv, ReportsCurrent
  <2>3. r.inst = i
    BY <1>2, <1>4, <2>1, <2>2, CurFacts
  <2> QED
    BY <1>1, <2>2, <2>3
<1>5. \E h \in {"eos", "done"} :
        TaskBecomes(i, task[i].proc, task[i].Stdin, task[i].pipe, task[i].Stdout,
                             task[i].ProcessedIDs, task[i].SeqNum, task[i].EOSCount,
                             task[i].lock, task[i].replay, h)
  BY HandleEOFOp, HandleEOSSentOp
<1>6. PICK h \in {"eos", "done"} :
        TaskBecomes(i, task[i].proc, task[i].Stdin, task[i].pipe, task[i].Stdout,
                             task[i].ProcessedIDs, task[i].SeqNum, task[i].EOSCount,
                             task[i].lock, task[i].replay, h)
  BY <1>5
<1>7. task'[i].handler # "scan"
  BY <1>6 DEF TaskBecomes
<1>8. \A j \in Inst :
              /\ Aged(j)
              /\ j # i => task'[j] = task[j]
              /\ task'[j].proc = task[j].proc
              /\ task'[j].EOSCount = task[j].EOSCount /\ task'[j].pipe = task[j].pipe
              /\ task'[j].ProcessedIDs = task[j].ProcessedIDs
              /\ task'[j].Stdin = task[j].Stdin /\ task'[j].Stdout = task[j].Stdout
  BY <1>1, <1>6, <1>t DEF TaskBecomes, Aged
<1>9. \A n \in pushes' : n \in pushes \/ n.pc = "send"
  <2>1. CASE HandleEOSSent(i)
    BY <2>1, HandleEOSSentOp
  <2>2. CASE HandleEOF(i)
    BY <2>2, HandleEOFOp, EOSPushFacts
  <2> QED
    BY <2>1, <2>2
<1>10. NodeFrame /\ output' = output /\ kills' = kills /\ fails' = fails
  BY HandleEOFOp, HandleEOSSentOp
<1> QED
  BY <1>1, <1>2, <1>3, <1>4, <1>7, <1>8, <1>9, <1>10 DEF NodeFrame

(* StartTask starts the next process of a task, as a new instance.         *)
LEMMA StartStep ==
  ASSUME TypeOK, RunInv, NEW k \in Keys, StartTask(k)
  PROVE  /\ task[<<k[1], k[2], runs[k] + 1>>] = NoTask
         /\ \A j \in Inst : Aged(j)
<1> DEFINE i == <<k[1], k[2], runs[k] + 1>>
<1>1. i \in Inst /\ KeyOf(i) = k /\ i[3] = runs[k] + 1 /\ runs[k] \in Nat
  BY StartTaskOp, RunTypes
<1>2. i[3] > runs[k]
  BY <1>1
<1>3. task[i] = NoTask
  BY <1>1, <1>2 DEF RunInv, Unstarted
<1>t. \A j \in Inst : task[j].EOSCount <= task[j].EOSCount
  BY FieldTypes DEF TypeOK
<1>4. TaskBecomes(i, "running", <<>>, "open", <<>>, IdsOf(restart[k].log), 0, 0,
                        "free", restart[k].log, "scan")
  BY StartTaskOp
<1> HIDE DEF i
<1>5. \A j \in Inst : j # i => Aged(j)
  BY <1>4, <1>t DEF TaskBecomes, Aged
<1>6. Aged(i)
  BY <1>3, <1>4, NoTaskFields DEF TaskBecomes, Aged
<1> QED
  BY <1>3, <1>5, <1>6 DEF i

(* A step that leaves runs, reports, restarts and handlers alone, registers *)
(* no other process and binds pushes to started processes only.            *)
LEMMA QuietRunInv ==
  ASSUME TypeOK, TypeOK', RunInv, UNCHANGED <<runs, reports, restart>>,
         \A k \in Keys : rsTasks'[k] \in {0, rsTasks[k]},
         \A j \in Inst : /\ Aged(j) /\ task'[j].handler = task[j].handler
                         /\ j[3] > runs[KeyOf(j)] => task'[j] = task[j],
         \A n \in pushes' : n \in pushes \/ n.pc = "send" \/ (n.run # 0 /\ n.run <= runs[n.dest])
  PROVE  RunInv'
<1>1. Unstarted'
  BY DEF RunInv, Unstarted
<1>2. EarlierDone'
  BY DEF RunInv, EarlierDone
<1>3. HandlerDead'
  BY DEF RunInv, HandlerDead, Aged
<1>4. RegisteredCurrent'
  BY DEF RunInv, RegisteredCurrent
<1>5. BoundStarted'
  BY DEF RunInv, BoundStarted
<1>6. ReportsCurrent'
  <2>1. \A r \in reports : r.inst \in Inst
    BY DEF TypeOK, LeaderOK
  <2> QED
    BY <2>1 DEF RunInv, ReportsCurrent
<1>7. ReportedOnce'
  BY DEF RunInv, ReportedOnce
<1>8. RestartAfterDone'
  <2>1. \A k \in Keys : Cur(k) \in Inst /\ Cur(k)' = Cur(k)
    BY CurFacts DEF Cur
  <2> QED
    BY <2>1 DEF RunInv, RestartAfterDone
<1> QED
  BY <1>1, <1>2, <1>3, <1>4, <1>5, <1>6, <1>7, <1>8 DEF RunInv

(* The output goroutine keeps RunInv.                                      *)
LEMMA HandlerRunInv ==
  ASSUME TypeOK, TypeOK', RunInv, NEW i \in Inst, HandleEOF(i) \/ HandleEOSSent(i)
  PROVE  RunInv'
<1>h. /\ i[3] = runs[KeyOf(i)] /\ i = Cur(KeyOf(i)) /\ task[i].proc = "dead"
      /\ restart[KeyOf(i)].pc = "none" /\ \A r \in reports : KeyOf(r.inst) # KeyOf(i)
      /\ rsTasks' = rsTasks /\ runs' = runs /\ restart' = restart
      /\ \A j \in Inst : Aged(j) /\ (j # i => task'[j] = task[j]) /\ task'[j].proc = task[j].proc
      /\ \A n \in pushes' : n \in pushes \/ n.pc = "send"
  BY HandlerStep
<1>n. /\ KeyOf(i) \in Keys /\ i[3] \in Nat /\ runs[KeyOf(i)] \in Nat
      /\ \A r \in reports : r.inst \in Inst
      /\ \A r \in reports' : r.inst \in Inst
  BY InstFacts, RunTypes DEF TypeOK, LeaderOK
<1>r. reports' = reports \/ (task'[i].handler = "done" /\
                             \E r : reports' = reports \cup {r} /\ r.inst = i)
  BY HandleEOFOp, HandleEOSSentOp DEF TaskBecomes
<1>1. Unstarted'
  BY <1>h, <1>n DEF RunInv, Unstarted
<1>2. EarlierDone'
  BY <1>h, <1>n DEF RunInv, EarlierDone
<1>3. HandlerDead'
  BY <1>h DEF RunInv, HandlerDead
<1>4. RegisteredCurrent'
  BY <1>h DEF RunInv, RegisteredCurrent
<1>5. BoundStarted'
  BY <1>h DEF RunInv, BoundStarted
<1>6. ReportsCurrent'
  <2> SUFFICES ASSUME NEW r \in reports' PROVE task'[r.inst].handler = "done" /\ r.inst[3] = runs[KeyOf(r.inst)]
    BY <1>h DEF ReportsCurrent
  <2>1. CASE r \in reports
    BY <1>h, <1>n, <2>1 DEF RunInv, ReportsCurrent, Aged
  <2>2. CASE r \notin reports
    BY <1>h, <1>r, <2>2
  <2> QED
    BY <2>1, <2>2
<1>7. ReportedOnce'
  <2>1. \A r \in reports : r.inst # i
    BY <1>h
  <2> QED
    BY <1>r, <2>1 DEF RunInv, ReportedOnce
<1>8. RestartAfterDone'
  <2> SUFFICES ASSUME NEW k \in Keys, restart[k].pc # "none"
               PROVE  task'[Cur(k)].handler = "done" /\ \A r \in reports' : KeyOf(r.inst) # k
    BY <1>h DEF RestartAfterDone, Cur
  <2>1. task[Cur(k)].handler = "done" /\ \A r \in reports : KeyOf(r.inst) # k
    BY DEF RunInv, RestartAfterDone
  <2>2. k # KeyOf(i) /\ Cur(k) \in Inst
    BY <1>h, CurFacts
  <2> QED
    BY <1>h, <1>r, <2>1, <2>2 DEF Aged
<1> QED
  BY <1>1, <1>2, <1>3, <1>4, <1>5, <1>6, <1>7, <1>8 DEF RunInv

(* TaskFinished keeps RunInv.                                              *)
LEMMA TaskFinishedRunInv ==
  ASSUME TypeOK, TypeOK', RunInv, NEW r \in reports, TaskFinished(r)
  PROVE  RunInv'
<1>h. /\ reports' = reports \ {r} /\ r.inst \in Inst
      /\ task' = task /\ rsTasks' = rsTasks /\ runs' = runs /\ pushes' = pushes
      /\ \/ restart' = restart
         \/ \A k \in Keys : k # KeyOf(r.inst) => restart'[k] = restart[k]
  BY TaskFinishedOp DEF LeaderFrame
<1>1. Unstarted' /\ EarlierDone' /\ HandlerDead' /\ RegisteredCurrent' /\ BoundStarted'
  BY <1>h DEF RunInv, Unstarted, EarlierDone, HandlerDead, RegisteredCurrent, BoundStarted
<1>2. ReportsCurrent' /\ ReportedOnce'
  BY <1>h DEF RunInv, ReportsCurrent, ReportedOnce
<1>3. RestartAfterDone'
  <2> SUFFICES ASSUME NEW k \in Keys, restart'[k].pc # "none"
               PROVE  task[Cur(k)].handler = "done" /\ \A q \in reports' : KeyOf(q.inst) # k
    BY <1>h DEF RestartAfterDone, Cur
  <2>1. CASE restart'[k] = restart[k]
    BY <1>h, <2>1 DEF RunInv, RestartAfterDone
  <2>2. CASE k = KeyOf(r.inst)
    <3>1. task[r.inst].handler = "done" /\ r.inst = Cur(k)
      BY <1>h, <2>2, CurFacts DEF RunInv, ReportsCurrent
    <3>2. ASSUME NEW q \in reports', KeyOf(q.inst) = k PROVE FALSE
      <4>1. q \in reports /\ q # r /\ q.inst \in Inst
        BY <1>h DEF TypeOK, LeaderOK
      <4>2. q.inst = Cur(k)
        BY <3>2, <4>1, CurFacts DEF RunInv, ReportsCurrent
      <4> QED
        BY <3>1, <4>1, <4>2 DEF RunInv, ReportedOnce
    <3> QED
      BY <3>1, <3>2
  <2> QED
    BY <1>h, <2>1, <2>2
<1> QED
  BY <1>1, <1>2, <1>3 DEF RunInv

(* StartTask keeps RunInv.                                                 *)
LEMMA StartTaskRunInv ==
  ASSUME TypeOK, TypeOK', RunInv, NEW k \in Keys, StartTask(k)
  PROVE  RunInv'
<1> DEFINE i == <<k[1], k[2], runs[k] + 1>>
<1>h. /\ restart[k].pc = "start" /\ i \in Inst /\ KeyOf(i) = k /\ i[3] = runs[k] + 1
      /\ TaskBecomes(i, "running", <<>>, "open", <<>>, IdsOf(restart[k].log), 0, 0,
                        "free", restart[k].log, "scan")
      /\ rsTasks'[k] = runs[k] + 1 /\ runs'[k] = runs[k] + 1 /\ restart'[k].pc = "none"
      /\ \A j \in Keys : j # k => /\ rsTasks'[j] = rsTasks[j] /\ runs'[j] = runs[j]
                                  /\ restart'[j] = restart[j]
      /\ pushes' = pushes /\ reports' = reports
  BY StartTaskOp
<1>n. /\ \A j \in Keys : runs[j] \in Nat
      /\ \A j \in Inst : j[3] \in Nat /\ KeyOf(j) \in Keys
      /\ \A m \in pushes : m.run \in Nat /\ m.dest \in Keys
      /\ \A r \in reports : r.inst \in Inst
  BY RunTypes, InstFacts, PushFacts DEF TypeOK, LeaderOK
<1>u. \A j \in Inst : KeyOf(j) = k /\ j[3] = runs[k] + 1 => j = i
  BY InstFacts DEF KeyOf
<1>d. task[Cur(k)].handler = "done" /\ \A r \in reports : KeyOf(r.inst) # k
  BY <1>h DEF RunInv, RestartAfterDone
<1> HIDE DEF i
<1>j. \A j \in Inst : j # i => task'[j] = task[j]
  BY <1>h DEF TaskBecomes
<1>1. Unstarted'
  <2> SUFFICES ASSUME NEW j \in Inst, j[3] > runs'[KeyOf(j)] PROVE task'[j] = NoTask
    BY DEF Unstarted
  <2>1. j[3] > runs[KeyOf(j)]
    BY <1>h, <1>n
  <2>2. j # i
    BY <1>h, <1>n
  <2> QED
    BY <1>j, <2>1, <2>2 DEF RunInv, Unstarted
<1>2. EarlierDone'
  <2> SUFFICES ASSUME NEW j \in Inst, j[3] < runs'[KeyOf(j)] PROVE task'[j].handler = "done"
    BY DEF EarlierDone
  <2>1. j # i
    BY <1>h, <1>n
  <2>2. CASE KeyOf(j) # k
    BY <1>h, <1>n, <1>j, <2>1, <2>2 DEF RunInv, EarlierDone
  <2>3. CASE KeyOf(j) = k /\ j[3] < runs[k]
    BY <1>j, <2>1, <2>3 DEF RunInv, EarlierDone
  <2>4. CASE KeyOf(j) = k /\ j[3] = runs[k]
    BY <1>d, <1>j, <2>1, <2>4, CurFacts
  <2> QED
    BY <1>h, <1>n, <2>2, <2>3, <2>4
<1>3. HandlerDead'
  BY <1>h, <1>j DEF RunInv, HandlerDead, TaskBecomes
<1>4. RegisteredCurrent'
  BY <1>h DEF RunInv, RegisteredCurrent
<1>5. BoundStarted'
  BY <1>h, <1>n DEF RunInv, BoundStarted
<1>6. ReportsCurrent'
  <2> SUFFICES ASSUME NEW r \in reports
               PROVE  task'[r.inst].handler = "done" /\ r.inst[3] = runs'[KeyOf(r.inst)]
    BY <1>h DEF ReportsCurrent
  <2> QED
    BY <1>d, <1>h, <1>j, <1>n DEF RunInv, ReportsCurrent
<1>7. ReportedOnce'
  BY <1>h DEF RunInv, ReportedOnce
<1>8. RestartAfterDone'
  <2> SUFFICES ASSUME NEW j \in Keys, restart'[j].pc # "none"
               PROVE  task'[Cur(j)'].handler = "done" /\ \A r \in reports : KeyOf(r.inst) # j
    BY <1>h DEF RestartAfterDone
  <2>1. j # k /\ restart[j].pc # "none" /\ Cur(j)' = Cur(j)
    BY <1>h DEF Cur
  <2>2. Cur(j) # i /\ Cur(j) \in Inst
    BY <1>h, <2>1, CurFacts
  <2> QED
    BY <1>j, <2>1, <2>2 DEF RunInv, RestartAfterDone
<1> QED
  BY <1>1, <1>2, <1>3, <1>4, <1>5, <1>6, <1>7, <1>8 DEF RunInv

(* RunInv holds initially.                                                 *)
LEMMA InitRunInv == Init => RunInv
<1> SUFFICES ASSUME Init PROVE RunInv
  OBVIOUS
<1>i. \A i \in Inst : i[3] \in Nat \ {0} /\ KeyOf(i) \in Keys
  <2>1. Runs \subseteq Nat \ {0}
    BY StreamAssumption DEF Runs
  <2> QED
    BY <2>1, InstFacts
<1>1. \A i \in Inst : (i[3] > 1 => task[i] = NoTask) /\ task[i].handler = "scan"
  BY NoTaskFields DEF Init, AllStarted, NewTask
<1>2. Unstarted /\ EarlierDone
  BY <1>1, <1>i DEF Init, AllStarted, Unstarted, EarlierDone
<1>3. HandlerDead
  BY <1>1 DEF HandlerDead
<1>4. RegisteredCurrent /\ BoundStarted /\ ReportsCurrent /\ ReportedOnce /\ RestartAfterDone
  BY DEF Init, AllStarted, RegisteredCurrent, BoundStarted, ReportsCurrent, ReportedOnce,
         RestartAfterDone
<1> QED
  BY <1>2, <1>3, <1>4 DEF RunInv

(* Every step keeps RunInv, and no task grows younger.                     *)
LEMMA NextRunInv ==
  ASSUME TypeOK, TypeOK', RunInv, [Next]_vars
  PROVE  RunInv' /\ \A j \in Inst : Aged(j)
<1>t. \A j \in Inst : task[j].EOSCount <= task[j].EOSCount
  BY FieldTypes DEF TypeOK
<1>a. task' = task => \A j \in Inst : Aged(j)
  BY <1>t DEF Aged
<1>0. CASE UNCHANGED vars
  <2>1. task' = task /\ UNCHANGED <<runs, reports, restart, rsTasks, pushes>>
    BY <1>0 DEF vars, nodeVars, leaderVars
  <2> QED
    BY <1>a, <2>1, QuietRunInv
<1>1. ASSUME NEW m \in pushes, PushStep(m) PROVE RunInv' /\ \A j \in Inst : Aged(j)
  <2>1. PushQuiet(m)
    BY <1>1, PushIsQuiet
  <2>2. \A n \in pushes' : n \in pushes \/ n.pc = "send" \/ (n.run # 0 /\ n.run <= runs[n.dest])
    BY <2>1 DEF PushQuiet, Moved
  <2> QED
    BY <2>1, <2>2, QuietRunInv DEF PushQuiet, PushFrame
<1>2. CASE SourceLine \/ SourceEOS \/ SourceDone
  <2>1. SourceFrame
    BY <1>2, SourceLineOp, SourceEOSOp, SourceDoneOp
  <2>2. \A n \in pushes' : n \in pushes \/ n.pc = "send"
    <3>1. CASE SourceLine
      BY <3>1, SourceLineOp DEF Created
    <3>2. CASE SourceEOS
      <4>1. 1 \in Stages
        BY StreamAssumption DEF Stages
      <4> QED
        BY <3>2, <4>1, SourceEOSOp, EOSPushFacts
    <3>3. CASE SourceDone
      BY <3>3, SourceDoneOp
    <3> QED
      BY <1>2, <3>1, <3>2, <3>3
  <2> QED
    BY <1>a, <2>1, <2>2, QuietRunInv DEF SourceFrame
<1>3. ASSUME NEW i \in Inst,
             \/ Operator(i) \/ OperatorExit(i) \/ ReplayLock(i) \/ ReplayWrite(i)
             \/ HandleOutput(i) \/ Crash(i) \/ KillProcess(i)
      PROVE  RunInv' /\ \A j \in Inst : Aged(j)
  BY <1>3, InstQuiet, QuietRunInv
<1>4. ASSUME NEW i \in Inst, HandleEOF(i) \/ HandleEOSSent(i)
      PROVE  RunInv' /\ \A j \in Inst : Aged(j)
  BY <1>4, HandlerStep, HandlerRunInv
<1>5. ASSUME NEW i \in Inst, KillCleanup(i) PROVE RunInv' /\ \A j \in Inst : Aged(j)
  BY <1>5, <1>a, KillCleanupOp, QuietRunInv
<1>6. ASSUME NEW r \in reports, TaskFinished(r) PROVE RunInv' /\ \A j \in Inst : Aged(j)
  BY <1>6, <1>a, TaskFinishedOp, TaskFinishedRunInv
<1>7. ASSUME NEW r \in reports, ReportLost(r) PROVE RunInv' /\ \A j \in Inst : Aged(j)
  <2>1. /\ reports' = reports \ {r} /\ task' = task /\ restart' = restart
        /\ rsTasks' = rsTasks /\ runs' = runs /\ pushes' = pushes
    BY <1>7, ReportLostOp DEF LeaderFrame
  <2> QED
    BY <1>a, <2>1 DEF RunInv, Unstarted, EarlierDone, HandlerDead, RegisteredCurrent,
         BoundStarted, ReportsCurrent, ReportedOnce, RestartAfterDone, Cur
<1>8. ASSUME NEW k \in Keys, LoadDedupLog(k) PROVE RunInv' /\ \A j \in Inst : Aged(j)
  <2>1. /\ restart[k].pc = "load" /\ \A j \in Keys : j # k => restart'[j] = restart[j]
        /\ task' = task /\ reports' = reports
        /\ rsTasks' = rsTasks /\ runs' = runs /\ pushes' = pushes
    BY <1>8, LoadDedupLogOp DEF LeaderFrame
  <2>2. RestartAfterDone'
    BY <2>1 DEF RunInv, RestartAfterDone, Cur
  <2> QED
    BY <1>a, <2>1, <2>2 DEF RunInv, Unstarted, EarlierDone, HandlerDead, RegisteredCurrent,
         BoundStarted, ReportsCurrent, ReportedOnce
<1>9. ASSUME NEW k \in Keys, StartTask(k) PROVE RunInv' /\ \A j \in Inst : Aged(j)
  BY <1>9, StartStep, StartTaskRunInv
<1> QED
  BY <1>0, <1>1, <1>2, <1>3, <1>4, <1>5, <1>6, <1>7, <1>8, <1>9 DEF Next, InstStep, Finished

(* RunInv is an invariant.                                                 *)
LEMMA RunsFollow == Spec => []RunInv
BY TypeCorrect, InitRunInv, NextRunInv, PTL DEF Spec

(* Faults are never uncounted.                                             *)
LEMMA FaultsStay ==
  ASSUME TypeOK, [Next]_vars
  PROVE  /\ fails' = 0 => fails = 0
         /\ losses' = 0 => losses = 0
         /\ kills' = 0 => kills = 0
<1>t. fails \in Nat /\ losses \in Nat /\ kills \in Nat
  BY StreamAssumption DEF TypeOK, FaultsOK
<1>u. fails + 1 # 0 /\ losses + 1 # 0 /\ kills + 1 # 0
  BY <1>t
<1>0. CASE UNCHANGED vars
  BY <1>0 DEF vars, faults
<1>1. ASSUME NEW m \in pushes, PushStep(m)
      PROVE  /\ fails' \in {fails, fails + 1} /\ losses' \in {losses, losses + 1}
             /\ kills' = kills
  BY <1>1 DEF PushStep, PushLookup, PushEOS, PushDuplicate, PushFresh, PushLog, PushLogFails,
       PushWrite, PushWriteFails, Answer, faults
<1>2. CASE SourceLine \/ SourceEOS \/ SourceDone
  BY <1>2 DEF SourceLine, SourceEOS, SourceDone, faults
<1>3. ASSUME NEW i \in Inst, InstStep(i) \/ Crash(i) \/ KillProcess(i) \/ KillCleanup(i)
      PROVE  /\ fails' \in {fails, fails + 1} /\ losses' = losses
             /\ kills' \in {kills, kills + 1}
  BY <1>3 DEF InstStep, Operator, OperatorExit, ReplayLock, ReplayWrite, HandleOutput, HandleEOF,
       HandleEOSSent, Crash, KillProcess, KillCleanup, Die, faults
<1>4. ASSUME NEW r \in reports, TaskFinished(r) \/ ReportLost(r)
      PROVE  fails' = fails /\ losses' \in {losses, losses + 1} /\ kills' = kills
  BY <1>4 DEF TaskFinished, ReportLost, faults
<1>5. ASSUME NEW k \in Keys, LoadDedupLog(k) \/ StartTask(k)
      PROVE  fails' \in {fails, fails + 1} /\ losses' = losses /\ kills' = kills
  BY <1>5 DEF LoadDedupLog, StartTask, faults
<1> QED
  BY <1>u, <1>0, <1>1, <1>2, <1>3, <1>4, <1>5 DEF Next, Finished, vars, faults

-----------------------------------------------------------------------------
(* What a restarted task knows.                                            *)

CurrentKnows ==
  \A i \in Inst : task[i].ProcessedIDs \subseteq task[Cur(KeyOf(i))].ProcessedIDs
RestartKnows ==
  \A k \in Keys : restart[k].pc = "start" =>
    task[Cur(k)].ProcessedIDs \subseteq IdsOf(restart[k].log)
AckedKnown ==
  \A m \in pushes : m.kind = "data" /\ m.pc = "acked" =>
    m.id \in task[Cur(m.dest)].ProcessedIDs

(* As long as no HyDFS call failed, the latest process of a task knows     *)
(* what the earlier ones processed, and a restart has it in hand.          *)
RemInv == fails = 0 => CurrentKnows /\ RestartKnows /\ AckedKnown

(* Ids are processed by the latest process only, and a data tuple is       *)
(* acknowledged once its id is.                                            *)
LEMMA PushIds ==
  ASSUME TypeOK, RunInv, NEW m \in pushes, PushStep(m)
  PROVE  /\ \A j \in Inst : \/ task'[j].ProcessedIDs = task[j].ProcessedIDs
                            \/ j = Cur(KeyOf(j)) /\ task[j].handler # "done"
         /\ \A n \in pushes' : n.kind = "data" /\ n.pc = "acked" =>
              \/ n \in pushes
              \/ \E i \in Inst : KeyOf(i) = n.dest /\ n.id \in task'[i].ProcessedIDs
<1>i. m.pc \in {"locking", "logging", "writing"} => Target(m) \in Inst /\ KeyOf(Target(m)) = m.dest
  BY PushFacts
<1>s. ASSUME \A j \in Inst : task'[j].ProcessedIDs = task[j].ProcessedIDs,
             \A n \in pushes' : n \in pushes \/ n.pc # "acked" \/ n.kind = "EOS"
      PROVE  /\ \A j \in Inst : \/ task'[j].ProcessedIDs = task[j].ProcessedIDs
                                \/ j = Cur(KeyOf(j)) /\ task[j].handler # "done"
             /\ \A n \in pushes' : n.kind = "data" /\ n.pc = "acked" =>
                  \/ n \in pushes
                  \/ \E i \in Inst : KeyOf(i) = n.dest /\ n.id \in task'[i].ProcessedIDs
  BY <1>s
<1>l. ASSUME NEW l, LockBecomes(Target(m), l), m.pc \in {"locking", "logging", "writing"}
      PROVE  \A j \in Inst : task'[j].ProcessedIDs = task[j].ProcessedIDs
  BY <1>l, <1>i DEF LockBecomes, TaskBecomes
<1>1. CASE PushLookup(m)
  BY <1>1, <1>s, PushLookupOp DEF Moved
<1>2. CASE PushEOS(m)
  <2>1. \A j \in Inst : task'[j].ProcessedIDs = task[j].ProcessedIDs
    BY <1>2, <1>i, PushEOSOp DEF TaskBecomes
  <2>2. \A n \in pushes' : n \in pushes \/ n.kind = "EOS"
    BY <1>2, PushEOSOp DEF Answered, Moved
  <2> QED
    BY <1>s, <2>1, <2>2
<1>3. CASE PushDuplicate(m)
  <2>1. task' = task /\ m.id \in task[Target(m)].ProcessedIDs /\ Answered(m) /\ m.pc = "locking"
    BY <1>3, PushDuplicateOp
  <2>2. \A n \in pushes' : n \in pushes \/ (n.id = m.id /\ n.dest = m.dest)
    BY <2>1 DEF Answered, Moved
  <2> QED
    BY <1>i, <2>1, <2>2
<1>4. CASE PushFresh(m)
  BY <1>4, <1>s, <1>l, PushFreshOp DEF Moved
<1>5. CASE PushLog(m)
  BY <1>5, <1>s, PushLogOp DEF Moved
<1>6. CASE PushLogFails(m)
  BY <1>6, <1>s, <1>l, PushLogFailsOp DEF Moved
<1>7. CASE PushWrite(m)
  <2> DEFINE i == Target(m)
             x == Append(task[i].Stdin, m.val)
             s == task[i].ProcessedIDs \cup {m.id}
  <2>1. TaskBecomes(i, task[i].proc, x, task[i].pipe, task[i].Stdout, s, task[i].SeqNum,
                    task[i].EOSCount, "free", task[i].replay, task[i].handler)
    BY <1>7, PushWriteOp
  <2>2. m.pc = "writing" /\ Writable(i) /\ Answered(m)
    BY <1>7, PushWriteOp
  <2>3. i \in Inst /\ KeyOf(i) = m.dest
    BY <1>i, <2>2
  <2>4. m.id \in s
    OBVIOUS
  <2> HIDE DEF i, x, s
  <2>5. i = Cur(KeyOf(i)) /\ task[i].handler # "done"
    BY <2>2, <2>3, WorkingIsCurrent DEF RunInv, HandlerDead, Writable
  <2>6. m.id \in task'[i].ProcessedIDs /\ \A j \in Inst : j # i => task'[j] = task[j]
    BY <2>1, <2>4 DEF TaskBecomes
  <2>7. \A n \in pushes' : n \in pushes \/ (n.id = m.id /\ n.dest = m.dest)
    BY <2>2 DEF Answered, Moved
  <2> QED
    BY <2>3, <2>5, <2>6, <2>7
<1>8. CASE PushWriteFails(m)
  BY <1>8, <1>s, <1>l, PushWriteFailsOp DEF Moved
<1> QED
  BY <1>1, <1>2, <1>3, <1>4, <1>5, <1>6, <1>7, <1>8 DEF PushStep

(* A step that registers nothing keeps RemInv when only latest processes   *)
(* process ids and what is acknowledged was processed.                     *)
LEMMA QuietRemInv ==
  ASSUME TypeOK, RunInv, CurrentKnows, RestartKnows, AckedKnown,
         runs' = runs,
         \A k \in Keys : restart'[k].pc = "start" => restart'[k] = restart[k],
         \A j \in Inst : /\ Aged(j)
                         /\ \/ task'[j].ProcessedIDs = task[j].ProcessedIDs
                            \/ j = Cur(KeyOf(j)) /\ task[j].handler # "done",
         \A n \in pushes' : n.kind = "data" /\ n.pc = "acked" =>
              \/ n \in pushes
              \/ n.dest \in Keys /\ \E i \in Inst : KeyOf(i) = n.dest /\ n.id \in task'[i].ProcessedIDs
  PROVE  CurrentKnows' /\ RestartKnows' /\ AckedKnown'
<1>c. \A k \in Keys : Cur(k) \in Inst /\ KeyOf(Cur(k)) = k /\ Cur(k)' = Cur(k)
  BY CurFacts DEF Cur
<1>k. \A i \in Inst : KeyOf(i) \in Keys
  BY InstFacts
<1>1. CurrentKnows'
  <2> SUFFICES ASSUME NEW i \in Inst
               PROVE  task'[i].ProcessedIDs \subseteq task'[Cur(KeyOf(i))].ProcessedIDs
    BY <1>c, <1>k DEF CurrentKnows
  <2>1. CASE i = Cur(KeyOf(i))
    BY <2>1
  <2>2. CASE task'[i].ProcessedIDs = task[i].ProcessedIDs
    <3>1. task[i].ProcessedIDs \subseteq task[Cur(KeyOf(i))].ProcessedIDs
      BY DEF CurrentKnows
    <3>2. task[Cur(KeyOf(i))].ProcessedIDs \subseteq task'[Cur(KeyOf(i))].ProcessedIDs
      BY <1>c, <1>k DEF Aged
    <3> QED
      BY <2>2, <3>1, <3>2
  <2> QED
    BY <2>1, <2>2
<1>2. RestartKnows'
  <2> SUFFICES ASSUME NEW k \in Keys, restart'[k].pc = "start"
               PROVE  task'[Cur(k)].ProcessedIDs \subseteq IdsOf(restart'[k].log)
    BY <1>c DEF RestartKnows
  <2>1. restart'[k] = restart[k]
    OBVIOUS
  <2>2. task[Cur(k)].handler = "done"
    BY <2>1 DEF RunInv, RestartAfterDone
  <2>3. task'[Cur(k)].ProcessedIDs = task[Cur(k)].ProcessedIDs
    BY <1>c, <2>2
  <2> QED
    BY <2>1, <2>3 DEF RestartKnows
<1>3. AckedKnown'
  <2> SUFFICES ASSUME NEW n \in pushes', n.kind = "data", n.pc = "acked"
               PROVE  n.id \in task'[Cur(n.dest)'].ProcessedIDs
    BY DEF AckedKnown
  <2>1. CASE n \in pushes
    <3>1. n.id \in task[Cur(n.dest)].ProcessedIDs /\ n.dest \in Keys
      BY <2>1, PushFacts DEF AckedKnown
    <3> QED
      BY <1>c, <3>1 DEF Aged
  <2>2. CASE n.dest \in Keys /\ \E i \in Inst : KeyOf(i) = n.dest /\ n.id \in task'[i].ProcessedIDs
    BY <1>c, <1>1, <2>2 DEF CurrentKnows
  <2> QED
    BY <2>1, <2>2
<1> QED
  BY <1>1, <1>2, <1>3

(* RemInv holds initially.                                                 *)
LEMMA InitRemInv == Init => RemInv
<1> SUFFICES ASSUME Init PROVE RemInv
  OBVIOUS
<1>1. \A i \in Inst : task[i].ProcessedIDs = {}
  BY NoTaskFields, IdsOfEmpty DEF Init, AllStarted, NewTask
<1>2. CurrentKnows
  BY <1>1 DEF CurrentKnows
<1>3. RestartKnows /\ AckedKnown
  BY DEF Init, RestartKnows, AckedKnown
<1> QED
  BY <1>2, <1>3 DEF RemInv

(* Every step keeps RemInv.                                                *)
LEMMA NextRemInv ==
  ASSUME TypeOK, TypeOK', RunInv, WriteAhead, RemInv, [Next]_vars
  PROVE  RemInv'
<1> SUFFICES ASSUME fails' = 0 PROVE CurrentKnows' /\ RestartKnows' /\ AckedKnown'
  BY DEF RemInv
<1>f. fails = 0 /\ CurrentKnows /\ RestartKnows /\ AckedKnown
  BY FaultsStay DEF RemInv
<1>a. \A j \in Inst : Aged(j)
  BY NextRunInv
<1>k. \A n \in pushes' : n.dest \in Keys
  BY DEF TypeOK, PushesOK, PushRec
<1>0. CASE UNCHANGED vars
  <2>1. task' = task /\ UNCHANGED <<runs, restart, pushes>>
    BY <1>0 DEF vars, nodeVars, leaderVars
  <2> QED
    BY <1>a, <1>f, <2>1, QuietRemInv
<1>1. ASSUME NEW m \in pushes, PushStep(m) PROVE CurrentKnows' /\ RestartKnows' /\ AckedKnown'
  <2>1. runs' = runs /\ restart' = restart
    BY <1>1, PushIsQuiet DEF PushQuiet, PushFrame
  <2> QED
    BY <1>1, <1>a, <1>f, <1>k, <2>1, PushIds, QuietRemInv
<1>2. CASE SourceLine \/ SourceEOS \/ SourceDone
  <2>1. SourceFrame
    BY <1>2, SourceLineOp, SourceEOSOp, SourceDoneOp
  <2>2. \A n \in pushes' : n \in pushes \/ n.pc = "send"
    BY <1>2 DEF SourceLine, SourceEOS, SourceDone, DataPush, EOSPushes
  <2> QED
    BY <1>a, <1>f, <2>1, <2>2, QuietRemInv DEF SourceFrame
<1>3. ASSUME NEW i \in Inst,
             \/ Operator(i) \/ OperatorExit(i) \/ ReplayLock(i) \/ ReplayWrite(i)
             \/ HandleOutput(i) \/ Crash(i) \/ KillProcess(i)
      PROVE  CurrentKnows' /\ RestartKnows' /\ AckedKnown'
  <2>1. /\ \A n \in pushes' : n \in pushes \/ n.pc = "send"
        /\ runs' = runs /\ restart' = restart
        /\ \A j \in Inst : task'[j].ProcessedIDs = task[j].ProcessedIDs
    BY <1>3, InstQuiet
  <2> QED
    BY <1>a, <1>f, <2>1, QuietRemInv
<1>4. ASSUME NEW i \in Inst, HandleEOF(i) \/ HandleEOSSent(i)
      PROVE  CurrentKnows' /\ RestartKnows' /\ AckedKnown'
  <2>1. /\ \A n \in pushes' : n \in pushes \/ n.pc = "send"
        /\ runs' = runs /\ restart' = restart
        /\ \A j \in Inst : task'[j].ProcessedIDs = task[j].ProcessedIDs
    BY <1>4, HandlerStep
  <2> QED
    BY <1>a, <1>f, <2>1, QuietRemInv
<1>5. ASSUME NEW i \in Inst, KillCleanup(i) PROVE CurrentKnows' /\ RestartKnows' /\ AckedKnown'
  BY <1>5, <1>a, <1>f, KillCleanupOp, QuietRemInv
<1>6. ASSUME NEW r \in reports, TaskFinished(r) \/ ReportLost(r)
      PROVE  CurrentKnows' /\ RestartKnows' /\ AckedKnown'
  <2>1. task' = task /\ runs' = runs /\ pushes' = pushes
    BY <1>6, TaskFinishedOp, ReportLostOp DEF LeaderFrame
  <2>2. \A k \in Keys : restart'[k] = restart[k] \/ restart'[k].pc = "load"
    BY <1>6, TaskFinishedOp, ReportLostOp
  <2> QED
    BY <1>a, <1>f, <2>1, <2>2, QuietRemInv
<1>7. ASSUME NEW k \in Keys, LoadDedupLog(k) PROVE CurrentKnows' /\ RestartKnows' /\ AckedKnown'
  <2>1. /\ task' = task /\ runs' = runs /\ pushes' = pushes
        /\ \A j \in Keys : j # k => restart'[j] = restart[j]
        /\ restart'[k].log = dedup[k]
    <3>1. fails + 1 # 0
      BY <1>f
    <3> QED
      BY <1>7, <3>1, <1>f, LoadDedupLogOp DEF LeaderFrame
  <2>2. CurrentKnows' /\ AckedKnown'
    BY <1>f, <2>1 DEF CurrentKnows, AckedKnown, Cur
  <2>3. task[Cur(k)].ProcessedIDs \subseteq IdsOf(dedup[k])
    BY CurFacts DEF WriteAhead, ProcessedLogged
  <2>4. RestartKnows'
    BY <1>f, <2>1, <2>3 DEF RestartKnows, Cur
  <2> QED
    BY <2>2, <2>4
<1>8. ASSUME NEW k \in Keys, StartTask(k) PROVE CurrentKnows' /\ RestartKnows' /\ AckedKnown'
  <2> DEFINE i == <<k[1], k[2], runs[k] + 1>>
  <2>h. /\ restart[k].pc = "start" /\ i \in Inst /\ KeyOf(i) = k
        /\ TaskBecomes(i, "running", <<>>, "open", <<>>, IdsOf(restart[k].log), 0, 0,
                        "free", restart[k].log, "scan")
        /\ runs'[k] = runs[k] + 1 /\ restart'[k].pc = "none"
        /\ \A j \in Keys : j # k => /\ runs'[j] = runs[j] /\ restart'[j] = restart[j]
        /\ pushes' = pushes
    BY <1>8, StartTaskOp
  <2>c. Cur(k)' = i /\ \A j \in Keys : j # k => Cur(j)' = Cur(j) /\ Cur(j) # i /\ Cur(j) \in Inst
    BY <2>h, CurFacts DEF Cur
  <2> HIDE DEF i
  <2>j. /\ \A j \in Inst : j # i => task'[j] = task[j]
        /\ task'[i].ProcessedIDs = IdsOf(restart[k].log)
    BY <2>h DEF TaskBecomes
  <2>1. \A j \in Inst : KeyOf(j) = k => task[j].ProcessedIDs \subseteq task'[i].ProcessedIDs
    BY <1>f, <2>h, <2>j DEF CurrentKnows, RestartKnows
  <2>2. CurrentKnows'
    <3> SUFFICES ASSUME NEW j \in Inst
                 PROVE  task'[j].ProcessedIDs \subseteq task'[Cur(KeyOf(j))'].ProcessedIDs
      BY DEF CurrentKnows
    <3>1. CASE KeyOf(j) = k
      BY <2>1, <2>c, <2>j, <3>1
    <3>2. CASE KeyOf(j) # k
      <4>1. KeyOf(j) \in Keys /\ j # i
        BY <2>h, <3>2, InstFacts
      <4> QED
        BY <1>f, <2>c, <2>j, <3>2, <4>1 DEF CurrentKnows
    <3> QED
      BY <3>1, <3>2
  <2>3. RestartKnows'
    BY <1>f, <2>c, <2>h, <2>j DEF RestartKnows
  <2>4. AckedKnown'
    <3> SUFFICES ASSUME NEW n \in pushes, n.kind = "data", n.pc = "acked"
                 PROVE  n.id \in task'[Cur(n.dest)'].ProcessedIDs
      BY <2>h DEF AckedKnown
    <3>1. n.id \in task[Cur(n.dest)].ProcessedIDs /\ n.dest \in Keys
      BY <1>f, PushFacts DEF AckedKnown
    <3> QED
      BY <2>1, <2>c, <2>j, <3>1, CurFacts
  <2> QED
    BY <2>2, <2>3, <2>4
<1> QED
  BY <1>0, <1>1, <1>2, <1>3, <1>4, <1>5, <1>6, <1>7, <1>8 DEF Next, InstStep, Finished

(* The latest process of a task knows what the earlier ones processed, in  *)
(* every reachable state.                                                  *)
LEMMA RemembersFollow == Spec => []RemInv
<1>1. Spec => []WriteAhead
  BY TypeCorrect, InitWriteAhead, NextWriteAhead, PTL DEF Spec
<1> QED
  BY <1>1, TypeCorrect, RunsFollow, InitRemInv, NextRemInv, PTL DEF Spec

(* As long as no HyDFS call failed, the process that is registered for a   *)
(* task has in ProcessedIDs every tuple that any process of the task ever  *)
(* acknowledged: whatever was killed, crashed, lost or restarted,          *)
(* loadDedupLog recovers it all.                                           *)
THEOREM RestartRemembers == Spec => []AckedIsRemembered
<1>1. RunInv /\ RemInv /\ TypeOK => AckedIsRemembered
  <2> SUFFICES ASSUME RunInv, RemInv, TypeOK, fails = 0, NEW k \in Keys, rsTasks[k] # 0,
                      NEW d \in Acked(k)
               PROVE  d \in task[<<k[1], k[2], rsTasks[k]>>].ProcessedIDs
    BY DEF AckedIsRemembered
  <2>1. <<k[1], k[2], rsTasks[k]>> = Cur(k)
    BY DEF RunInv, RegisteredCurrent, Cur
  <2>2. PICK m \in pushes : m.pc = "acked" /\ m.kind = "data" /\ m.dest = k /\ m.id = d
    BY DEF Acked
  <2> QED
    BY <2>1, <2>2 DEF RemInv, AckedKnown
<1> QED
  BY <1>1, RemembersFollow, TypeCorrect, RunsFollow, PTL

-----------------------------------------------------------------------------
(* EOSs.                                                                   *)

OriginsStarted ==
  \A m \in pushes :
    \/ m.org = Source /\ m.dest[1] = 1
    \/ /\ m.org \in Inst /\ m.org[3] <= runs[KeyOf(m.org)]
       /\ m.dest[1] = m.org[1] + 1
DataBeforeEOS ==
  \A m \in pushes : m.kind = "data" /\ m.org # Source /\ task[m.org].handler # "scan" =>
    m.pc = "acked"
EOSFromCurrent ==
  \A m \in pushes : m.kind = "EOS" /\ m.org # Source =>
    /\ task[m.org].handler # "scan" /\ m.org[3] = runs[KeyOf(m.org)]
    /\ restart[KeyOf(m.org)].pc = "none"
    /\ \A r \in reports : r.status = "Failure" => r.inst # m.org
SourceOrder ==
  \A m \in pushes : m.org = Source =>
    /\ m.kind = "EOS" => source.pc # "stream"
    /\ m.kind = "data" /\ source.pc # "stream" => m.pc = "acked"
OneEOS ==
  \A m, n \in pushes : m.kind = "EOS" /\ n.kind = "EOS" /\ m.org = n.org /\ m.dest = n.dest =>
    m = n
ClosedByCount == \A i \in Inst : task[i].pipe = "closed" => task[i].EOSCount >= NumUpstream(i)

AckedEOS == {m \in pushes : m.kind = "EOS" /\ m.pc = "acked"}
(* The upstream tasks whose EOS instance i has acknowledged.               *)
Sent(i) == {m.org[2] : m \in {e \in AckedEOS : e.dest = KeyOf(i) /\ e.run = i[3]}}
CountsSent == losses = 0 => \A i \in Inst : task[i].EOSCount = Cardinality(Sent(i))

(* Who sends EOSs, when, and how they are counted: a task that has sent    *)
(* its EOSs is never restarted, so that each upstream task sends one, and  *)
(* it sent it when all its tuples were acknowledged.                       *)
EosInv ==
  /\ OriginsStarted /\ DataBeforeEOS /\ EOSFromCurrent /\ SourceOrder /\ OneEOS
  /\ ClosedByCount /\ CountsSent

(* The sender of an EOS to a task is determined by its task id.            *)
LEMMA SenderOf ==
  ASSUME TypeOK, OriginsStarted, EOSFromCurrent, NEW m \in pushes, NEW e \in pushes,
         m.kind = "EOS", e.kind = "EOS", m.dest = e.dest, m.org[2] = e.org[2]
  PROVE  m.org = e.org
<1>1. CASE m.org = Source /\ e.org = Source
  BY <1>1
<1>2. CASE m.org = Source /\ e.org \in Inst
  <2>1. e.dest[1] = e.org[1] + 1 /\ m.dest[1] = 1 /\ e.org[1] \in Stages
    BY <1>2, InstFacts DEF OriginsStarted
  <2> QED
    BY <2>1, StreamAssumption DEF Stages
<1>3. CASE e.org = Source /\ m.org \in Inst
  <2>1. m.dest[1] = m.org[1] + 1 /\ e.dest[1] = 1 /\ m.org[1] \in Stages
    BY <1>3, InstFacts DEF OriginsStarted
  <2> QED
    BY <2>1, StreamAssumption DEF Stages
<1>4. CASE m.org \in Inst /\ e.org \in Inst
  <2>1. m.org[1] + 1 = e.org[1] + 1 /\ m.org[1] \in Nat /\ e.org[1] \in Nat
    BY <1>4, InstFacts DEF OriginsStarted, Stages
  <2>2. m.org[1] = e.org[1]
    BY <2>1
  <2>3. KeyOf(m.org) = KeyOf(e.org) /\ m.org # Source /\ e.org # Source
    BY <1>4, <2>2, InstFacts DEF KeyOf
  <2>4. m.org[3] = e.org[3]
    BY <2>3 DEF EOSFromCurrent
  <2> QED
    BY <1>4, <2>2, <2>4, InstFacts
<1> QED
  BY <1>1, <1>2, <1>3, <1>4, PushFacts

(* The acknowledged EOSs of an instance come from tasks, finitely many.    *)
LEMMA SentFinite ==
  ASSUME TypeOK, NEW i \in Inst
  PROVE  Sent(i) \subseteq Tasks /\ IsFiniteSet(Tasks) /\ Cardinality(Tasks) = NumTasks
         /\ IsFiniteSet(Sent(i)) /\ Cardinality(Sent(i)) \in Nat
<1>1. \A m \in pushes : m.org[2] \in Tasks
  <2>1. 0 \in Tasks
    BY StreamAssumption DEF Tasks
  <2> QED
    BY <2>1, PushFacts, InstFacts DEF Source
<1>2. Sent(i) \subseteq Tasks
  BY <1>1 DEF Sent, AckedEOS
<1>3. IsFiniteSet(Tasks) /\ Cardinality(Tasks) = NumTasks
  <2>1. NumTasks - 1 \in Int /\ 0 \in Int /\ 0 <= NumTasks - 1
    BY StreamAssumption
  <2>2. IsFiniteSet(0 .. NumTasks - 1)
        /\ Cardinality(0 .. NumTasks - 1) = (NumTasks - 1) - 0 + 1
    BY <2>1, FS_Interval
  <2> QED
    BY <2>2, StreamAssumption DEF Tasks
<1> QED
  BY <1>2, <1>3, FS_Subset, FS_CardinalityType

(* The invariant is strong enough.                                         *)
LEMMA EosInvCloses == TypeOK /\ RunInv /\ EosInv => ClosedAfterData
<1> SUFFICES ASSUME TypeOK, RunInv, EosInv, losses = 0, NEW i \in Inst,
                    task[i].pipe = "closed",
                    NEW m \in pushes, m.kind = "data", m.dest = KeyOf(i)
             PROVE  m.pc = "acked"
  BY DEF ClosedAfterData
<1>e. /\ OriginsStarted /\ DataBeforeEOS /\ EOSFromCurrent /\ SourceOrder
      /\ ClosedByCount /\ CountsSent
  BY DEF EosInv
<1>1. Cardinality(Sent(i)) >= NumUpstream(i)
  BY <1>e DEF ClosedByCount, CountsSent
<1>2. /\ Sent(i) \subseteq Tasks /\ IsFiniteSet(Tasks) /\ Cardinality(Tasks) = NumTasks
      /\ IsFiniteSet(Sent(i)) /\ Cardinality(Sent(i)) \in Nat
  BY SentFinite
<1>3. m.dest[1] = i[1] /\ i[1] \in Stages
  BY InstFacts
<1>4. CASE m.org = Source
  <2>1. i[1] = 1
    BY <1>3, <1>4, <1>e, InstFacts DEF OriginsStarted
  <2>2. Cardinality(Sent(i)) # 0
    BY <1>1, <1>2, <2>1 DEF NumUpstream
  <2>3. Sent(i) # {}
    BY <2>2, FS_EmptySet
  <2>4. PICK e \in pushes : e.kind = "EOS" /\ e.dest = KeyOf(i)
    BY <2>3 DEF Sent, AckedEOS
  <2>5. e.org = Source
    <3>1. ASSUME e.org \in Inst PROVE FALSE
      <4>1. e.org[1] \in Stages /\ e.dest[1] = e.org[1] + 1 /\ e.dest[1] = 1
        BY <1>e, <2>1, <2>4, <3>1, InstFacts DEF OriginsStarted
      <4> QED
        BY <4>1, StreamAssumption DEF Stages
    <3> QED
      BY <3>1, PushFacts
  <2> QED
    BY <1>4, <1>e, <2>4, <2>5 DEF SourceOrder
<1>5. CASE m.org \in Inst
  <2>0. m.org # Source /\ m.org[1] + 1 = i[1] /\ m.org[3] <= runs[KeyOf(m.org)] /\ m.org[2] \in Tasks
        /\ m.org[1] \in Stages
    BY <1>3, <1>5, <1>e, InstFacts DEF OriginsStarted
  <2>1. i[1] # 1
    BY <2>0, StreamAssumption DEF Stages
  <2>2. Cardinality(Sent(i)) >= NumTasks
    BY <1>1, <2>1 DEF NumUpstream
  <2>3. Cardinality(Sent(i)) <= Cardinality(Tasks)
    BY <1>2, FS_Subset
  <2>4. Cardinality(Sent(i)) = Cardinality(Tasks)
    BY <1>2, <2>2, <2>3, StreamAssumption
  <2>5. Sent(i) = Tasks
    BY <1>2, <2>4, FS_Subset
  <2>6. PICK e \in pushes : e.kind = "EOS" /\ e.dest = KeyOf(i) /\ e.org[2] = m.org[2]
    BY <2>0, <2>5 DEF Sent, AckedEOS
  <2>7. e.org \in Inst /\ e.org # Source
    <3>1. e.org # Source
      BY <1>e, <1>3, <2>1, <2>6, InstFacts DEF OriginsStarted
    <3> QED
      BY <3>1, PushFacts
  <2>8. KeyOf(e.org) = KeyOf(m.org)
    <3>1. e.org[1] + 1 = i[1] /\ e.org[1] \in Stages
      BY <1>e, <1>3, <2>6, <2>7, InstFacts DEF OriginsStarted
    <3>2. e.org[1] = m.org[1]
      BY <2>0, <3>1 DEF Stages
    <3> QED
      BY <2>6, <3>2 DEF KeyOf
  <2>9. task[e.org].handler # "scan" /\ e.org[3] = runs[KeyOf(m.org)]
    BY <1>e, <2>6, <2>7, <2>8 DEF EOSFromCurrent
  <2>10. task[m.org].handler # "scan"
    <3>1. CASE m.org[3] = runs[KeyOf(m.org)]
      <4>1. e.org = m.org
        BY <1>5, <2>7, <2>8, <2>9, <3>1, InstFacts DEF KeyOf
      <4> QED
        BY <2>9, <4>1
    <3>2. CASE m.org[3] < runs[KeyOf(m.org)]
      BY <1>5, <3>2 DEF RunInv, EarlierDone
    <3> QED
      BY <1>5, <2>0, <3>1, <3>2, RunTypes
  <2> QED
    BY <1>e, <2>0, <2>10 DEF DataBeforeEOS
<1> QED
  BY <1>4, <1>5, PushFacts

(* A push that takes a step is not acknowledged yet.                       *)
LEMMA StepNotAcked ==
  ASSUME NEW m \in pushes, PushStep(m)
  PROVE  m.pc # "acked"
BY DEF PushStep, PushLookup, PushEOS, PushDuplicate, PushFresh, PushLog, PushLogFails, PushWrite,
       PushWriteFails

(* Apart from PushEOS no step of a push counts or acknowledges an EOS.     *)
LEMMA PushNoEOS ==
  ASSUME TypeOK, RunInv, NEW m \in pushes, PushStep(m), ~PushEOS(m)
  PROVE  /\ AckedEOS' = AckedEOS
         /\ \A j \in Inst : task'[j].EOSCount = task[j].EOSCount /\ task'[j].pipe = task[j].pipe
<1>n. m.pc # "acked"
  BY StepNotAcked
<1>s. ASSUME NEW p, NEW q, NEW n, Moved(m, p, q, n), p # "acked" \/ m.kind = "data"
      PROVE  AckedEOS' = AckedEOS
  BY <1>n, <1>s DEF Moved, AckedEOS
<1>a. ASSUME Answered(m), m.kind = "data" PROVE AckedEOS' = AckedEOS
  BY <1>a, <1>s DEF Answered
<1>i. m.pc \in {"locking", "logging", "writing"} => Target(m) \in Inst
  BY PushFacts
<1>l. ASSUME NEW l, LockBecomes(Target(m), l), m.pc \in {"locking", "logging", "writing"}
      PROVE  \A j \in Inst : task'[j].EOSCount = task[j].EOSCount /\ task'[j].pipe = task[j].pipe
  BY <1>l, <1>i DEF LockBecomes, TaskBecomes
<1>1. CASE PushLookup(m)
  BY <1>1, <1>s, PushLookupOp
<1>3. CASE PushDuplicate(m)
  BY <1>3, <1>a, PushDuplicateOp
<1>4. CASE PushFresh(m)
  BY <1>4, <1>s, <1>l, PushFreshOp
<1>5. CASE PushLog(m)
  BY <1>5, <1>s, PushLogOp
<1>6. CASE PushLogFails(m)
  BY <1>6, <1>s, <1>l, PushLogFailsOp
<1>7. CASE PushWrite(m)
  <2>1. m.pc = "writing" /\ Answered(m) /\ m.kind = "data"
    BY <1>7, PushWriteOp, PushFacts
  <2>2. \A j \in Inst : task'[j].EOSCount = task[j].EOSCount /\ task'[j].pipe = task[j].pipe
    <3> DEFINE i == Target(m)
               x == Append(task[i].Stdin, m.val)
               s == task[i].ProcessedIDs \cup {m.id}
    <3>1. TaskBecomes(i, task[i].proc, x, task[i].pipe, task[i].Stdout, s, task[i].SeqNum,
                      task[i].EOSCount, "free", task[i].replay, task[i].handler)
      BY <1>7, PushWriteOp
    <3> HIDE DEF x, s
    <3> QED
      BY <1>i, <2>1, <3>1 DEF TaskBecomes
  <2> QED
    BY <1>a, <2>1, <2>2
<1>8. CASE PushWriteFails(m)
  BY <1>8, <1>s, <1>l, PushWriteFailsOp
<1> QED
  BY <1>1, <1>3, <1>4, <1>5, <1>6, <1>7, <1>8 DEF PushStep

(* The order of tuples and EOSs when a push moves.                         *)
LEMMA PushOrder ==
  ASSUME TypeOK, RunInv, EosInv, NEW m \in pushes, PushStep(m)
  PROVE  OriginsStarted' /\ DataBeforeEOS' /\ EOSFromCurrent' /\ SourceOrder' /\ OneEOS'
<1>e. OriginsStarted /\ DataBeforeEOS /\ EOSFromCurrent /\ SourceOrder /\ OneEOS
  BY DEF EosInv
<1>q. PushQuiet(m) /\ m.pc # "acked"
  BY PushIsQuiet, StepNotAcked
<1>1. PICK p, q, n : Moved(m, p, q, n)
  BY <1>q DEF PushQuiet
<1>2. /\ n.org = m.org /\ n.kind = m.kind /\ n.dest = m.dest
      /\ pushes' = (pushes \ {m}) \cup {n}
  BY <1>1 DEF Moved
<1>3. /\ runs' = runs /\ reports' = reports /\ restart' = restart /\ source' = source
      /\ \A j \in Inst : task'[j].handler = task[j].handler
      /\ \A o \in pushes : o.org # Source => o.org \in Inst
  BY <1>q, PushFacts DEF PushQuiet, PushFrame
<1>4. OriginsStarted'
  BY <1>2, <1>3, <1>e DEF OriginsStarted
<1>5. DataBeforeEOS'
  BY <1>2, <1>3, <1>e, <1>q DEF DataBeforeEOS
<1>6. EOSFromCurrent'
  BY <1>2, <1>3, <1>e DEF EOSFromCurrent
<1>7. SourceOrder'
  BY <1>2, <1>3, <1>e, <1>q DEF SourceOrder
<1>8. OneEOS'
  BY <1>2, <1>e DEF OneEOS
<1> QED
  BY <1>4, <1>5, <1>6, <1>7, <1>8

(* Counting an EOS keeps the count of those acknowledged.                  *)
LEMMA CountEOS ==
  ASSUME TypeOK, TypeOK', RunInv, EosInv, NEW m \in pushes, PushEOS(m)
  PROVE  ClosedByCount' /\ CountsSent'
<1> DEFINE i == Target(m)
<1>e. OriginsStarted /\ EOSFromCurrent /\ OneEOS /\ ClosedByCount /\ CountsSent
  BY DEF EosInv
<1>1. m.pc = "locking" /\ m.kind = "EOS" /\ Answered(m)
  BY PushEOSOp
<1>2. i \in Inst /\ KeyOf(i) = m.dest /\ i[3] = m.run
  BY <1>1, PushFacts
<1>3. /\ task'[i].EOSCount = task[i].EOSCount + 1
      /\ task'[i].pipe = "closed" =>
           task[i].EOSCount + 1 >= NumUpstream(i) \/ task[i].pipe = "closed"
      /\ \A j \in Inst : j # i => task'[j] = task[j]
  BY <1>2, PushEOSOp DEF TaskBecomes
<1> HIDE DEF i
<1>4. ClosedByCount'
  <2>1. task[i].EOSCount \in Nat /\ NumUpstream(i) \in Nat
    BY <1>2, FieldTypes, StreamAssumption DEF NumUpstream, TypeOK
  <2>2. task[i].EOSCount >= NumUpstream(i) => task[i].EOSCount + 1 >= NumUpstream(i)
    BY <2>1
  <2>3. task'[i].pipe = "closed" => task'[i].EOSCount >= NumUpstream(i)
    BY <1>2, <1>3, <1>e, <2>2 DEF ClosedByCount
  <2> QED
    BY <1>3, <1>e, <2>3 DEF ClosedByCount, NumUpstream
<1>5. CountsSent'
  <2> SUFFICES ASSUME losses' = 0, NEW j \in Inst PROVE task'[j].EOSCount = Cardinality(Sent(j)')
    BY DEF CountsSent
  <2>1. losses' # losses + 1
    BY StreamAssumption DEF TypeOK, FaultsOK
  <2>2. losses = 0 /\ \E n : Moved(m, "acked", m.run, n)
    BY <1>1, <2>1 DEF Answered
  <2>3. PICK n : Moved(m, "acked", m.run, n)
    BY <2>2
  <2>4. /\ n.org = m.org /\ n.kind = "EOS" /\ n.pc = "acked" /\ n.dest = m.dest /\ n.run = m.run
        /\ pushes' = (pushes \ {m}) \cup {n}
    BY <1>1, <2>3 DEF Moved
  <2>5. AckedEOS' = AckedEOS \cup {n}
    BY <1>1, <2>4 DEF AckedEOS
  <2>6. task[j].EOSCount = Cardinality(Sent(j))
    BY <1>e, <2>2 DEF CountsSent
  <2>7. CASE j = i
    <3>1. Sent(j)' = Sent(j) \cup {m.org[2]}
      BY <1>2, <2>4, <2>5, <2>7 DEF Sent
    <3>2. m.org[2] \notin Sent(j)
      <4> SUFFICES ASSUME NEW d \in AckedEOS, d.dest = KeyOf(j), d.org[2] = m.org[2] PROVE FALSE
        BY DEF Sent
      <4>1. d \in pushes /\ d.kind = "EOS" /\ d.pc = "acked" /\ d.dest = m.dest
        BY <1>2, <2>7 DEF AckedEOS
      <4>2. d.org = m.org
        BY <1>1, <1>e, <4>1, SenderOf
      <4>3. d = m
        BY <1>1, <1>e, <4>1, <4>2 DEF OneEOS
      <4> QED
        BY <1>1, <4>1, <4>3
    <3>3. IsFiniteSet(Sent(j))
      BY SentFinite
    <3>4. Cardinality(Sent(j) \cup {m.org[2]}) = Cardinality(Sent(j)) + 1
      BY <3>2, <3>3, FS_AddElement
    <3> QED
      BY <1>3, <2>6, <2>7, <3>1, <3>4
  <2>8. CASE j # i
    <3>1. ~(n.dest = KeyOf(j) /\ n.run = j[3])
      BY <1>2, <2>4, <2>8, InstFacts DEF KeyOf
    <3>2. Sent(j)' = Sent(j)
      BY <2>5, <3>1 DEF Sent
    <3> QED
      BY <1>3, <2>6, <2>8, <3>2
  <2> QED
    BY <2>7, <2>8
<1> QED
  BY <1>4, <1>5

(* Nothing changes for the counts when no EOS is acknowledged.             *)
LEMMA CountsStay ==
  ASSUME TypeOK, EosInv, losses' = 0 => losses = 0, AckedEOS' = AckedEOS,
         \A j \in Inst : task'[j].EOSCount = task[j].EOSCount /\ task'[j].pipe = task[j].pipe
  PROVE  ClosedByCount' /\ CountsSent'
<1>1. \A j \in Inst : Sent(j)' = Sent(j)
  BY DEF Sent
<1>2. ClosedByCount'
  BY DEF EosInv, ClosedByCount, NumUpstream
<1>3. CountsSent'
  BY <1>1 DEF EosInv, CountsSent
<1> QED
  BY <1>2, <1>3

(* A step of PushTuple keeps EosInv.                                       *)
LEMMA PushEosInv ==
  ASSUME TypeOK, TypeOK', RunInv, EosInv, NEW m \in pushes, PushStep(m),
         losses' = 0 => losses = 0
  PROVE  EosInv'
BY PushOrder, PushNoEOS, CountEOS, CountsStay DEF EosInv

(* New pushes that are still to be sent do not change what is counted.     *)
LEMMA CreateKeepsAcked ==
  ASSUME NEW S, pushes' = pushes \cup S, \A n \in S : n.pc = "send"
  PROVE  AckedEOS' = AckedEOS
BY DEF AckedEOS

(* The source keeps EosInv.                                                *)
LEMMA SourceEosInv ==
  ASSUME TypeOK, TypeOK', RunInv, EosInv, SourceLine \/ SourceEOS \/ SourceDone
  PROVE  EosInv'
<1>e. OriginsStarted /\ DataBeforeEOS /\ EOSFromCurrent /\ SourceOrder /\ OneEOS
  BY DEF EosInv
<1>f. SourceFrame
  BY SourceLineOp, SourceEOSOp, SourceDoneOp
<1>s. 1 \in Stages
  BY StreamAssumption DEF Stages
<1>1. CASE SourceLine
  <2>1. PICK n : pushes' = pushes \cup {n} /\ n.org = Source /\ n.kind = "data"
                 /\ n.dest[1] = 1 /\ n.pc = "send"
    BY <1>1, SourceLineOp DEF Created
  <2>2. source.pc = "stream" /\ source'.pc = "stream"
    BY <1>1, SourceLineOp
  <2>3. AckedEOS' = AckedEOS
    BY <2>1 DEF AckedEOS
  <2>4. ClosedByCount' /\ CountsSent'
    BY <1>f, <2>3, CountsStay DEF SourceFrame
  <2>5. OriginsStarted' /\ DataBeforeEOS' /\ EOSFromCurrent'
    BY <1>e, <1>f, <2>1 DEF SourceFrame, OriginsStarted, DataBeforeEOS, EOSFromCurrent
  <2>6. SourceOrder' /\ OneEOS'
    BY <1>e, <2>1, <2>2 DEF SourceOrder, OneEOS
  <2> QED
    BY <2>4, <2>5, <2>6 DEF EosInv
<1>2. CASE SourceEOS
  <2>1. /\ pushes' = pushes \cup EOSPushes(Source, 1)
        /\ source.pc = "stream" /\ source'.pc = "eos" /\ AllAcked(Source)
    BY <1>2, SourceEOSOp
  <2>2. /\ \A n \in EOSPushes(Source, 1) : n.org = Source /\ n.kind = "EOS" /\ n.dest[1] = 1
                                           /\ n.pc = "send"
        /\ \A n, o \in EOSPushes(Source, 1) : n.dest = o.dest => n = o
    BY <1>s, EOSPushFacts
  <2>3. AckedEOS' = AckedEOS
    BY <2>1, <2>2, CreateKeepsAcked
  <2>4. ClosedByCount' /\ CountsSent'
    BY <1>f, <2>3, CountsStay DEF SourceFrame
  <2>5. OriginsStarted' /\ DataBeforeEOS' /\ EOSFromCurrent'
    BY <1>e, <1>f, <2>1, <2>2 DEF SourceFrame, OriginsStarted, DataBeforeEOS, EOSFromCurrent
  <2>6. SourceOrder'
    BY <1>e, <2>1, <2>2 DEF SourceOrder, AllAcked
  <2>7. OneEOS'
    BY <1>e, <2>1, <2>2 DEF SourceOrder, OneEOS
  <2> QED
    BY <2>4, <2>5, <2>6, <2>7 DEF EosInv
<1>3. CASE SourceDone
  <2>1. pushes' = pushes /\ source.pc = "eos" /\ source'.pc = "done"
    BY <1>3, SourceDoneOp
  <2>4. ClosedByCount' /\ CountsSent'
    BY <1>f, <2>1, CountsStay DEF SourceFrame, AckedEOS
  <2>5. OriginsStarted' /\ DataBeforeEOS' /\ EOSFromCurrent' /\ SourceOrder' /\ OneEOS'
    BY <1>e, <1>f, <2>1 DEF SourceFrame, OriginsStarted, DataBeforeEOS, EOSFromCurrent,
         SourceOrder, OneEOS
  <2> QED
    BY <2>4, <2>5 DEF EosInv
<1> QED
  BY <1>1, <1>2, <1>3

(* A step that moves no push, no handler and no process.                   *)
LEMMA QuietEosInv ==
  ASSUME TypeOK, RunInv, EosInv, runs' = runs, source' = source, pushes' = pushes,
         reports' \subseteq reports, losses' = 0 => losses = 0,
         \A k \in Keys : restart[k].pc = "none" => restart'[k].pc = "none",
         \A j \in Inst : /\ task'[j].handler = task[j].handler
                         /\ task'[j].EOSCount = task[j].EOSCount /\ task'[j].pipe = task[j].pipe
  PROVE  EosInv'
<1>e. OriginsStarted /\ DataBeforeEOS /\ EOSFromCurrent /\ SourceOrder /\ OneEOS
  BY DEF EosInv
<1>o. \A m \in pushes : m.org # Source => m.org \in Inst /\ KeyOf(m.org) \in Keys
  BY PushFacts, InstFacts
<1>1. OriginsStarted' /\ SourceOrder' /\ OneEOS'
  BY <1>e DEF OriginsStarted, SourceOrder, OneEOS
<1>2. DataBeforeEOS' /\ EOSFromCurrent'
  BY <1>e, <1>o DEF DataBeforeEOS, EOSFromCurrent
<1>3. ClosedByCount' /\ CountsSent'
  BY CountsStay DEF AckedEOS
<1> QED
  BY <1>1, <1>2, <1>3 DEF EosInv

(* A line of output keeps EosInv.                                          *)
LEMMA OutputEosInv ==
  ASSUME TypeOK, TypeOK', RunInv, EosInv, NEW i \in Inst, HandleOutput(i)
  PROVE  EosInv'
<1>e. OriginsStarted /\ DataBeforeEOS /\ EOSFromCurrent /\ SourceOrder /\ OneEOS
  BY DEF EosInv
<1>1. /\ UNCHANGED <<rsTasks, runs, reports, restart, FinishedTasks, source, losses>>
      /\ \A j \in Inst : /\ task'[j].handler = task[j].handler
                         /\ task'[j].EOSCount = task[j].EOSCount /\ task'[j].pipe = task[j].pipe
  BY InstQuiet
<1>2. CASE pushes' = pushes
  BY <1>1, <1>2, QuietEosInv
<1>3. CASE \E n, t, d, v : pushes' = pushes \cup {n} /\ Created(n, i, <<i[1] + 1, t>>, d, v)
  <2>1. PICK n : /\ pushes' = pushes \cup {n} /\ n.org = i /\ n.kind = "data"
                 /\ n.dest[1] = i[1] + 1 /\ n.pc = "send"
    BY <1>3 DEF Created
  <2>2. i[3] <= runs[KeyOf(i)] /\ task[i].handler = "scan" /\ i # Source
    <3>1. task[i].Stdout # <<>> /\ task[i].handler = "scan"
      BY HandleOutputOp
    <3>2. ~(i[3] > runs[KeyOf(i)])
      BY <3>1, NoTaskFields DEF RunInv, Unstarted
    <3> QED
      BY <3>1, <3>2, RunTypes, InstFacts
  <2>3. \A m \in pushes : m.org # Source => m.org \in Inst /\ KeyOf(m.org) \in Keys
    BY PushFacts, InstFacts
  <2>4. OriginsStarted'
    BY <1>1, <1>e, <2>1, <2>2 DEF OriginsStarted
  <2>5. DataBeforeEOS' /\ EOSFromCurrent'
    BY <1>1, <1>e, <2>1, <2>2, <2>3 DEF DataBeforeEOS, EOSFromCurrent
  <2>6. SourceOrder' /\ OneEOS'
    BY <1>1, <1>e, <2>1, <2>2 DEF SourceOrder, OneEOS
  <2>7. AckedEOS' = AckedEOS
    BY <2>1 DEF AckedEOS
  <2>8. ClosedByCount' /\ CountsSent'
    BY <1>1, <2>7, CountsStay
  <2> QED
    BY <2>4, <2>5, <2>6, <2>8 DEF EosInv
<1> QED
  BY <1>2, <1>3, HandleOutputOp

(* The end of the output keeps EosInv.                                     *)
LEMMA HandlerEosInv ==
  ASSUME TypeOK, TypeOK', RunInv, EosInv, NEW i \in Inst, HandleEOF(i) \/ HandleEOSSent(i)
  PROVE  EosInv'
<1>e. OriginsStarted /\ DataBeforeEOS /\ EOSFromCurrent /\ SourceOrder /\ OneEOS
  BY DEF EosInv
<1>h. /\ i[3] = runs[KeyOf(i)] /\ restart[KeyOf(i)].pc = "none"
      /\ \A r \in reports : KeyOf(r.inst) # KeyOf(i)
      /\ runs' = runs /\ restart' = restart /\ source' = source /\ losses' = losses
      /\ task'[i].handler # "scan"
      /\ \A j \in Inst :
           /\ Aged(j)
           /\ j # i => task'[j] = task[j]
           /\ task'[j].EOSCount = task[j].EOSCount /\ task'[j].pipe = task[j].pipe
      /\ \A n \in pushes' : n \in pushes \/ n.pc = "send"
  BY HandlerStep
<1>o. /\ \A m \in pushes : m.org # Source => m.org \in Inst /\ KeyOf(m.org) \in Keys
      /\ i # Source /\ i[3] \in Nat
  BY PushFacts, InstFacts, RunTypes
<1>a. \A m \in pushes : m.org = i => m.pc = "acked" \/ m.kind = "EOS"
  <2>1. CASE HandleEOF(i)
    BY <2>1, HandleEOFOp DEF AllAcked
  <2>2. CASE HandleEOSSent(i)
    <3>1. task[i].handler = "eos"
      BY <2>2, HandleEOSSentOp
    <3> QED
      BY <1>e, <1>o, <3>1, PushFacts DEF DataBeforeEOS
  <2> QED
    BY <2>1, <2>2
<1>1. CASE pushes' = pushes
  <2>1. OriginsStarted' /\ SourceOrder' /\ OneEOS'
    BY <1>1, <1>e, <1>h DEF OriginsStarted, SourceOrder, OneEOS
  <2>2. DataBeforeEOS'
    BY <1>1, <1>a, <1>e, <1>h, <1>o DEF DataBeforeEOS
  <2>3. \A r \in reports' : r.status = "Failure" => r \in reports \/ (r.inst = i /\ task[i].handler = "scan")
    BY HandleEOFOp, HandleEOSSentOp
  <2>4. EOSFromCurrent'
    BY <1>1, <1>e, <1>h, <1>o, <2>3 DEF EOSFromCurrent, Aged
  <2>5. ClosedByCount' /\ CountsSent'
    BY <1>1, <1>h, CountsStay DEF AckedEOS
  <2> QED
    BY <2>1, <2>2, <2>4, <2>5 DEF EosInv
<1>2. CASE pushes' # pushes
  <2>1. /\ task[i].handler = "scan" /\ i[1] + 1 \in Stages /\ reports' = reports
        /\ pushes' = pushes \cup EOSPushes(i, i[1] + 1)
    BY <1>2, HandleEOFOp, HandleEOSSentOp
  <2>2. /\ \A n \in EOSPushes(i, i[1] + 1) : n.org = i /\ n.kind = "EOS" /\ n.dest[1] = i[1] + 1
                                             /\ n.pc = "send"
        /\ \A n, o \in EOSPushes(i, i[1] + 1) : n.dest = o.dest => n = o
    BY <2>1, EOSPushFacts
  <2>3. \A m \in pushes : m.org = i => m.kind = "data"
    BY <1>e, <1>o, <2>1, PushFacts DEF EOSFromCurrent
  <2>4. OriginsStarted' /\ SourceOrder'
    BY <1>e, <1>h, <1>o, <2>1, <2>2 DEF OriginsStarted, SourceOrder
  <2>5. DataBeforeEOS'
    BY <1>a, <1>e, <1>h, <1>o, <2>1, <2>2 DEF DataBeforeEOS
  <2>6. EOSFromCurrent'
    <3> SUFFICES ASSUME NEW m \in pushes', m.kind = "EOS", m.org # Source
                 PROVE  /\ task'[m.org].handler # "scan" /\ m.org[3] = runs[KeyOf(m.org)]
                        /\ restart[KeyOf(m.org)].pc = "none"
                        /\ \A r \in reports : r.status = "Failure" => r.inst # m.org
      BY <1>h, <2>1 DEF EOSFromCurrent
    <3>1. CASE m \in pushes
      BY <1>e, <1>h, <1>o, <3>1 DEF EOSFromCurrent, Aged
    <3>2. CASE m \in EOSPushes(i, i[1] + 1)
      BY <1>h, <2>2, <3>2
    <3> QED
      BY <2>1, <3>1, <3>2
  <2>7. OneEOS'
    BY <1>e, <2>1, <2>2, <2>3 DEF OneEOS
  <2>8. AckedEOS' = AckedEOS
    BY <2>1, <2>2, CreateKeepsAcked
  <2>9. ClosedByCount' /\ CountsSent'
    BY <1>h, <2>8, CountsStay
  <2> QED
    BY <2>4, <2>5, <2>6, <2>7, <2>9 DEF EosInv
<1> QED
  BY <1>1, <1>2

(* TaskFinished keeps EosInv.                                              *)
LEMMA FinishedEosInv ==
  ASSUME TypeOK, TypeOK', RunInv, EosInv, NEW r \in reports, TaskFinished(r)
  PROVE  EosInv'
<1>e. OriginsStarted /\ DataBeforeEOS /\ EOSFromCurrent /\ SourceOrder /\ OneEOS
  BY DEF EosInv
<1>h. /\ reports' = reports \ {r} /\ r.inst \in Inst
      /\ task' = task /\ runs' = runs /\ pushes' = pushes /\ source' = source /\ losses' = losses
      /\ \/ restart' = restart
         \/ /\ r.status = "Failure"
            /\ \A k \in Keys : k # KeyOf(r.inst) => restart'[k] = restart[k]
  BY TaskFinishedOp DEF LeaderFrame
<1>1. OriginsStarted' /\ DataBeforeEOS' /\ SourceOrder' /\ OneEOS'
  BY <1>e, <1>h DEF OriginsStarted, DataBeforeEOS, SourceOrder, OneEOS
<1>2. ClosedByCount' /\ CountsSent'
  BY <1>h, CountsStay DEF AckedEOS
<1>3. EOSFromCurrent'
  <2> SUFFICES ASSUME NEW m \in pushes, m.kind = "EOS", m.org # Source
               PROVE  restart'[KeyOf(m.org)].pc = "none"
    BY <1>e, <1>h DEF EOSFromCurrent
  <2>1. m.org \in Inst /\ KeyOf(m.org) \in Keys
    BY PushFacts, InstFacts
  <2>2. /\ m.org[3] = runs[KeyOf(m.org)] /\ restart[KeyOf(m.org)].pc = "none"
        /\ r.status = "Failure" => r.inst # m.org
    BY <1>e DEF EOSFromCurrent
  <2>3. r.status = "Failure" => KeyOf(r.inst) # KeyOf(m.org)
    <3>1. r.inst[3] = runs[KeyOf(r.inst)]
      BY DEF RunInv, ReportsCurrent
    <3> QED
      BY <1>h, <2>1, <2>2, <3>1, CurFacts
  <2> QED
    BY <1>h, <2>1, <2>2, <2>3
<1> QED
  BY <1>1, <1>2, <1>3 DEF EosInv

(* StartTask keeps EosInv.                                                 *)
LEMMA StartEosInv ==
  ASSUME TypeOK, TypeOK', RunInv, EosInv, NEW k \in Keys, StartTask(k)
  PROVE  EosInv'
<1>e. OriginsStarted /\ DataBeforeEOS /\ EOSFromCurrent /\ SourceOrder /\ OneEOS
      /\ ClosedByCount /\ CountsSent
  BY DEF EosInv
<1> DEFINE i == <<k[1], k[2], runs[k] + 1>>
<1>h. /\ restart[k].pc = "start" /\ i \in Inst /\ KeyOf(i) = k /\ i[3] = runs[k] + 1
      /\ TaskBecomes(i, "running", <<>>, "open", <<>>, IdsOf(restart[k].log), 0, 0,
                        "free", restart[k].log, "scan")
      /\ runs'[k] = runs[k] + 1 /\ restart'[k].pc = "none"
      /\ \A j \in Keys : j # k => /\ runs'[j] = runs[j] /\ restart'[j] = restart[j]
      /\ pushes' = pushes /\ reports' = reports /\ source' = source /\ losses' = losses
  BY StartTaskOp
<1>n. /\ \A j \in Keys : runs[j] \in Nat
      /\ \A j \in Inst : j[3] \in Nat /\ KeyOf(j) \in Keys
      /\ \A m \in pushes : m.run \in Nat
      /\ \A m \in pushes : m.org # Source => m.org \in Inst /\ KeyOf(m.org) \in Keys
  BY RunTypes, InstFacts, PushFacts
<1> HIDE DEF i
<1>j. /\ \A j \in Inst : j # i => task'[j] = task[j]
      /\ task'[i].handler = "scan" /\ task'[i].pipe = "open" /\ task'[i].EOSCount = 0
  BY <1>h DEF TaskBecomes
<1>m. \A m \in pushes : m.org \in Inst => m.org[3] <= runs[KeyOf(m.org)]
  BY <1>e, InstFacts DEF OriginsStarted
<1>o. \A m \in pushes : m.org # Source => m.org # i
  BY <1>h, <1>m, <1>n
<1>1. OriginsStarted'
  <2> SUFFICES ASSUME NEW m \in pushes
               PROVE  \/ m.org = Source /\ m.dest[1] = 1
                      \/ /\ m.org \in Inst /\ m.org[3] <= runs'[KeyOf(m.org)]
                         /\ m.dest[1] = m.org[1] + 1
    BY <1>h DEF OriginsStarted
  <2> QED
    BY <1>e, <1>h, <1>n DEF OriginsStarted
<1>2. DataBeforeEOS'
  BY <1>e, <1>h, <1>j, <1>n, <1>o DEF DataBeforeEOS
<1>3. EOSFromCurrent'
  <2> SUFFICES ASSUME NEW m \in pushes, m.kind = "EOS", m.org # Source
               PROVE  /\ task'[m.org].handler # "scan" /\ m.org[3] = runs'[KeyOf(m.org)]
                      /\ restart'[KeyOf(m.org)].pc = "none"
                      /\ \A r \in reports : r.status = "Failure" => r.inst # m.org
    BY <1>h DEF EOSFromCurrent
  <2>1. /\ task[m.org].handler # "scan" /\ m.org[3] = runs[KeyOf(m.org)]
        /\ restart[KeyOf(m.org)].pc = "none"
        /\ \A r \in reports : r.status = "Failure" => r.inst # m.org
    BY <1>e DEF EOSFromCurrent
  <2>2. KeyOf(m.org) # k
    BY <1>h, <2>1
  <2> QED
    BY <1>h, <1>j, <1>n, <1>o, <2>1, <2>2
<1>4. SourceOrder' /\ OneEOS'
  BY <1>e, <1>h DEF SourceOrder, OneEOS
<1>5. ClosedByCount'
  BY <1>e, <1>j DEF ClosedByCount, NumUpstream
<1>6. CountsSent'
  <2> SUFFICES ASSUME losses' = 0, NEW j \in Inst PROVE task'[j].EOSCount = Cardinality(Sent(j)')
    BY DEF CountsSent
  <2>1. Sent(j)' = Sent(j)
    BY <1>h DEF Sent, AckedEOS
  <2>2. CASE j # i
    BY <1>e, <1>h, <1>j, <2>1, <2>2 DEF CountsSent
  <2>3. CASE j = i
    <3>1. \A m \in AckedEOS : ~(m.dest = KeyOf(i) /\ m.run = i[3])
      <4> SUFFICES ASSUME NEW m \in pushes, m.pc = "acked", m.dest = k, m.run = runs[k] + 1
                   PROVE  FALSE
        BY <1>h DEF AckedEOS
      <4>1. m.run <= runs[k]
        BY DEF RunInv, BoundStarted
      <4> QED
        BY <1>n, <4>1
    <3>2. Sent(i) = {}
      BY <3>1 DEF Sent
    <3> QED
      BY <1>j, <2>1, <2>3, <3>2, FS_EmptySet
  <2> QED
    BY <2>2, <2>3
<1> QED
  BY <1>1, <1>2, <1>3, <1>4, <1>5, <1>6 DEF EosInv

(* EosInv holds initially.                                                 *)
LEMMA InitEosInv == Init => EosInv
<1> SUFFICES ASSUME Init PROVE EosInv
  OBVIOUS
<1>1. pushes = {}
  BY DEF Init
<1>2. \A i \in Inst : task[i].pipe = "open" /\ task[i].EOSCount = 0
  BY NoTaskFields DEF Init, AllStarted, NewTask
<1>3. OriginsStarted /\ DataBeforeEOS /\ EOSFromCurrent /\ SourceOrder /\ OneEOS
  BY <1>1 DEF OriginsStarted, DataBeforeEOS, EOSFromCurrent, SourceOrder, OneEOS
<1>4. ClosedByCount
  BY <1>2 DEF ClosedByCount
<1>5. \A i \in Inst : Sent(i) = {}
  BY <1>1 DEF Sent, AckedEOS
<1>6. CountsSent
  BY <1>2, <1>5, FS_EmptySet DEF CountsSent
<1> QED
  BY <1>3, <1>4, <1>6 DEF EosInv

(* Every step keeps EosInv.                                                *)
LEMMA NextEosInv ==
  ASSUME TypeOK, TypeOK', RunInv, EosInv, [Next]_vars
  PROVE  EosInv'
<1>l. losses' = 0 => losses = 0
  BY FaultsStay
<1>0. CASE UNCHANGED vars
  <2>1. UNCHANGED <<task, runs, source, pushes, reports, restart>>
    BY <1>0 DEF vars, nodeVars, leaderVars
  <2> QED
    BY <1>l, <2>1, QuietEosInv
<1>1. ASSUME NEW m \in pushes, PushStep(m) PROVE EosInv'
  BY <1>1, <1>l, PushEosInv
<1>2. CASE SourceLine \/ SourceEOS \/ SourceDone
  BY <1>2, SourceEosInv
<1>3. ASSUME NEW i \in Inst,
             \/ Operator(i) \/ OperatorExit(i) \/ ReplayLock(i) \/ ReplayWrite(i)
             \/ Crash(i) \/ KillProcess(i)
      PROVE  EosInv'
  <2>1. pushes' = pushes
    BY <1>3, OperatorOp, OperatorExitOp, ReplayLockOp, ReplayWriteOp, DieOp
  <2>2. /\ UNCHANGED <<runs, reports, restart, source>>
        /\ \A j \in Inst : /\ task'[j].handler = task[j].handler
                           /\ task'[j].EOSCount = task[j].EOSCount /\ task'[j].pipe = task[j].pipe
    BY <1>3, InstQuiet
  <2> QED
    BY <1>l, <2>1, <2>2, QuietEosInv
<1>4. ASSUME NEW i \in Inst, HandleOutput(i) PROVE EosInv'
  BY <1>4, OutputEosInv
<1>5. ASSUME NEW i \in Inst, HandleEOF(i) \/ HandleEOSSent(i) PROVE EosInv'
  BY <1>5, HandlerEosInv
<1>6. ASSUME NEW i \in Inst, KillCleanup(i) PROVE EosInv'
  BY <1>6, <1>l, KillCleanupOp, QuietEosInv
<1>7. ASSUME NEW r \in reports, TaskFinished(r) PROVE EosInv'
  BY <1>7, FinishedEosInv
<1>8. ASSUME NEW r \in reports, ReportLost(r) PROVE EosInv'
  <2>1. /\ reports' = reports \ {r} /\ task' = task /\ restart' = restart
        /\ runs' = runs /\ pushes' = pushes /\ source' = source
    BY <1>8, ReportLostOp DEF LeaderFrame
  <2> QED
    BY <1>l, <2>1, QuietEosInv
<1>9. ASSUME NEW k \in Keys, LoadDedupLog(k) PROVE EosInv'
  <2>1. /\ restart[k].pc = "load" /\ \A j \in Keys : j # k => restart'[j] = restart[j]
        /\ task' = task /\ reports' = reports
        /\ runs' = runs /\ pushes' = pushes /\ source' = source
    BY <1>9, LoadDedupLogOp DEF LeaderFrame
  <2> QED
    BY <1>l, <2>1, QuietEosInv
<1>10. ASSUME NEW k \in Keys, StartTask(k) PROVE EosInv'
  BY <1>10, StartEosInv
<1> QED
  BY <1>0, <1>1, <1>2, <1>3, <1>4, <1>5, <1>6, <1>7, <1>8, <1>9, <1>10
  DEF Next, InstStep, Finished

(* The order of tuples and EOSs, for every number of stages and tasks.     *)
LEMMA EOSsFollow == Spec => []EosInv
BY TypeCorrect, RunsFollow, InitEosInv, NextEosInv, PTL DEF Spec

(* As long as no message was lost, stdin is closed only when no data tuple *)
(* can still come, whatever was killed or restarted and whatever HyDFS     *)
(* call failed: no upstream task sends an EOS before its tuples are        *)
(* acknowledged, none sends two, and none is restarted after it did.       *)
THEOREM StdinClosedAfterData == Spec => []ClosedAfterData
BY TypeCorrect, RunsFollow, EOSsFollow, EosInvCloses, PTL

-----------------------------------------------------------------------------
(* Completion.                                                             *)

(* The tasks that the leader has nothing more to hear of: the latest       *)
(* process ended with all EOSs, and no report or restart is under way.     *)
Settled ==
  {k \in Keys : /\ task[Cur(k)].handler = "done" /\ IsSuccess(Cur(k))
                /\ restart[k].pc = "none" /\ \A r \in reports : KeyOf(r.inst) # k}
FinishedSettled == FinishedTasks <= Cardinality(Settled)
SuccessTrue ==
  /\ \A r \in reports : r.status = "Success" => IsSuccess(r.inst)
  /\ \A i \in Inst : task[i].handler = "eos" => IsSuccess(i)
CountedSent ==
  \A i \in Inst : task[i].EOSCount # 0 => \E m \in pushes : m.kind = "EOS" /\ m.dest = KeyOf(i)
LinesPushed ==
  /\ source.pc # "stream" => source.seq = NumLines
  /\ \A v \in 1 .. source.seq : \E m \in pushes :
       m.kind = "data" /\ m.org = Source /\ m.id = <<0, 0, v>> /\ m.dest = <<1, v % NumTasks>>

(* The leader counts at most one success of a task, and only when the      *)
(* task is settled.                                                        *)
DoneInv == FinishedSettled /\ SuccessTrue /\ CountedSent /\ LinesPushed

(* No push is ever forgotten.                                              *)
Kept ==
  \A m \in pushes : \E n \in pushes' :
    /\ n.org = m.org /\ n.kind = m.kind /\ n.dest = m.dest /\ n.id = m.id /\ n.val = m.val

(* No step forgets a push: acknowledged or not, it stays, with its origin, *)
(* destination, id and value.                                              *)
LEMMA StepKeeps ==
  ASSUME TypeOK, RunInv, [Next]_vars
  PROVE  Kept
<1>s. pushes \subseteq pushes' => Kept
  BY DEF Kept
<1>0. CASE UNCHANGED vars
  BY <1>0, <1>s DEF vars
<1>1. ASSUME NEW m \in pushes, PushStep(m) PROVE Kept
  <2>1. PICK p, q, n : Moved(m, p, q, n)
    BY <1>1, PushIsQuiet DEF PushQuiet
  <2> QED
    BY <2>1 DEF Moved, Kept
<1>2. CASE SourceLine \/ SourceEOS \/ SourceDone
  BY <1>2, <1>s DEF SourceLine, SourceEOS, SourceDone
<1>3. ASSUME NEW i \in Inst, InstStep(i) \/ Crash(i) \/ KillProcess(i) \/ KillCleanup(i) PROVE Kept
  BY <1>3, <1>s DEF InstStep, Operator, OperatorExit, ReplayLock, ReplayWrite, HandleOutput,
       HandleEOF, HandleEOSSent, Crash, KillProcess, KillCleanup
<1>4. ASSUME NEW r \in reports, TaskFinished(r) \/ ReportLost(r) PROVE Kept
  BY <1>4, <1>s DEF TaskFinished, ReportLost
<1>5. ASSUME NEW k \in Keys, LoadDedupLog(k) \/ StartTask(k) PROVE Kept
  BY <1>5, <1>s DEF LoadDedupLog, StartTask
<1> QED
  BY <1>0, <1>1, <1>2, <1>3, <1>4, <1>5 DEF Next, Finished

(* There are TotalTasks keys.                                              *)
LEMMA KeysFinite ==
  IsFiniteSet(Keys) /\ Cardinality(Keys) = TotalTasks /\ TotalTasks \in Nat
<1>1. IsFiniteSet(Stages) /\ Cardinality(Stages) = NumStages
  <2>1. IsFiniteSet(1 .. NumStages) /\ Cardinality(1 .. NumStages) = NumStages - 1 + 1
    BY StreamAssumption, FS_Interval
  <2> QED
    BY <2>1, StreamAssumption DEF Stages
<1>2. IsFiniteSet(Tasks) /\ Cardinality(Tasks) = NumTasks
  <2>1. NumTasks - 1 \in Int /\ 0 \in Int /\ 0 <= NumTasks - 1
    BY StreamAssumption
  <2>2. IsFiniteSet(0 .. NumTasks - 1)
        /\ Cardinality(0 .. NumTasks - 1) = (NumTasks - 1) - 0 + 1
    BY <2>1, FS_Interval
  <2> QED
    BY <2>2, StreamAssumption DEF Tasks
<1>3. IsFiniteSet(Stages \X Tasks) /\ Cardinality(Stages \X Tasks) = Cardinality(Stages) * Cardinality(Tasks)
  BY <1>1, <1>2, FS_Product
<1>4. NumStages * NumTasks \in Nat
  BY StreamAssumption
<1> QED
  BY <1>1, <1>2, <1>3, <1>4 DEF Keys, TotalTasks

(* As many settled keys as tasks are all the keys.                         *)
LEMMA SettledFinite ==
  /\ Settled \subseteq Keys /\ IsFiniteSet(Settled) /\ Cardinality(Settled) \in Nat
  /\ Cardinality(Settled) <= TotalTasks
  /\ Cardinality(Settled) = TotalTasks => Settled = Keys
<1>1. Settled \subseteq Keys
  BY DEF Settled
<1>2. IsFiniteSet(Settled)
  BY <1>1, KeysFinite, FS_Subset
<1> QED
  BY <1>1, <1>2, KeysFinite, FS_Subset, FS_CardinalityType

(* When the job is reported complete every task is settled and the source  *)
(* has read all lines.                                                     *)
LEMMA CompletedSettled ==
  ASSUME TypeOK, EosInv, DoneInv, Completed
  PROVE  Settled = Keys /\ source.pc # "stream" /\ source.seq = NumLines
<1>d. FinishedSettled /\ CountedSent /\ LinesPushed
  BY DEF DoneInv
<1>f. FinishedTasks \in Nat /\ TotalTasks \in Nat
  BY KeysFinite DEF TypeOK, LeaderOK
<1>1. Cardinality(Settled) = TotalTasks
  BY <1>d, <1>f, SettledFinite DEF FinishedSettled, Completed
<1>2. Settled = Keys
  BY <1>1, SettledFinite
<1>3. source.pc # "stream"
  <2> DEFINE k == <<1, 0>>
  <2>1. k \in Keys
    BY StreamAssumption DEF Keys, Stages, Tasks
  <2>2. Cur(k) \in Inst /\ KeyOf(Cur(k)) = k /\ Cur(k)[1] = 1
    BY <2>1, CurFacts
  <2>3. task[Cur(k)].EOSCount # 0
    <3>1. IsSuccess(Cur(k))
      BY <1>2, <2>1 DEF Settled
    <3>2. task[Cur(k)].EOSCount >= 1
      BY <2>2, <3>1 DEF IsSuccess, NumUpstream
    <3> QED
      BY <3>2
  <2>4. PICK m \in pushes : m.kind = "EOS" /\ m.dest = k
    BY <1>d, <2>2, <2>3 DEF CountedSent
  <2>5. m.org = Source
    <3>1. ASSUME m.org \in Inst PROVE FALSE
      <4>1. m.org[1] \in Stages /\ m.dest[1] = m.org[1] + 1 /\ m.dest[1] = 1
        BY <2>4, <3>1, InstFacts DEF EosInv, OriginsStarted
      <4> QED
        BY <4>1, StreamAssumption DEF Stages
    <3> QED
      BY <3>1, PushFacts
  <2> QED
    BY <2>4, <2>5 DEF EosInv, SourceOrder
<1> QED
  BY <1>2, <1>3, <1>d DEF LinesPushed

(* The invariant is strong enough.                                         *)
LEMMA DoneInvSound ==
  ASSUME TypeOK, RunInv, EosInv, WriteAhead, DoneInv
  PROVE  CompletionSound
<1>d. FinishedSettled /\ LinesPushed
  BY DEF DoneInv
<1>f. FinishedTasks \in Nat /\ TotalTasks \in Nat
  BY KeysFinite DEF TypeOK, LeaderOK
<1>1. FinishedTasks <= TotalTasks
  BY <1>d, <1>f, SettledFinite DEF FinishedSettled
<1>2. ASSUME Completed
      PROVE  /\ \A v \in Lines : \E t \in Tasks : <<0, 0, v>> \in IdsOf(dedup[<<1, t>>])
             /\ \A m \in pushes : m.kind = "EOS" \/ m.pc = "acked"
             /\ \A k \in Keys : task[<<k[1], k[2], runs[k]>>].handler = "done"
  <2>1. Settled = Keys
    BY <1>2, CompletedSettled
  <2>2. \A k \in Keys : task[Cur(k)].handler = "done" /\ IsSuccess(Cur(k))
    BY <2>1 DEF Settled
  <2>3. source.pc # "stream"
    BY <1>2, CompletedSettled
  <2>4. \A m \in pushes : m.kind = "EOS" \/ m.pc = "acked"
    <3> SUFFICES ASSUME NEW m \in pushes, m.kind = "data" PROVE m.pc = "acked"
      BY PushFacts
    <3>1. CASE m.org = Source
      BY <2>3, <3>1 DEF EosInv, SourceOrder
    <3>2. CASE m.org \in Inst
      <4>1. m.org[3] <= runs[KeyOf(m.org)] /\ KeyOf(m.org) \in Keys /\ m.org # Source
        BY <3>2, InstFacts DEF EosInv, OriginsStarted
      <4>2. task[m.org].handler = "done"
        <5>1. CASE m.org[3] < runs[KeyOf(m.org)]
          BY <3>2, <5>1 DEF RunInv, EarlierDone
        <5>2. CASE m.org[3] = runs[KeyOf(m.org)]
          BY <2>2, <3>2, <4>1, <5>2, CurFacts
        <5> QED
          BY <3>2, <4>1, <5>1, <5>2, RunTypes
      <4> QED
        BY <4>1, <4>2 DEF EosInv, DataBeforeEOS
    <3> QED
      BY <3>1, <3>2, PushFacts
  <2>5. ASSUME NEW v \in Lines PROVE \E t \in Tasks : <<0, 0, v>> \in IdsOf(dedup[<<1, t>>])
    <3>1. v \in 1 .. source.seq
      BY <1>d, <2>3 DEF LinesPushed, Lines
    <3>2. PICK m \in pushes : /\ m.kind = "data" /\ m.id = <<0, 0, v>>
                              /\ m.dest = <<1, v % NumTasks>>
      BY <1>d, <3>1 DEF LinesPushed
    <3>3. <<0, 0, v>> \in IdsOf(dedup[<<1, v % NumTasks>>])
      BY <2>4, <3>2 DEF WriteAhead, LoggedPushes
    <3>4. v % NumTasks \in Tasks
      BY StreamAssumption DEF Lines, Tasks
    <3> QED
      BY <3>3, <3>4
  <2> QED
    BY <2>2, <2>4, <2>5 DEF Cur
<1> QED
  BY <1>1, <1>2 DEF CompletionSound

(* A settled task stays settled.                                           *)
LEMMA SettledStays ==
  ASSUME TypeOK, TypeOK', RunInv, NEW k \in Settled, \A j \in Inst : Aged(j), runs'[k] = runs[k],
         restart'[k].pc = "none", \A r \in reports' : r \in reports \/ KeyOf(r.inst) # k
  PROVE  k \in Settled'
<1>1. /\ task[Cur(k)].handler = "done" /\ IsSuccess(Cur(k)) /\ k \in Keys
      /\ \A r \in reports : KeyOf(r.inst) # k
  BY DEF Settled
<1>2. Cur(k)' = Cur(k) /\ Cur(k) \in Inst
  BY <1>1, CurFacts DEF Cur
<1>3. IsSuccess(Cur(k))'
  <2>1. task[Cur(k)].EOSCount \in Nat /\ NumUpstream(Cur(k)) \in Nat
    BY <1>2, FieldTypes, StreamAssumption DEF TypeOK, NumUpstream
  <2>2. task'[Cur(k)].EOSCount \in Nat
    BY <1>2 DEF TypeOK, TaskOK, TaskRec
  <2>3. task[Cur(k)].EOSCount >= NumUpstream(Cur(k)) /\ task[Cur(k)].EOSCount <= task'[Cur(k)].EOSCount
    BY <1>1, <1>2 DEF IsSuccess, Aged
  <2>4. task'[Cur(k)].EOSCount >= NumUpstream(Cur(k))
    BY <2>1, <2>2, <2>3
  <2> QED
    BY <1>2, <2>4 DEF IsSuccess, NumUpstream
<1>4. task'[Cur(k)].handler = "done"
  BY <1>1, <1>2 DEF Aged
<1> QED
  BY <1>1, <1>2, <1>3, <1>4 DEF Settled

(* Success is not taken back.                                              *)
LEMMA SuccessStays ==
  ASSUME TypeOK, TypeOK', NEW i \in Inst, Aged(i), IsSuccess(i)
  PROVE  IsSuccess(i)'
<1>1. /\ task[i].EOSCount \in Nat /\ task'[i].EOSCount \in Nat /\ NumUpstream(i) \in Nat
      /\ NumUpstream(i)' = NumUpstream(i)
  BY StreamAssumption DEF TypeOK, TaskOK, TaskRec, NumUpstream
<1>2. task[i].EOSCount >= NumUpstream(i) /\ task[i].EOSCount <= task'[i].EOSCount
  BY DEF IsSuccess, Aged
<1>3. task'[i].EOSCount >= NumUpstream(i)
  BY <1>1, <1>2
<1> QED
  BY <1>1, <1>3 DEF IsSuccess

(* A step that counts nothing leaves the count covered.                    *)
LEMMA CountStays ==
  ASSUME FinishedSettled, Settled \subseteq Settled', FinishedTasks' = FinishedTasks, TypeOK
  PROVE  FinishedSettled'
<1>1. /\ IsFiniteSet(Settled') /\ Cardinality(Settled') \in Nat
      /\ Cardinality(Settled) \in Nat /\ FinishedTasks \in Nat
  <2>1. Settled' \subseteq Keys
    BY DEF Settled
  <2> QED
    BY <2>1, SettledFinite, KeysFinite, FS_Subset, FS_CardinalityType DEF TypeOK, LeaderOK
<1>2. Cardinality(Settled) <= Cardinality(Settled')
  BY <1>1, FS_Subset
<1>3. FinishedTasks <= Cardinality(Settled')
  BY <1>1, <1>2 DEF FinishedSettled
<1> QED
  BY <1>3 DEF FinishedSettled

(* TaskFinished of a success: the task becomes settled.                    *)
LEMMA CountSuccess ==
  ASSUME TypeOK, TypeOK', RunInv, DoneInv, NEW r \in reports, r.status = "Success",
         FinishedTasks' = FinishedTasks + 1, reports' = reports \ {r},
         task' = task, runs' = runs, restart' = restart
  PROVE  FinishedSettled'
<1> DEFINE k == KeyOf(r.inst)
<1>1. r.inst \in Inst /\ k \in Keys
  BY InstFacts DEF TypeOK, LeaderOK
<1>2. r.inst = Cur(k) /\ task[Cur(k)].handler = "done"
  BY <1>1, CurFacts DEF RunInv, ReportsCurrent
<1>3. IsSuccess(Cur(k)) /\ restart[k].pc = "none"
  BY <1>1, <1>2 DEF DoneInv, SuccessTrue, RunInv, RestartAfterDone
<1>4. \A q \in reports' : KeyOf(q.inst) # k
  <2> SUFFICES ASSUME NEW q \in reports, q # r, KeyOf(q.inst) = k PROVE FALSE
    OBVIOUS
  <2>1. q.inst \in Inst /\ q.inst[3] = runs[k]
    BY DEF TypeOK, LeaderOK, RunInv, ReportsCurrent
  <2>2. q.inst = r.inst
    BY <1>1, <1>2, <2>1, CurFacts
  <2> QED
    BY <2>2 DEF RunInv, ReportedOnce
<1>5. k \in Settled' /\ k \notin Settled
  BY <1>1, <1>2, <1>3, <1>4 DEF Settled, Cur, IsSuccess, NumUpstream
<1> HIDE DEF k
<1>6. Settled \subseteq Settled'
  BY DEF Settled, Cur, IsSuccess, NumUpstream
<1>7. Settled \cup {k} \subseteq Settled'
  BY <1>5, <1>6
<1>8. IsFiniteSet(Settled) /\ Cardinality(Settled) \in Nat /\ IsFiniteSet(Settled')
      /\ Cardinality(Settled') \in Nat
  <2>1. Settled' \subseteq Keys
    BY DEF Settled
  <2> QED
    BY <2>1, SettledFinite, KeysFinite, FS_Subset, FS_CardinalityType
<1>9. Cardinality(Settled \cup {k}) = Cardinality(Settled) + 1
  BY <1>5, <1>8, FS_AddElement
<1>10. Cardinality(Settled \cup {k}) <= Cardinality(Settled')
  BY <1>7, <1>8, FS_Subset
<1>11. FinishedTasks <= Cardinality(Settled) /\ FinishedTasks \in Nat
  BY DEF DoneInv, FinishedSettled, TypeOK, LeaderOK
<1>12. FinishedTasks + 1 <= Cardinality(Settled')
  BY <1>8, <1>9, <1>10, <1>11
<1> QED
  BY <1>12 DEF FinishedSettled

(* Every step keeps FinishedSettled.                                       *)
LEMMA NextFinishedSettled ==
  ASSUME TypeOK, TypeOK', RunInv, DoneInv, [Next]_vars
  PROVE  FinishedSettled'
<1>a. \A j \in Inst : Aged(j)
  BY NextRunInv
<1>d. FinishedSettled
  BY DEF DoneInv
<1>s. ASSUME runs' = runs, restart' = restart, reports' \subseteq reports,
             FinishedTasks' = FinishedTasks
      PROVE  FinishedSettled'
  <2>1. Settled \subseteq Settled'
    BY <1>a, <1>s, SettledStays DEF Settled
  <2> QED
    BY <1>d, <1>s, <2>1, CountStays
<1>0. CASE UNCHANGED vars
  BY <1>0, <1>s DEF vars, nodeVars, leaderVars
<1>1. ASSUME NEW m \in pushes, PushStep(m) PROVE FinishedSettled'
  BY <1>1, <1>s, PushIsQuiet DEF PushQuiet, PushFrame
<1>2. CASE SourceLine \/ SourceEOS \/ SourceDone
  BY <1>2, <1>s, SourceLineOp, SourceEOSOp, SourceDoneOp DEF SourceFrame
<1>3. ASSUME NEW i \in Inst,
             \/ Operator(i) \/ OperatorExit(i) \/ ReplayLock(i) \/ ReplayWrite(i)
             \/ HandleOutput(i) \/ Crash(i) \/ KillProcess(i)
      PROVE  FinishedSettled'
  BY <1>3, <1>s, InstQuiet
<1>4. ASSUME NEW i \in Inst, HandleEOF(i) \/ HandleEOSSent(i) PROVE FinishedSettled'
  <2>1. /\ runs' = runs /\ restart' = restart /\ FinishedTasks' = FinishedTasks
        /\ i = Cur(KeyOf(i)) /\ task[i].handler # "done"
    BY <1>4, HandlerStep, HandleEOFOp, HandleEOSSentOp
  <2>2. \A r \in reports' : r \in reports \/ r.inst = i
    BY <1>4, HandleEOFOp, HandleEOSSentOp
  <2>3. Settled \subseteq Settled'
    <3> SUFFICES ASSUME NEW k \in Settled PROVE k \in Settled'
      OBVIOUS
    <3>1. k # KeyOf(i) /\ restart[k].pc = "none"
      BY <2>1 DEF Settled
    <3> QED
      BY <1>a, <2>1, <2>2, <3>1, SettledStays
  <2> QED
    BY <1>d, <2>1, <2>3, CountStays
<1>5. ASSUME NEW i \in Inst, KillCleanup(i) PROVE FinishedSettled'
  BY <1>5, <1>s, KillCleanupOp
<1>6. ASSUME NEW r \in reports, TaskFinished(r) PROVE FinishedSettled'
  <2>h. /\ reports' = reports \ {r} /\ r.inst \in Inst
        /\ task' = task /\ runs' = runs
        /\ \/ /\ r.status = "Success" /\ FinishedTasks' = FinishedTasks + 1
              /\ restart' = restart
           \/ /\ r.status = "Failure" /\ FinishedTasks' = FinishedTasks
              /\ \A k \in Keys : k # KeyOf(r.inst) => restart'[k] = restart[k]
    BY <1>6, TaskFinishedOp DEF LeaderFrame
  <2>1. CASE r.status = "Success"
    BY <2>1, <2>h, CountSuccess
  <2>2. CASE r.status = "Failure"
    <3>1. Settled \subseteq Settled'
      <4> SUFFICES ASSUME NEW k \in Settled PROVE k \in Settled'
        OBVIOUS
      <4>1. k # KeyOf(r.inst) /\ restart[k].pc = "none" /\ k \in Keys
        BY DEF Settled
      <4> QED
        BY <1>a, <2>2, <2>h, <4>1, SettledStays
    <3> QED
      BY <1>d, <2>2, <2>h, <3>1, CountStays
  <2> QED
    BY <2>1, <2>2, <2>h
<1>7. ASSUME NEW r \in reports, ReportLost(r) PROVE FinishedSettled'
  BY <1>7, <1>s, ReportLostOp DEF LeaderFrame
<1>8. ASSUME NEW k \in Keys, LoadDedupLog(k) \/ StartTask(k) PROVE FinishedSettled'
  <2>1. /\ restart[k].pc # "none" /\ reports' = reports /\ FinishedTasks' = FinishedTasks
        /\ \A j \in Keys : j # k => restart'[j] = restart[j] /\ runs'[j] = runs[j]
    BY <1>8, LoadDedupLogOp, StartTaskOp
  <2>2. Settled \subseteq Settled'
    <3> SUFFICES ASSUME NEW j \in Settled PROVE j \in Settled'
      OBVIOUS
    <3>1. j # k /\ restart[j].pc = "none" /\ j \in Keys
      BY <2>1 DEF Settled
    <3> QED
      BY <1>a, <2>1, <3>1, SettledStays
  <2> QED
    BY <1>d, <2>1, <2>2, CountStays
<1> QED
  BY <1>0, <1>1, <1>2, <1>3, <1>4, <1>5, <1>6, <1>7, <1>8 DEF Next, InstStep, Finished

(* Every step keeps SuccessTrue.                                           *)
LEMMA NextSuccessTrue ==
  ASSUME TypeOK, TypeOK', RunInv, DoneInv, [Next]_vars
  PROVE  SuccessTrue'
<1>a. \A j \in Inst : Aged(j)
  BY NextRunInv
<1>d. SuccessTrue
  BY DEF DoneInv
<1>t. \A r \in reports : r.inst \in Inst
  BY DEF TypeOK, LeaderOK
<1>s. ASSUME \A j \in Inst : task'[j].handler = "eos" => task[j].handler = "eos" \/ IsSuccess(j),
             \A r \in reports' : r \in reports \/ (r.status = "Success" => r.inst \in Inst /\ IsSuccess(r.inst))
      PROVE  SuccessTrue'
  BY <1>a, <1>d, <1>s, <1>t, SuccessStays DEF SuccessTrue
<1>0. CASE UNCHANGED vars
  BY <1>0, <1>s DEF vars, leaderVars
<1>1. ASSUME NEW m \in pushes, PushStep(m) PROVE SuccessTrue'
  BY <1>1, <1>s, PushIsQuiet DEF PushQuiet, PushFrame
<1>2. CASE SourceLine \/ SourceEOS \/ SourceDone
  BY <1>2, <1>s, SourceLineOp, SourceEOSOp, SourceDoneOp DEF SourceFrame
<1>3. ASSUME NEW i \in Inst,
             \/ Operator(i) \/ OperatorExit(i) \/ ReplayLock(i) \/ ReplayWrite(i)
             \/ HandleOutput(i) \/ Crash(i) \/ KillProcess(i)
      PROVE  SuccessTrue'
  BY <1>3, <1>s, InstQuiet
<1>4. ASSUME NEW i \in Inst, HandleEOF(i) PROVE SuccessTrue'
  <2>1. \A r \in reports' : r \in reports \/ (r.inst = i /\ (r.status = "Success" => IsSuccess(i)))
    BY <1>4, HandleEOFOp
  <2>2. \A j \in Inst : task'[j].handler = "eos" => task[j].handler = "eos" \/ IsSuccess(j)
    BY <1>4, HandleEOFOp DEF TaskBecomes
  <2> QED
    BY <1>s, <2>1, <2>2
<1>5. ASSUME NEW i \in Inst, HandleEOSSent(i) PROVE SuccessTrue'
  <2>1. IsSuccess(i)
    BY <1>5, <1>d, HandleEOSSentOp DEF SuccessTrue
  <2>2. \A r \in reports' : r \in reports \/ r.inst = i
    BY <1>5, HandleEOSSentOp
  <2>3. \A j \in Inst : task'[j].handler = "eos" => task[j].handler = "eos"
    BY <1>5, HandleEOSSentOp DEF TaskBecomes
  <2> QED
    BY <1>s, <2>1, <2>2, <2>3
<1>6. ASSUME NEW i \in Inst, KillCleanup(i) PROVE SuccessTrue'
  BY <1>6, <1>s, KillCleanupOp
<1>7. ASSUME NEW r \in reports, TaskFinished(r) \/ ReportLost(r) PROVE SuccessTrue'
  <2>1. task' = task /\ reports' \subseteq reports
    BY <1>7, TaskFinishedOp, ReportLostOp
  <2> QED
    BY <1>s, <2>1
<1>8. ASSUME NEW k \in Keys, LoadDedupLog(k) PROVE SuccessTrue'
  BY <1>8, <1>s, LoadDedupLogOp
<1>9. ASSUME NEW k \in Keys, StartTask(k) PROVE SuccessTrue'
  <2>1. reports' = reports /\ \A j \in Inst : task'[j] = task[j] \/ task'[j].handler = "scan"
    BY <1>9, StartTaskOp DEF TaskBecomes
  <2> QED
    BY <1>s, <2>1
<1> QED
  BY <1>0, <1>1, <1>2, <1>3, <1>4, <1>5, <1>6, <1>7, <1>8, <1>9 DEF Next, InstStep, Finished

(* Every step keeps CountedSent.                                           *)
LEMMA NextCountedSent ==
  ASSUME TypeOK, TypeOK', RunInv, DoneInv, [Next]_vars
  PROVE  CountedSent'
<1>d. CountedSent
  BY DEF DoneInv
<1>k. Kept
  BY StepKeeps
<1>s. ASSUME \A j \in Inst : task'[j].EOSCount # 0 =>
               task[j].EOSCount # 0 \/ \E m \in pushes : m.kind = "EOS" /\ m.dest = KeyOf(j)
      PROVE  CountedSent'
  <2> SUFFICES ASSUME NEW j \in Inst, task'[j].EOSCount # 0
               PROVE  \E m \in pushes' : m.kind = "EOS" /\ m.dest = KeyOf(j)
    BY DEF CountedSent
  <2>1. PICK m \in pushes : m.kind = "EOS" /\ m.dest = KeyOf(j)
    BY <1>d, <1>s DEF CountedSent
  <2> QED
    BY <1>k, <2>1 DEF Kept
<1>0. CASE UNCHANGED vars
  BY <1>0, <1>s DEF vars
<1>1. ASSUME NEW m \in pushes, PushStep(m) PROVE CountedSent'
  <2>1. CASE PushEOS(m)
    <3>1. m.kind = "EOS" /\ KeyOf(Target(m)) = m.dest /\ Target(m) \in Inst
      BY <2>1, PushEOSOp, PushFacts
    <3>2. \A j \in Inst : j # Target(m) => task'[j] = task[j]
      BY <2>1, PushEOSOp DEF TaskBecomes
    <3> QED
      BY <1>s, <3>1, <3>2
  <2>2. CASE ~PushEOS(m)
    BY <1>1, <1>s, <2>2, PushNoEOS
  <2> QED
    BY <2>1, <2>2
<1>2. CASE SourceLine \/ SourceEOS \/ SourceDone
  BY <1>2, <1>s, SourceLineOp, SourceEOSOp, SourceDoneOp DEF SourceFrame
<1>3. ASSUME NEW i \in Inst,
             \/ Operator(i) \/ OperatorExit(i) \/ ReplayLock(i) \/ ReplayWrite(i)
             \/ HandleOutput(i) \/ Crash(i) \/ KillProcess(i)
      PROVE  CountedSent'
  BY <1>3, <1>s, InstQuiet
<1>4. ASSUME NEW i \in Inst, HandleEOF(i) \/ HandleEOSSent(i) PROVE CountedSent'
  BY <1>4, <1>s, HandlerStep
<1>6. ASSUME NEW i \in Inst, KillCleanup(i) PROVE CountedSent'
  BY <1>6, <1>s, KillCleanupOp
<1>7. ASSUME NEW r \in reports, TaskFinished(r) \/ ReportLost(r) PROVE CountedSent'
  <2>1. task' = task
    BY <1>7, TaskFinishedOp, ReportLostOp
  <2> QED
    BY <1>s, <2>1
<1>8. ASSUME NEW k \in Keys, LoadDedupLog(k) PROVE CountedSent'
  BY <1>8, <1>s, LoadDedupLogOp
<1>9. ASSUME NEW k \in Keys, StartTask(k) PROVE CountedSent'
  <2>1. \A j \in Inst : task'[j] = task[j] \/ task'[j].EOSCount = 0
    BY <1>9, StartTaskOp DEF TaskBecomes
  <2> QED
    BY <1>s, <2>1
<1> QED
  BY <1>0, <1>1, <1>2, <1>3, <1>4, <1>6, <1>7, <1>8, <1>9 DEF Next, InstStep, Finished

(* Who moves the source.                                                   *)
LEMMA SourceStays ==
  ASSUME TypeOK, RunInv, [Next]_vars, ~SourceLine, ~SourceEOS, ~SourceDone
  PROVE  source' = source
<1>1. ASSUME NEW m \in pushes, PushStep(m) PROVE source' = source
  BY <1>1, PushIsQuiet DEF PushQuiet, PushFrame
<1>2. ASSUME NEW i \in Inst, InstStep(i) \/ Crash(i) \/ KillProcess(i) \/ KillCleanup(i)
      PROVE  source' = source
  BY <1>2 DEF InstStep, Operator, OperatorExit, ReplayLock, ReplayWrite, HandleOutput,
       HandleEOF, HandleEOSSent, Crash, KillProcess, KillCleanup
<1>3. ASSUME NEW r \in reports, TaskFinished(r) \/ ReportLost(r) PROVE source' = source
  BY <1>3 DEF TaskFinished, ReportLost
<1>4. ASSUME NEW k \in Keys, LoadDedupLog(k) \/ StartTask(k) PROVE source' = source
  BY <1>4 DEF LoadDedupLog, StartTask
<1> QED
  BY <1>1, <1>2, <1>3, <1>4 DEF Next, Finished, vars

(* Every step keeps LinesPushed.                                           *)
LEMMA NextLinesPushed ==
  ASSUME TypeOK, TypeOK', RunInv, DoneInv, [Next]_vars
  PROVE  LinesPushed'
<1>d. LinesPushed
  BY DEF DoneInv
<1>k. Kept
  BY StepKeeps
<1>s. ASSUME source'.seq = source.seq,
             source'.pc # "stream" => source.pc # "stream" \/ source.seq = NumLines
      PROVE  LinesPushed'
  <2>1. ASSUME NEW v \in 1 .. source.seq
        PROVE  \E m \in pushes' : /\ m.kind = "data" /\ m.org = Source /\ m.id = <<0, 0, v>>
                                  /\ m.dest = <<1, v % NumTasks>>
    <3>1. PICK m \in pushes : /\ m.kind = "data" /\ m.org = Source /\ m.id = <<0, 0, v>>
                              /\ m.dest = <<1, v % NumTasks>>
      BY <1>d DEF LinesPushed
    <3> QED
      BY <1>k, <3>1 DEF Kept
  <2> QED
    BY <1>d, <1>s, <2>1 DEF LinesPushed
<1>1. CASE SourceLine
  <2>1. /\ source'.seq = source.seq + 1 /\ source'.pc = "stream" /\ source.seq \in Nat
        /\ pushes \subseteq pushes'
    BY <1>1, SourceLineOp DEF TypeOK, SourceOK
  <2>2. \E m \in pushes' : /\ m.kind = "data" /\ m.org = Source
                           /\ m.id = <<0, 0, source.seq + 1>>
                           /\ m.dest = <<1, (source.seq + 1) % NumTasks>>
    BY <1>1, SourceLineOp DEF Created
  <2>3. \A v \in 1 .. source.seq + 1 : v \in 1 .. source.seq \/ v = source.seq + 1
    BY <2>1
  <2>4. \A v \in 1 .. source.seq + 1 : \E m \in pushes' :
          m.kind = "data" /\ m.org = Source /\ m.id = <<0, 0, v>> /\ m.dest = <<1, v % NumTasks>>
    BY <1>d, <2>1, <2>2, <2>3 DEF LinesPushed
  <2> QED
    BY <2>1, <2>4 DEF LinesPushed
<1>2. CASE SourceEOS
  BY <1>2, <1>s, SourceEOSOp
<1>3. CASE SourceDone
  BY <1>3, <1>s, SourceDoneOp
<1>4. CASE source' = source
  BY <1>4, <1>s
<1> QED
  BY <1>1, <1>2, <1>3, <1>4, SourceStays

(* DoneInv holds initially.                                                *)
LEMMA InitDoneInv == Init => DoneInv
<1> SUFFICES ASSUME Init PROVE DoneInv
  OBVIOUS
<1>1. \A i \in Inst : task[i].handler = "scan" /\ task[i].EOSCount = 0
  BY NoTaskFields DEF Init, AllStarted, NewTask
<1>2. SuccessTrue /\ CountedSent
  BY <1>1 DEF Init, SuccessTrue, CountedSent
<1>3. LinesPushed
  BY DEF Init, LinesPushed
<1>4. FinishedSettled
  BY SettledFinite DEF Init, FinishedSettled
<1> QED
  BY <1>2, <1>3, <1>4 DEF DoneInv

(* DoneInv is an invariant.                                                *)
LEMMA CompletionsFollow == Spec => []DoneInv
<1>1. TypeOK /\ TypeOK' /\ RunInv /\ DoneInv /\ [Next]_vars => DoneInv'
  BY NextFinishedSettled, NextSuccessTrue, NextCountedSent, NextLinesPushed DEF DoneInv
<1> QED
  BY <1>1, TypeCorrect, RunsFollow, InitDoneInv, PTL DEF Spec

(* The leader counts every task at most once, also when tasks are killed   *)
(* and restarted; and when it announces the completion of the job every    *)
(* line of the source is logged by stage 1, no tuple is in flight and the  *)
(* latest process of every task has reported.                              *)
THEOREM CompletionIsSound == Spec => []CompletionSound
<1>1. Spec => []WriteAhead
  BY TypeCorrect, InitWriteAhead, NextWriteAhead, PTL DEF Spec
<1>2. TypeOK /\ RunInv /\ EosInv /\ WriteAhead /\ DoneInv => CompletionSound
  BY DoneInvSound
<1> QED
  BY <1>1, <1>2, TypeCorrect, RunsFollow, EOSsFollow, CompletionsFollow, PTL
=============================================================================
