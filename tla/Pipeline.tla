------------------------------ MODULE Pipeline ------------------------------
(***************************************************************************)
(* What a RainStorm job promises to its user, without tasks, messages and  *)
(* logs: lines are read in order, each line that passes all operators is   *)
(* written to the output file once, in any order but never before it was   *)
(* read, and the job is over when all of them are written.                 *)
(***************************************************************************)
EXTENDS Naturals, Sequences

CONSTANTS
  NumLines,   \* lines of the source file
  Expected    \* the lines that pass all operators

VARIABLES
  read,       \* lines read so far
  out,        \* the output file
  done        \* the completion was announced

vars == <<read, out, done>>

Written == {out[n] : n \in 1 .. Len(out)}

Init == read = 0 /\ out = <<>> /\ done = FALSE

Read ==
  /\ read < NumLines
  /\ read' = read + 1
  /\ UNCHANGED <<out, done>>

Write(v) ==
  /\ v <= read /\ v \notin Written /\ ~done
  /\ out' = Append(out, v)
  /\ UNCHANGED <<read, done>>

Complete ==
  /\ read = NumLines /\ Written = Expected /\ ~done
  /\ done' = TRUE
  /\ UNCHANGED <<read, out>>

Next == Read \/ (\E v \in Expected : Write(v)) \/ Complete

(* Reading, writing and completing go on as long as they can.              *)
FairSpec == Init /\ [][Next]_vars /\ WF_vars(Next)
=============================================================================
