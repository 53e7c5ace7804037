----------------------------- MODULE MCAutoscale ----------------------------
(* Instances of Autoscale for TLC.                                         *)
EXTENDS Autoscale

MCHash == [v \in Lines |-> v]

MCRates2 == [s \in Stages |-> IF s = 2 THEN {0, 1} ELSE {}]
MCRates1 == [s \in Stages |-> IF s = 1 THEN {0, 1} ELSE {}]
MCRates == [s \in Stages |-> {0, 1}]

(* Calls are lost and pushes given up while the job grows, which takes one *)
(* report; the shrinking, which takes another, is explored without either. *)
MCLossesWhileGrowing ==
  losses + unanswered > 0 => downs = 0 /\ reported <= 1
=============================================================================
