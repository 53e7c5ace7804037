------------------------------ MODULE MCStream ------------------------------
(***************************************************************************)
(* Instances of Stream for TLC.                                            *)
(***************************************************************************)
EXTENDS Stream

(* The key of a line hashes to the line number: consecutive lines go to    *)
(* different tasks of the next stage.                                      *)
MCHash == [v \in 1 .. NumLines |-> v]

(* Every operator passes every line (op0_identity), or the first stage     *)
(* filters line 1 out (op1_filter).                                        *)
MCIdentity == (1 .. NumStages) \X (1 .. NumLines)
MCFilter == MCIdentity \ {<<1, 1>>}

MCAllStages == 1 .. NumStages
=============================================================================
