------------------------------- MODULE MCRing -------------------------------
(* Eight ids on a ring of sixteen positions; id 8 is the leader, and ids 1 *)
(* and 7 belong to one machine that left and joined again.                 *)
EXTENDS Ring

MCIDs == 1 .. 8
MCHash == <<7, 2, 15, 0, 8, 12, 3, 5>>
MCAddress == <<"vm2", "vm3", "vm4", "vm5", "vm6", "vm7", "vm2", "vm1">>
=============================================================================
