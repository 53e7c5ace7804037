------------------------------- MODULE MCHyDFS ------------------------------
(* Instances of HyDFS for TLC.                                             *)
EXTENDS HyDFS

MCWrites == {"append", "merge"}
MCReads == {"append", "merge", "get"}
MCCreates == {"create", "append", "get"}
=============================================================================
