--------------------------- MODULE MCMembership -----------------------------
(* Instances of Membership for TLC.                                        *)
EXTENDS Membership

MCPingSuspect == {<<"ping", "suspect">>}
MCGossipSuspect == {<<"gossip", "suspect">>}
=============================================================================
