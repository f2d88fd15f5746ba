------------------------------ MODULE MCPeering ------------------------------
(* Instances of Peering for TLC.                                            *)
EXTENDS Peering
==============================================================================
