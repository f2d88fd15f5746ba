--------------------------- MODULE MCManagedAccess ---------------------------
(* Instances of ManagedAccess for TLC.                                      *)
EXTENDS ManagedAccess
==============================================================================
