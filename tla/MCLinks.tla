------------------------------- MODULE MCLinks -------------------------------
(* Instances of Links and GatewaySessions for TLC.                          *)
EXTENDS Links

CONSTANTS s1

\* A Link that the dialer's agent observes, with and without a session.
EachDeployment == [imports : {{}}, linked : {TRUE}, sessions : {{s1}, {}}]
==============================================================================
