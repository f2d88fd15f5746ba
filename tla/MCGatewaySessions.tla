-------------------------- MODULE MCGatewaySessions --------------------------
(* Instances of GatewaySessions for TLC.                                    *)
EXTENDS GatewaySessions

CONSTANTS s1, s2

\* Import routes on one side, with sessions that overlap; import routes on both
\* sides; import routes next to the probes of the dialer's agent.
EachDeployment ==
    [imports : {{s} : s \in Sides}, linked : {FALSE}, sessions : {{s1, s2}}]
        \cup [imports : {Sides}, linked : {FALSE}, sessions : {{s1}}]
        \cup [imports : {{s} : s \in Sides}, linked : {TRUE}, sessions : {{s1}}]
==============================================================================
