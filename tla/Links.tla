--------------------------------- MODULE Links ---------------------------------
(***************************************************************************)
(* How a Link comes to say whether two peers are connected:                *)
(*                                                                         *)
(*  - the dialer's agent probes the listener and asks its own gateway      *)
(*    whether a session is registered (observeLink, /readyz), and sends    *)
(*    the result to the Hub, every 15 seconds (cmd/agent/main.go);         *)
(*  - ObserveLink reads the Link and its Peer and writes the result, with  *)
(*    the time (sovereign_store.go);                                       *)
(*  - reconcileLinks lists the Links and writes Blocked for one without    *)
(*    gateways, Disconnected for one that was not observed for 45 seconds, *)
(*    and Connecting for one that was never observed                       *)
(*    (sovereign_reconciler.go).                                           *)
(*                                                                         *)
(* The sessions observed are those of GatewaySessions, which this module   *)
(* extends. The message's way through the control channel is modelled in   *)
(* ControlChannel. Time is relative: an observation is recent or old. A    *)
(* reader's `fresh` says that nobody has written the Link since it was     *)
(* read; a write that changes nothing does not count as one.               *)
(***************************************************************************)
EXTENDS GatewaySessions

CONSTANTS
    MaxEdits    \* bound: changes of the Link and its Peer, stops of the agent

ASSUME EditsAssumption == MaxEdits \in Nat

VARIABLES
    link,           \* the status of the Link, and whether it names a gateway
    member,         \* the Link refers to a Peer of which the agent is a member
    agentUp,        \* the agent runs
    observation,    \* the agent's round, and ObserveLink at work on its message
    reconciler,     \* reconcileLinks: the status it is about to write
    edits

linkVars == <<link, member, agentUp, observation, reconciler, edits>>
vars == <<sessionVars, linkVars>>

NoObservation == [pc |-> "idle", ready |-> FALSE, reason |-> "", fresh |-> FALSE]
IdleReconciler == [pc |-> "idle", state |-> "none", reason |-> "", fresh |-> FALSE]

Init ==
    /\ SessionInit
    /\ link \in [state : {"none"}, reason : {""}, observed : {"never"},
                 gateways : IF deployment.linked THEN BOOLEAN ELSE {TRUE}]
    /\ member = TRUE
    /\ agentUp = TRUE
    /\ observation = NoObservation
    /\ reconciler = IdleReconciler
    /\ edits = 0

\* Store `new` as the Link: what was read before is stale if it differs.
Touch(reader, new) == [reader EXCEPT !.fresh = @ /\ new = link]

------------------------------------------------------------------------------
(* The world around the Hub.                                               *)

\* 45 seconds have passed since the last observation.
Ages ==
    /\ link.observed = "recent"
    /\ link' = [link EXCEPT !.observed = "old"]
    /\ UNCHANGED <<sessionVars, member, agentUp, observation, reconciler, edits>>

Edit ==
    /\ deployment.linked
    /\ edits < MaxEdits
    /\ edits' = edits + 1
    /\ UNCHANGED sessionVars

\* The administrator sets or removes the gateways of the Link.
EditGateways ==
    /\ Edit
    /\ LET new == [link EXCEPT !.gateways = ~@] IN
         /\ link' = new
         /\ observation' = Touch(observation, new)
         /\ reconciler' = Touch(reconciler, new)
    /\ UNCHANGED <<member, agentUp>>

\* The Peer is given other members, or the Link another Peer: both are read
\* for every observation.
EditMembers ==
    /\ Edit
    /\ member' = ~member
    /\ UNCHANGED <<link, agentUp, observation, reconciler>>

\* The agent is stopped, with what it was about to send, or started.
AgentChanges ==
    /\ Edit
    /\ agentUp' = ~agentUp
    /\ observation' = IF observation.pc = "probed" THEN NoObservation ELSE observation
    /\ UNCHANGED <<link, member, reconciler>>

------------------------------------------------------------------------------
(* The agent: observeLink.                                                 *)

Observing == deployment.linked /\ agentUp /\ observation.pc = "idle"

\* The probe's handshake succeeds.
Probe(c) ==
    /\ Observing
    /\ ProbeDial(c)
    /\ observation' = [NoObservation EXCEPT !.pc = "probed"]
    /\ UNCHANGED <<link, member, agentUp, reconciler, edits>>

\* The probe fails, and the session is not asked for.
ProbeFails ==
    /\ Observing
    /\ IF up THEN CallFails ELSE UNCHANGED sessionVars
    /\ observation' = [NoObservation EXCEPT !.pc = "sent", !.reason = "TransportError"]
    /\ UNCHANGED <<link, member, agentUp, reconciler, edits>>

\* Defect variant: a probe that succeeds is enough.
CheckSessionProbeOnly ==
    /\ observation.pc = "probed"
    /\ observation' = [observation EXCEPT !.pc = "sent", !.ready = TRUE]
    /\ UNCHANGED <<sessionVars, link, member, agentUp, reconciler, edits>>

\* Defect variant: the gateway is asked for the PeerRef instead of the identity.
CheckSessionByPeerRef ==
    /\ observation.pc = "probed"
    /\ observation' = [observation EXCEPT !.pc = "sent", !.ready = FALSE,
                                          !.reason = "PersistentSessionUnavailable"]
    /\ UNCHANGED <<sessionVars, link, member, agentUp, reconciler, edits>>

\* /readyz of the agent's own gateway: is a session registered?
CheckSession ==
    /\ observation.pc = "probed"
    /\ LET session_ready == registry["dialer"] # <<>> IN
         observation' = [observation EXCEPT
                           !.pc = "sent", !.ready = session_ready,
                           !.reason = IF session_ready THEN "" ELSE "PersistentSessionUnavailable"]
    /\ UNCHANGED <<sessionVars, link, member, agentUp, reconciler, edits>>

------------------------------------------------------------------------------
(* The Hub: ObserveLink.                                                   *)

\* Link and Peer are read; an agent that is no member is refused (403).
ObserveGet ==
    /\ observation.pc = "sent"
    /\ observation' = IF member THEN [observation EXCEPT !.pc = "update", !.fresh = TRUE]
                      ELSE NoObservation
    /\ UNCHANGED <<sessionVars, link, member, agentUp, reconciler, edits>>

\* UpdateStatus; a conflict is refused, and the agent observes again. The time
\* is part of what is written, so a reconciler's reading is stale in any case.
ObserveUpdate ==
    /\ observation.pc = "update"
    /\ LET new == [link EXCEPT !.state = IF observation.ready THEN "Ready" ELSE "Disconnected",
                               !.reason = observation.reason, !.observed = "recent"] IN
         IF observation.fresh
         THEN link' = new /\ reconciler' = [reconciler EXCEPT !.fresh = FALSE]
         ELSE UNCHANGED <<link, reconciler>>
    /\ observation' = NoObservation
    /\ UNCHANGED <<sessionVars, member, agentUp, edits>>

\* The message is lost, or a call fails, or the replica stops.
ObserveFails ==
    /\ observation.pc \in {"sent", "update"}
    /\ CallFails
    /\ observation' = NoObservation
    /\ UNCHANGED <<link, member, agentUp, reconciler, edits>>

------------------------------------------------------------------------------
(* The Hub: reconcileLinks.                                                *)

\* Defect variant: a Link that was never observed has no state.
LinkStatusNoDefault ==
    CASE ~link.gateways -> [state |-> "Blocked", reason |-> "NATUnreachable"]
      [] link.gateways /\ link.observed = "old" ->
            [state |-> "Disconnected", reason |-> "ObservationStale"]
      [] OTHER -> [state |-> "", reason |-> ""]

\* The status that follows from the Link just listed. One that was observed
\* within 45 seconds is left alone.
LinkStatus ==
    CASE ~link.gateways -> [state |-> "Blocked", reason |-> "NATUnreachable"]
      [] link.gateways /\ link.observed = "old" ->
            [state |-> "Disconnected", reason |-> "ObservationStale"]
      [] OTHER -> [state |-> "Connecting", reason |-> ""]

ReconcileList ==
    /\ deployment.linked
    /\ reconciler.pc = "idle"
    /\ link.gateways => link.observed # "recent"
    /\ reconciler' = [pc |-> "update", state |-> LinkStatus.state, reason |-> LinkStatus.reason,
                      fresh |-> TRUE]
    /\ UNCHANGED <<sessionVars, link, member, agentUp, observation, edits>>

\* Defect variant: the status is written whatever happened to the Link.
ReconcileUpdateBlind ==
    /\ reconciler.pc = "update"
    /\ LET new == [link EXCEPT !.state = reconciler.state, !.reason = reconciler.reason] IN
         link' = new /\ observation' = Touch(observation, new)
    /\ reconciler' = IdleReconciler
    /\ UNCHANGED <<sessionVars, member, agentUp, edits>>

\* UpdateStatus; a conflict or another failure is ignored.
ReconcileUpdate ==
    /\ reconciler.pc = "update"
    /\ LET new == [link EXCEPT !.state = reconciler.state, !.reason = reconciler.reason] IN
         IF reconciler.fresh
         THEN link' = new /\ observation' = Touch(observation, new)
         ELSE UNCHANGED <<link, observation>>
    /\ reconciler' = IdleReconciler
    /\ UNCHANGED <<sessionVars, member, agentUp, edits>>

Next ==
    \/ SessionStep /\ UNCHANGED linkVars
    \/ Ages \/ EditGateways \/ EditMembers \/ AgentChanges
    \/ \E c \in Conns : Probe(c)
    \/ ProbeFails \/ CheckSession
    \/ ObserveGet \/ ObserveUpdate \/ ObserveFails
    \/ ReconcileList \/ ReconcileUpdate

Spec == Init /\ [][Next]_vars

\* While the agent runs and sessions come again and again, it also asks for one
\* while it is registered: a session lasts for a quarter of an hour, and the
\* agent asks every 15 seconds.
AgentMeetsSession ==
    []<>(registry["dialer"] # <<>>) /\ <>[]agentUp
        => []<><<CheckSession /\ registry["dialer"] # <<>> >>_vars

\* The 15-second loops of the agent and of the reconciler go on, requests are
\* served, and time passes. ObserveLink writes milliseconds after it reads: the
\* reconciler, which writes once in 15 seconds, is not between the two always.
FairSpec ==
    /\ Spec
    /\ SessionFairness
    /\ WF_vars(Ages)
    /\ WF_vars((\E c \in Conns : Probe(c)) \/ ProbeFails \/ CheckSession)
    /\ WF_vars(ObserveGet \/ ObserveUpdate)
    /\ WF_vars(ReconcileList \/ ReconcileUpdate)
    /\ AgentMeetsSession
    /\ SF_vars(ObserveUpdate /\ observation.ready /\ observation.fresh)

------------------------------------------------------------------------------
(* Properties.                                                             *)

LinkStates == {"none", "Connecting", "Blocked", "Ready", "Disconnected"}
AgentReasons == {"", "TransportError", "PersistentSessionUnavailable"}
Reasons == AgentReasons \cup {"NATUnreachable", "ObservationStale"}

\* Every variable keeps its shape, and the bounds are kept.
TypeOK ==
    /\ SessionTypeOK
    /\ link \in [state : LinkStates, reason : Reasons,
                 observed : {"never", "recent", "old"}, gateways : BOOLEAN]
    /\ member \in BOOLEAN
    /\ agentUp \in BOOLEAN
    /\ observation \in [pc : {"idle", "probed", "sent", "update"}, ready : BOOLEAN,
                         reason : AgentReasons, fresh : BOOLEAN]
    /\ reconciler \in [pc : {"idle", "update"}, state : LinkStates, reason : Reasons,
                       fresh : BOOLEAN]
    /\ edits \in 0..MaxEdits

\* What a Link shows fits the observation it rests on: it is Connecting only as
\* long as it never was observed, Blocked only for want of a gateway, and Ready
\* without a reason; it is Disconnected with a reason, which is the agent's own
\* or that the last observation is old. An observation that arrives between the
\* reconciler's List and its UpdateStatus is not overwritten.
ShownAsObserved ==
    /\ link.state \in {"Ready", "Disconnected"} => link.observed # "never"
    /\ link.state \in {"none", "Connecting"} => link.observed = "never"
    /\ link.state = "Blocked" <=> link.reason = "NATUnreachable"
    /\ link.state = "Disconnected" <=> link.reason \notin {"", "NATUnreachable"}
    /\ link.reason = "ObservationStale" => link.observed = "old"

\* A Link stops being Ready when what it stands for is gone for good: the
\* session, the network, the agent that observes it, or its membership. A probe
\* that succeeds does not make up for a session that is missing.
LostLinkShown ==
    <>[](registry["dialer"] = <<>> \/ ~up \/ ~agentUp \/ ~member)
        => <>[](link.state # "Ready")

\* A Link becomes Ready, again and again, when network, agent and membership
\* stay: no conflict with the reconciler and no failure stops that.
LinkRecovers ==
    <>[](up /\ agentUp /\ member /\ deployment.linked /\ deployment.sessions # {})
        => []<>(link.state = "Ready")
==============================================================================
