----------------------------- MODULE LinksProofs -----------------------------
(***************************************************************************)
(* Proofs about Links. The gateways of a Link behave as GatewaySessions    *)
(* says, so what is proved there holds here too. The status a reconciler   *)
(* is about to write on a Link nobody has written since still fits the     *)
(* Link's last observation: an observation that arrives is a write, and    *)
(* one that only grows old keeps every status that fitted it.              *)
(***************************************************************************)
EXTENDS Links, GatewaySessionsProofs

\* A status fits the last observation of the Link.
Fits(status, observed) ==
    /\ status.state \in {"Ready", "Disconnected"} => observed # "never"
    /\ status.state \in {"none", "Connecting"} => observed = "never"
    /\ status.state = "Blocked" <=> status.reason = "NATUnreachable"
    /\ status.state = "Disconnected" <=> status.reason \notin {"", "NATUnreachable"}
    /\ status.reason = "ObservationStale" => observed = "old"

\* What the reconciler computed still fits the Link.
ReconcilerInv == reconciler.fresh => Fits(reconciler, link.observed)

\* What the agent sends is ready, or gives the agent's reason.
ObservationInv ==
    observation.pc \in {"sent", "update"} => (observation.ready <=> observation.reason = "")

Observations == [pc : {"idle", "probed", "sent", "update"}, ready : BOOLEAN,
                 reason : AgentReasons, fresh : BOOLEAN]
LinkStatuses == [state : LinkStates, reason : Reasons]

\* The type of the variables that Links adds.
LinkTypeOK ==
    /\ link \in [state : LinkStates, reason : Reasons,
                 observed : {"never", "recent", "old"}, gateways : BOOLEAN]
    /\ member \in BOOLEAN
    /\ agentUp \in BOOLEAN
    /\ observation \in Observations
    /\ reconciler \in [pc : {"idle", "update"}, state : LinkStates, reason : Reasons,
                       fresh : BOOLEAN]
    /\ edits \in 0..MaxEdits

LinkInv == LinkTypeOK /\ ObservationInv /\ ReconcilerInv /\ ShownAsObserved

------------------------------------------------------------------------------
(* Lemmas.                                                                 *)

\* A reader of the Link keeps everything but its freshness.
LEMMA TouchReconciler ==
    ASSUME LinkTypeOK, NEW new
    PROVE  /\ Touch(reconciler, new) \in [pc : {"idle", "update"}, state : LinkStates,
                                          reason : Reasons, fresh : BOOLEAN]
           /\ Touch(reconciler, new).state = reconciler.state
           /\ Touch(reconciler, new).reason = reconciler.reason
           /\ Touch(reconciler, new).fresh => reconciler.fresh /\ new = link
<1> DEFINE fresh == reconciler.fresh /\ new = link
<1>1. fresh \in BOOLEAN /\ Touch(reconciler, new) = [reconciler EXCEPT !.fresh = fresh]
    BY DEF Touch
<1>2. fresh => reconciler.fresh /\ new = link
    OBVIOUS
<1> HIDE DEF fresh
<1>3. [reconciler EXCEPT !.fresh = fresh].fresh = fresh
    BY DEF LinkTypeOK
<1>. QED
    BY <1>1, <1>2, <1>3 DEF LinkTypeOK

\* The same for the observation at work.
LEMMA TouchObservation ==
    ASSUME LinkTypeOK, NEW new
    PROVE  /\ Touch(observation, new) \in Observations
           /\ Touch(observation, new).pc = observation.pc
           /\ Touch(observation, new).ready = observation.ready
           /\ Touch(observation, new).reason = observation.reason
<1> DEFINE fresh == observation.fresh /\ new = link
<1>1. fresh \in BOOLEAN /\ Touch(observation, new) = [observation EXCEPT !.fresh = fresh]
    BY DEF Touch
<1> HIDE DEF fresh
<1>. QED
    BY <1>1 DEF LinkTypeOK, Observations

\* Two statuses that agree fit the same observations.
LEMMA SameFits ==
    ASSUME NEW status, NEW other, NEW observed, Fits(status, observed),
           other.state = status.state, other.reason = status.reason
    PROVE  Fits(other, observed)
    BY DEF Fits

\* An observation that grows old keeps what fitted it.
LEMMA FitsAged ==
    ASSUME NEW status, Fits(status, "recent")
    PROVE  Fits(status, "old")
    BY DEF Fits

\* LinkStatus is a status, and fits a Link that is not left alone.
LEMMA LinkStatusFollows ==
    ASSUME LinkTypeOK, link.gateways => link.observed # "recent"
    PROVE  LinkStatus \in LinkStatuses /\ Fits(LinkStatus, link.observed)
<1>1. CASE ~link.gateways
    BY <1>1 DEF LinkStatus, LinkStatuses, LinkStates, Reasons, AgentReasons, Fits
<1>2. CASE link.gateways /\ link.observed = "old"
    BY <1>2 DEF LinkStatus, LinkStatuses, LinkStates, Reasons, AgentReasons, Fits
<1>3. CASE link.gateways /\ link.observed # "old"
  <2>1. link.observed = "never"
    BY <1>3 DEF LinkTypeOK
  <2>. QED
    BY <1>3, <2>1 DEF LinkStatus, LinkStatuses, LinkStates, Reasons, AgentReasons, Fits
<1>. QED
    BY <1>1, <1>2, <1>3

\* An agent that observes nothing sends nothing.
LEMMA NoObservationFits == NoObservation \in Observations /\ NoObservation.pc = "idle"
    BY DEF NoObservation, Observations, AgentReasons

\* The world changes the Link, but never writes an observation.
LEMMA WorldStep ==
    ASSUME LinkInv, Ages \/ EditGateways \/ EditMembers \/ AgentChanges
    PROVE  LinkInv'
<1>1. LinkTypeOK /\ ObservationInv /\ ReconcilerInv /\ ShownAsObserved
    BY DEF LinkInv
<1>2. edits' \in 0..MaxEdits
    BY <1>1, EditsAssumption
       DEF LinkTypeOK, Ages, EditGateways, EditMembers, AgentChanges, Edit
<1>3. CASE Ages
  <2>1. /\ link.observed = "recent" /\ link' = [link EXCEPT !.observed = "old"]
        /\ UNCHANGED <<member, agentUp, observation, reconciler>>
    BY <1>3 DEF Ages
  <2>2. link' \in [state : LinkStates, reason : Reasons,
                   observed : {"never", "recent", "old"}, gateways : BOOLEAN]
        /\ link'.state = link.state /\ link'.reason = link.reason /\ link'.observed = "old"
    BY <1>1, <2>1 DEF LinkTypeOK
  <2>3. Fits(link, "old")
    BY <1>1, <2>1, FitsAged DEF ShownAsObserved, Fits
  <2>4. LinkTypeOK'
    BY <1>1, <1>2, <2>1, <2>2 DEF LinkTypeOK
  <2>5. ReconcilerInv' /\ ObservationInv'
    BY <1>1, <2>1, <2>2, FitsAged DEF ReconcilerInv, ObservationInv
  <2>6. ShownAsObserved'
    BY <2>2, <2>3 DEF ShownAsObserved, Fits
  <2>. QED
    BY <2>4, <2>5, <2>6 DEF LinkInv
<1>4. CASE EditGateways
  <2> DEFINE new == [link EXCEPT !.gateways = ~@]
  <2>1. /\ link' = new
        /\ observation' = Touch(observation, new)
        /\ reconciler' = Touch(reconciler, new)
        /\ UNCHANGED <<member, agentUp>>
    BY <1>4 DEF EditGateways
  <2>2. new = [link EXCEPT !.gateways = ~link.gateways]
    OBVIOUS
  <2>3. /\ new \in [state : LinkStates, reason : Reasons,
                    observed : {"never", "recent", "old"}, gateways : BOOLEAN]
        /\ new.state = link.state
        /\ new.reason = link.reason
        /\ new.observed = link.observed
    BY <1>1 DEF LinkTypeOK
  <2> HIDE DEF new
  <2>4. LinkTypeOK'
    BY <1>1, <1>2, <2>1, <2>3, TouchReconciler, TouchObservation DEF LinkTypeOK
  <2>5. ReconcilerInv' /\ ObservationInv'
    BY <1>1, <2>1, <2>3, TouchReconciler, TouchObservation, SameFits
       DEF ReconcilerInv, ObservationInv
  <2>6. ShownAsObserved'
    BY <1>1, <2>1, <2>3 DEF ShownAsObserved
  <2>. QED
    BY <2>4, <2>5, <2>6 DEF LinkInv
<1>5. CASE EditMembers
  <2>1. member' \in BOOLEAN /\ UNCHANGED <<link, agentUp, observation, reconciler>>
    BY <1>1, <1>5 DEF EditMembers
  <2>. QED
    BY <1>1, <1>2, <2>1 DEF LinkInv, LinkTypeOK, ObservationInv, ReconcilerInv, ShownAsObserved
<1>6. CASE AgentChanges
  <2>1. agentUp' \in BOOLEAN /\ UNCHANGED <<link, member, reconciler>>
    BY <1>1, <1>6 DEF AgentChanges
  <2>2. observation' = NoObservation \/ UNCHANGED observation
    BY <1>6 DEF AgentChanges
  <2>3. observation' \in Observations /\ ObservationInv'
    BY <1>1, <2>2, NoObservationFits DEF LinkTypeOK, ObservationInv
  <2>. QED
    BY <1>1, <1>2, <2>1, <2>3 DEF LinkInv, LinkTypeOK, ReconcilerInv, ShownAsObserved
<1>. QED
    BY <1>3, <1>4, <1>5, <1>6

\* The agent's round and the Hub's first read leave the Link alone.
LEMMA ObserverStep ==
    ASSUME LinkInv,
           \/ \E c \in Conns : Probe(c)
           \/ ProbeFails \/ CheckSession \/ ObserveGet \/ ObserveFails
    PROVE  LinkInv'
<1>1. LinkTypeOK /\ ObservationInv /\ ReconcilerInv /\ ShownAsObserved
    BY DEF LinkInv
<1>2. UNCHANGED <<link, member, agentUp, reconciler, edits>>
    BY DEF Probe, ProbeFails, CheckSession, ObserveGet, ObserveFails
<1>3. observation \in Observations
    BY <1>1 DEF LinkTypeOK
<1>4. observation' \in Observations /\ ObservationInv'
  <2>1. CASE \E c \in Conns : Probe(c)
    <3>1. observation' = [pc |-> "probed", ready |-> FALSE, reason |-> "", fresh |-> FALSE]
      BY <2>1 DEF Probe, NoObservation
    <3>. QED
      BY <3>1 DEF Observations, AgentReasons, ObservationInv
  <2>2. CASE ProbeFails
    <3>1. observation' = [pc |-> "sent", ready |-> FALSE, reason |-> "TransportError",
                          fresh |-> FALSE]
      BY <2>2 DEF ProbeFails, NoObservation
    <3>. QED
      BY <3>1 DEF Observations, AgentReasons, ObservationInv
  <2>3. CASE CheckSession
    <3> DEFINE ready == registry["dialer"] # <<>>
               reason == IF ready THEN "" ELSE "PersistentSessionUnavailable"
    <3>1. observation' = [observation EXCEPT !.pc = "sent", !.ready = ready, !.reason = reason]
      BY <2>3 DEF CheckSession
    <3>2. ready \in BOOLEAN /\ reason \in AgentReasons /\ (ready <=> reason = "")
      BY DEF AgentReasons
    <3> HIDE DEF ready, reason
    <3>3. observation' \in Observations /\ observation'.ready = ready
          /\ observation'.reason = reason
      BY <1>3, <3>1, <3>2 DEF Observations
    <3>. QED
      BY <3>2, <3>3 DEF ObservationInv
  <2>4. CASE ObserveGet \/ ObserveFails
    <3>1. \/ observation' = NoObservation
          \/ /\ observation.pc = "sent"
             /\ observation' = [observation EXCEPT !.pc = "update", !.fresh = TRUE]
      BY <2>4 DEF ObserveGet, ObserveFails
    <3>2. CASE observation' = NoObservation
      BY <3>2, NoObservationFits DEF ObservationInv
    <3>3. CASE /\ observation.pc = "sent"
               /\ observation' = [observation EXCEPT !.pc = "update", !.fresh = TRUE]
      <4>1. /\ observation' \in Observations
            /\ observation'.ready = observation.ready /\ observation'.reason = observation.reason
        BY <1>3, <3>3 DEF Observations
      <4>. QED
        BY <1>1, <3>3, <4>1 DEF ObservationInv
    <3>. QED
      BY <3>1, <3>2, <3>3
  <2>. QED
    BY <2>1, <2>2, <2>3, <2>4
<1>. QED
    BY <1>1, <1>2, <1>4 DEF LinkInv, LinkTypeOK, ReconcilerInv, ShownAsObserved

\* An observation is written: a reconciler that read the Link before is stale.
LEMMA ObserveUpdateStep ==
    ASSUME LinkInv, ObserveUpdate
    PROVE  LinkInv'
<1>1. LinkTypeOK /\ ObservationInv /\ ReconcilerInv /\ ShownAsObserved
    BY DEF LinkInv
<1> DEFINE state == IF observation.ready THEN "Ready" ELSE "Disconnected"
           new == [link EXCEPT !.state = state, !.reason = observation.reason,
                               !.observed = "recent"]
<1>2. /\ observation.pc = "update"
      /\ \/ link' = new /\ reconciler' = [reconciler EXCEPT !.fresh = FALSE]
         \/ UNCHANGED <<link, reconciler>>
      /\ observation' = NoObservation
      /\ UNCHANGED <<member, agentUp, edits>>
    BY DEF ObserveUpdate
<1>3. /\ observation.reason \in AgentReasons
      /\ \/ state = "Ready" /\ observation.reason = ""
         \/ state = "Disconnected" /\ observation.reason # ""
    BY <1>1, <1>2 DEF LinkTypeOK, Observations, ObservationInv
<1> HIDE DEF state
<1>4. /\ new \in [state : LinkStates, reason : Reasons,
                  observed : {"never", "recent", "old"}, gateways : BOOLEAN]
      /\ new.state = state /\ new.reason = observation.reason /\ new.observed = "recent"
    BY <1>1, <1>3 DEF LinkTypeOK, LinkStates, Reasons, AgentReasons
<1> HIDE DEF new
<1>5. NoObservation \in Observations /\ ObservationInv'
    BY <1>2, NoObservationFits DEF ObservationInv
<1>6. LinkTypeOK'
  <2>1. CASE link' = new /\ reconciler' = [reconciler EXCEPT !.fresh = FALSE]
    <3>1. reconciler' \in [pc : {"idle", "update"}, state : LinkStates, reason : Reasons,
                           fresh : BOOLEAN]
      BY <1>1, <2>1 DEF LinkTypeOK
    <3>. QED
      BY <1>1, <1>2, <1>4, <1>5, <2>1, <3>1 DEF LinkTypeOK
  <2>2. CASE UNCHANGED <<link, reconciler>>
    BY <1>1, <1>2, <1>5, <2>2 DEF LinkTypeOK
  <2>. QED
    BY <1>2, <2>1, <2>2
<1>7. ReconcilerInv'
    BY <1>1, <1>2, <1>4 DEF ReconcilerInv, LinkTypeOK
<1>8. ShownAsObserved'
    BY <1>1, <1>2, <1>3, <1>4 DEF ShownAsObserved, AgentReasons
<1>. QED
    BY <1>5, <1>6, <1>7, <1>8 DEF LinkInv

\* reconcileLinks lists and writes.
LEMMA ReconcilerStep ==
    ASSUME LinkInv, ReconcileList \/ ReconcileUpdate
    PROVE  LinkInv'
<1>1. LinkTypeOK /\ ObservationInv /\ ReconcilerInv /\ ShownAsObserved
    BY DEF LinkInv
<1>2. CASE ReconcileList
  <2>1. /\ LinkStatus \in LinkStatuses /\ Fits(LinkStatus, link.observed)
        /\ reconciler' = [pc |-> "update", state |-> LinkStatus.state,
                           reason |-> LinkStatus.reason, fresh |-> TRUE]
        /\ UNCHANGED <<link, member, agentUp, observation, edits>>
    BY <1>1, <1>2, LinkStatusFollows DEF ReconcileList
  <2>2. LinkTypeOK'
    BY <1>1, <2>1 DEF LinkTypeOK, LinkStatuses
  <2>3. ReconcilerInv'
    BY <2>1, SameFits DEF ReconcilerInv
  <2>. QED
    BY <1>1, <2>1, <2>2, <2>3 DEF LinkInv, ObservationInv, ShownAsObserved
<1>3. CASE ReconcileUpdate
  <2> DEFINE new == [link EXCEPT !.state = reconciler.state, !.reason = reconciler.reason]
  <2>1. /\ \/ reconciler.fresh /\ link' = new /\ observation' = Touch(observation, new)
           \/ UNCHANGED <<link, observation>>
        /\ reconciler' = IdleReconciler
        /\ UNCHANGED <<member, agentUp, edits>>
    BY <1>3 DEF ReconcileUpdate
  <2>2. /\ new \in [state : LinkStates, reason : Reasons,
                    observed : {"never", "recent", "old"}, gateways : BOOLEAN]
        /\ new.state = reconciler.state
        /\ new.reason = reconciler.reason
        /\ new.observed = link.observed
    BY <1>1 DEF LinkTypeOK
  <2> HIDE DEF new
  <2>3. IdleReconciler \in [pc : {"idle", "update"}, state : LinkStates, reason : Reasons,
                            fresh : BOOLEAN]
        /\ ~IdleReconciler.fresh
    BY DEF IdleReconciler, LinkStates, Reasons, AgentReasons
  <2>4. LinkTypeOK'
    BY <1>1, <2>1, <2>2, <2>3, TouchObservation DEF LinkTypeOK
  <2>5. ReconcilerInv' /\ ObservationInv'
    BY <1>1, <2>1, <2>3, TouchObservation DEF ReconcilerInv, ObservationInv
  <2>6. ShownAsObserved'
    BY <1>1, <2>1, <2>2 DEF ShownAsObserved, ReconcilerInv, Fits
  <2>. QED
    BY <2>4, <2>5, <2>6 DEF LinkInv
<1>. QED
    BY <1>2, <1>3

------------------------------------------------------------------------------
(* Theorems.                                                               *)

\* Every step of the gateways here is one of GatewaySessions, or none.
LEMMA SessionsStep == [Next]_vars => [SessionNext]_sessionVars
<1> SUFFICES ASSUME [Next]_vars PROVE [SessionNext]_sessionVars
    OBVIOUS
<1>1. CASE \E c \in Conns : Probe(c)
    BY <1>1 DEF Probe, SessionNext
<1>2. CASE ProbeFails \/ ObserveFails
    BY <1>2 DEF ProbeFails, ObserveFails, SessionNext
<1>3. CASE \/ Ages \/ EditGateways \/ EditMembers \/ AgentChanges \/ CheckSession
           \/ ObserveGet \/ ObserveUpdate \/ ReconcileList \/ ReconcileUpdate
    BY <1>3 DEF Ages, EditGateways, EditMembers, AgentChanges, Edit, CheckSession, ObserveGet,
                ObserveUpdate, ReconcileList, ReconcileUpdate
<1>4. CASE SessionStep
    BY <1>4 DEF SessionNext
<1>5. CASE UNCHANGED vars
    BY <1>5 DEF vars
<1>. QED
    BY <1>1, <1>2, <1>3, <1>4, <1>5 DEF Next

\* The Link adds nothing to its gateways that they do not do by themselves.
THEOREM SessionsInLinks == Spec => SessionSpec
<1>1. Init => SessionInit
    BY DEF Init
<1>. QED
    BY <1>1, SessionsStep, PTL DEF Spec, SessionSpec

\* A Link that was never observed.
LEMMA LinkInvInit == Init => LinkInv
<1> SUFFICES ASSUME Init PROVE LinkInv
    OBVIOUS
<1>1. link \in [state : LinkStates, reason : Reasons,
                observed : {"never", "recent", "old"}, gateways : BOOLEAN]
  <2>1. PICK b \in BOOLEAN :
          link = [state |-> "none", reason |-> "", observed |-> "never", gateways |-> b]
    BY DEF Init
  <2>. QED
    BY <2>1 DEF LinkStates, Reasons, AgentReasons
<1>2. reconciler \in [pc : {"idle", "update"}, state : LinkStates, reason : Reasons,
                      fresh : BOOLEAN]
    BY DEF Init, IdleReconciler, LinkStates, Reasons, AgentReasons
<1>3. observation \in Observations /\ ObservationInv
    BY NoObservationFits DEF Init, ObservationInv
<1>4. LinkTypeOK
  <2>1. member \in BOOLEAN /\ agentUp \in BOOLEAN
    BY DEF Init
  <2>2. edits \in 0..MaxEdits
    <3>1. edits = 0
      BY DEF Init
    <3>. QED
      BY <3>1, EditsAssumption
  <2>. QED
    BY <1>1, <1>2, <1>3, <2>1, <2>2 DEF LinkTypeOK
<1>5. ReconcilerInv
    BY DEF Init, ReconcilerInv, IdleReconciler
<1>6. ShownAsObserved
  <2>1. link.state = "none" /\ link.reason = "" /\ link.observed = "never"
    BY DEF Init
  <2>. QED
    BY <2>1 DEF ShownAsObserved
<1>. QED
    BY <1>3, <1>4, <1>5, <1>6 DEF LinkInv

\* One group of actions at a time.
LEMMA LinkInvStep == LinkInv /\ [Next]_vars => LinkInv'
<1> SUFFICES ASSUME LinkInv, [Next]_vars PROVE LinkInv'
    OBVIOUS
<1>1. CASE UNCHANGED linkVars
  <2>1. UNCHANGED <<link, member, agentUp, observation, reconciler, edits>>
    BY <1>1 DEF linkVars
  <2>2. LinkTypeOK /\ ObservationInv /\ ReconcilerInv /\ ShownAsObserved
    BY DEF LinkInv
  <2>3. LinkTypeOK'
    BY <2>1, <2>2 DEF LinkTypeOK
  <2>4. ObservationInv' /\ ReconcilerInv' /\ ShownAsObserved'
    BY <2>1, <2>2 DEF ObservationInv, ReconcilerInv, Fits, ShownAsObserved
  <2>. QED
    BY <2>3, <2>4 DEF LinkInv
<1>2. CASE Ages \/ EditGateways \/ EditMembers \/ AgentChanges
    BY <1>2, WorldStep
<1>3. CASE \/ \E c \in Conns : Probe(c)
           \/ ProbeFails \/ CheckSession \/ ObserveGet \/ ObserveFails
    BY <1>3, ObserverStep
<1>4. CASE ObserveUpdate
    BY <1>4, ObserveUpdateStep
<1>5. CASE ReconcileList \/ ReconcileUpdate
    BY <1>5, ReconcilerStep
<1>6. CASE Next
    BY <1>1, <1>2, <1>3, <1>4, <1>5, <1>6 DEF Next
<1>7. CASE UNCHANGED vars
    BY <1>1, <1>7 DEF vars, linkVars
<1>. QED
    BY <1>6, <1>7

\* The inductive invariant of the Link.
THEOREM LinkInvariant == Spec => []LinkInv
<1>1. LinkInv /\ [Next]_vars => LinkInv'
    BY LinkInvStep
<1>. QED
    BY LinkInvInit, <1>1, PTL DEF Spec

\* Type correctness of the gateways, the Link and what works on it.
THEOREM TypeCorrect == Spec => []TypeOK
<1>1. SessionTypeOK /\ LinkInv => TypeOK
    BY DEF LinkInv, LinkTypeOK, Observations, TypeOK
<1>. QED
    BY <1>1, SessionsInLinks, SessionTypeCorrect, LinkInvariant, PTL

\* With a Link that is observed, too, registries have exactly what is handled.
THEOREM RegistryExactInLinks == Spec => []RegistryExact
    BY SessionsInLinks, RegistryExactHolds, PTL

\* The probes of the agent do not displace the session.
THEOREM OldestKeptInLinks == Spec => OldestKept
    BY SessionsInLinks, OldestKeptHolds

\* With probes and a Link, too, no connection at the dialer lacks an owner.
THEOREM ConnectionsOwnedInLinks == Spec => []ConnectionsOwned
    BY SessionsInLinks, ConnectionsOwnedHolds, PTL

\* reconcileLinks and ObserveLink: what the Link shows fits its last
\* observation, although both read it some time before they write.
THEOREM ShownAsObservedHolds == Spec => []ShownAsObserved
<1>1. LinkInv => ShownAsObserved
    BY DEF LinkInv
<1>. QED
    BY <1>1, LinkInvariant, PTL
==============================================================================
