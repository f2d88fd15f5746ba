---------------------------- MODULE Advertisements ----------------------------
(***************************************************************************)
(* How one publisher's labelled Services become ServiceAdvertisements and  *)
(* ImportedServices on the Hub, and stop being advertised:                 *)
(*                                                                         *)
(*  - the agent lists its labelled Services, writes them to the routes of  *)
(*    its gateway and sends them as one service.snapshot, every 15 seconds *)
(*    (cmd/agent/main.go);                                                 *)
(*  - the gateway opens a stream of a peer to a Service when the routes    *)
(*    have it and the peer is among its targets (cmd/gateway/main.go);     *)
(*  - SyncAdvertisements checks the services of the snapshot one by one    *)
(*    against the PeerPolicy, writes each advertisement and its imports,   *)
(*    and then marks the publisher's other advertisements revoked; the     *)
(*    first refusal or error ends it (sovereign_store.go);                 *)
(*  - reconcileAdvertisements lists the advertisements and writes their    *)
(*    state: Active, Expired when the time to live has passed since the    *)
(*    last publication, Revoked (sovereign_reconciler.go).                 *)
(*                                                                         *)
(* Services are numbered in the order in which the agent lists them, and   *)
(* have distinct advertisement names; all of them refer to one PeerPolicy. *)
(* The snapshot's way through the control channel (replay check before,    *)
(* generation recorded after) is modelled in ControlChannel; a handler may *)
(* be overtaken by the next snapshot, since the agent stops waiting after  *)
(* ten seconds.                                                            *)
(*                                                                         *)
(* Time and resourceVersions are relative, so that behaviours are infinite *)
(* and states finite: an age is the time since a clock reading, capped at  *)
(* TTL, and a reader's `fresh` is the set of advertisements that nobody    *)
(* has written since it read them. A write that changes nothing does not   *)
(* count as one.                                                           *)
(***************************************************************************)
EXTENDS Naturals, FiniteSets, FiniteSetsExt

CONSTANTS
    NumServices,    \* Services are 1..NumServices
    Wildcard,       \* Services with target-peers="*"; the others name all of Peers
    Peers,          \* Peers the publisher is a member of
    Handlers,       \* snapshots being handled at the same time
    Reconcilers,    \* hub replicas, one reconciler each
    TTL,            \* ttlSeconds, in clock ticks
    MaxEdits,       \* bound: changes of labels, policy and peers
    MaxFailures     \* bound: API errors, cancelled requests, replicas that stop

ASSUME ConstantsAssumption ==
    /\ NumServices \in Nat /\ Wildcard \subseteq 1..NumServices /\ TTL \in Nat \ {0}
    /\ MaxEdits \in Nat /\ MaxFailures \in Nat

Services == 1..NumServices

VARIABLES
    labelled,       \* Services with the label and complete annotations
    policy,         \* the PeerPolicy: services it allows, maxAdvertisements
    ready,          \* Peers that are Ready and not suspended
    routes,         \* Services in the routes of the publisher's gateway
    ad,             \* ad[s]: the ServiceAdvertisement
    imports,        \* ImportedServices, as pairs of service and peer
    handler,        \* handler[h]: SyncAdvertisements at work
    reconciler,     \* reconciler[r]: the states it is about to write
    edits, failures

vars == <<labelled, policy, ready, routes, ad, imports, handler, reconciler, edits, failures>>
world == <<labelled, policy, ready, edits>>    \* what only Edit changes

NoAd == [exists |-> FALSE, revoked |-> FALSE, age |-> 0, targets |-> {},
         state |-> "none", shown |-> FALSE]
IdleHandler == [pc |-> "idle", snapshot |-> {}, todo |-> {}, targets |-> {}, age |-> 0,
                fresh |-> {}]
IdleReconciler == [pc |-> "idle", todo |-> {}, state |-> [s \in Services |-> "none"],
                   fresh |-> {}]

Init ==
    /\ labelled = {}
    /\ policy \in [allowed : SUBSET Services, max : {NumServices}]
    /\ ready = Peers
    /\ routes = {}
    /\ ad = [s \in Services |-> NoAd]
    /\ imports = {}
    /\ handler = [h \in Handlers |-> IdleHandler]
    /\ reconciler = [r \in Reconcilers |-> IdleReconciler]
    /\ edits = 0
    /\ failures = 0

\* A write of ad[s] makes every other reading of it stale.
Stale(readers, s) == [x \in DOMAIN readers |-> [readers[x] EXCEPT !.fresh = @ \ {s}]]

\* Store `new` as ad[s]; a writer goes on as `next`.
WriteBy(h, s, new, next) ==
    /\ ad' = [ad EXCEPT ![s] = new]
    /\ handler' = [(IF new = ad[s] THEN handler ELSE Stale(handler, s)) EXCEPT ![h] = next]
    /\ reconciler' = IF new = ad[s] THEN reconciler ELSE Stale(reconciler, s)

------------------------------------------------------------------------------
(* The world around the Hub.                                               *)

\* Positions of SyncAdvertisements at which its clock reading will still be used.
ItemStates == {"check", "get", "write", "imports"}

Older(age) == Min({age + 1, TTL})

\* Time passes for publications and for clock readings in use.
Tick ==
    /\ ad' = [s \in Services |-> [ad[s] EXCEPT !.age = IF ad[s].exists THEN Older(@) ELSE @]]
    /\ handler' = [h \in Handlers |-> [handler[h] EXCEPT
                                        !.age = IF handler[h].pc \in ItemStates THEN Older(@) ELSE 0]]
    /\ UNCHANGED <<world, routes, imports, reconciler, failures>>

Edit ==
    /\ edits < MaxEdits
    /\ edits' = edits + 1
    /\ UNCHANGED <<routes, ad, imports, handler, reconciler, failures>>

\* A label is set or removed, or an annotation made complete or incomplete.
EditLabels(s) ==
    /\ Edit
    /\ labelled' = IF s \in labelled THEN labelled \ {s} ELSE labelled \cup {s}
    /\ UNCHANGED <<policy, ready>>

\* Classes, protocols, ports, directions or the quota of the PeerPolicy change.
EditPolicy(allowed, max) ==
    /\ Edit
    /\ policy' = [allowed |-> allowed, max |-> max]
    /\ UNCHANGED <<labelled, ready>>

\* reconcilePeers changes the state of a Peer.
EditPeer(p) ==
    /\ Edit
    /\ ready' = IF p \in ready THEN ready \ {p} ELSE ready \cup {p}
    /\ UNCHANGED <<labelled, policy>>

------------------------------------------------------------------------------
(* What policy and routes allow.                                           *)

\* "*" is expanded to the Ready peers; named peers need not be Ready.
Targets(s) == IF s \in Wildcard THEN ready ELSE Peers

\* The quota counts the snapshot; "*" needs at least one Ready peer.
Permits(s, snapshot) ==
    /\ Cardinality(snapshot) <= policy.max
    /\ s \in Wildcard => ready # {}
    /\ s \in policy.allowed

\* Any authenticated peer is a target of "*".
RouteAllows(s, p) == s \in Wildcard \/ p \in Peers

\* handleExport: the routes have the service, and the peer is a target of it.
Admits(s, p) == s \in routes /\ RouteAllows(s, p)

------------------------------------------------------------------------------
(* The agent: publishServices.                                             *)

\* Defect variant: the routes follow once the Hub permits the snapshot.
PublishServicesHubFirst(h) ==
    /\ handler[h].pc = "idle"
    /\ routes' = IF \A s \in labelled : Permits(s, labelled) THEN labelled ELSE routes
    /\ handler' = [handler EXCEPT ![h] = [IdleHandler EXCEPT !.pc = "sent", !.snapshot = labelled]]
    /\ UNCHANGED <<world, ad, imports, reconciler, failures>>

\* The routes are written first, whatever the Hub will say of the snapshot;
\* nothing is sent when that fails.
PublishServices(h) ==
    /\ handler[h].pc = "idle"
    /\ routes' = labelled
    /\ handler' = [handler EXCEPT ![h] = [IdleHandler EXCEPT !.pc = "sent", !.snapshot = labelled]]
    /\ UNCHANGED <<world, ad, imports, reconciler, failures>>

------------------------------------------------------------------------------
(* The Hub: SyncAdvertisements.                                            *)

NextItem(h) == Min(handler[h].todo)

Remaining(h) == handler[h].todo \ {NextItem(h)}

\* The message has passed the control channel; `now` is read.
SyncStart(h) ==
    /\ handler[h].pc = "sent"
    /\ handler' = [handler EXCEPT ![h].age = 0, ![h].todo = handler[h].snapshot,
                                  ![h].pc = IF handler[h].snapshot = {} THEN "list" ELSE "check"]
    /\ UNCHANGED <<world, routes, ad, imports, reconciler, failures>>

\* Policy and peers are read for the next service; a refusal (403) ends the
\* handler, with the services after it and the sweep undone.
SyncCheck(h) ==
    /\ handler[h].pc = "check"
    /\ LET s == NextItem(h) IN
         handler' = [handler EXCEPT ![h] = IF Permits(s, @.snapshot)
                                           THEN [@ EXCEPT !.pc = "get", !.targets = Targets(s)]
                                           ELSE IdleHandler]
    /\ UNCHANGED <<world, routes, ad, imports, reconciler, failures>>

SyncGet(h) ==
    /\ handler[h].pc = "get"
    /\ handler' = [handler EXCEPT ![h].pc = "write", ![h].fresh = @ \cup {NextItem(h)}]
    /\ UNCHANGED <<world, routes, ad, imports, reconciler, failures>>

\* Defect variant: an advertisement that exists stays as it is.
PublishedOnce(h, s) ==
    IF ad[s].exists THEN ad[s]
    ELSE [ad[s] EXCEPT !.exists = TRUE, !.revoked = FALSE, !.age = handler[h].age,
                       !.targets = handler[h].targets, !.shown = FALSE]

\* The advertisement as SyncAdvertisements writes it; the status is kept. The
\* publication time is the one read when the handler started.
Published(h, s) ==
    [ad[s] EXCEPT !.exists = TRUE, !.revoked = FALSE, !.age = handler[h].age,
                  !.targets = handler[h].targets, !.shown = FALSE]

\* Create or Update; a conflict or AlreadyExists ends the handler.
SyncWrite(h) ==
    /\ handler[h].pc = "write"
    /\ LET s == NextItem(h) IN
         IF s \in handler[h].fresh
         THEN WriteBy(h, s, Published(h, s), [handler[h] EXCEPT !.pc = "imports"])
         ELSE handler' = [handler EXCEPT ![h] = IdleHandler] /\ UNCHANGED <<ad, reconciler>>
    /\ UNCHANGED <<world, routes, imports, failures>>

\* One ImportedService per target; those that exist stay.
SyncImports(h) ==
    /\ handler[h].pc = "imports"
    /\ imports' = imports \cup ({NextItem(h)} \X handler[h].targets)
    /\ handler' = [handler EXCEPT ![h].todo = Remaining(h), ![h].targets = {},
                                  ![h].pc = IF Remaining(h) = {} THEN "list" ELSE "check"]
    /\ UNCHANGED <<world, routes, ad, reconciler, failures>>

\* The publisher's advertisements that the snapshot does not have.
SyncList(h) ==
    /\ handler[h].pc = "list"
    /\ LET others == {s \in Services : ad[s].exists} \ handler[h].snapshot IN
         handler' = [handler EXCEPT ![h] =
                       IF others = {} THEN IdleHandler
                       ELSE [IdleHandler EXCEPT !.pc = "sweep", !.todo = others, !.fresh = others]]
    /\ UNCHANGED <<world, routes, ad, imports, reconciler, failures>>

\* Update with revoked set; a failure is ignored.
SyncRevoke(h) ==
    /\ handler[h].pc = "sweep"
    /\ LET s == NextItem(h)
           next == IF Remaining(h) = {} THEN IdleHandler
                   ELSE [handler[h] EXCEPT !.todo = Remaining(h)] IN
         IF s \in handler[h].fresh
         THEN WriteBy(h, s, [ad[s] EXCEPT !.revoked = TRUE], next)
         ELSE handler' = [handler EXCEPT ![h] = next] /\ UNCHANGED <<ad, reconciler>>
    /\ UNCHANGED <<world, routes, imports, failures>>

\* The request is lost or refused, a call fails, or the replica stops.
SyncFails(h) ==
    /\ handler[h].pc # "idle"
    /\ failures < MaxFailures
    /\ failures' = failures + 1
    /\ handler' = [handler EXCEPT ![h] = IdleHandler]
    /\ UNCHANGED <<world, routes, ad, imports, reconciler>>

------------------------------------------------------------------------------
(* The Hub: reconcileAdvertisements.                                       *)

\* Defect variant: the state has no default.
AdStateNoDefault(s) ==
    CASE ad[s].revoked -> "Revoked"
      [] ~ad[s].revoked /\ ad[s].age >= TTL -> "Expired"
      [] OTHER -> ""

\* The state that follows from an advertisement just listed.
AdState(s) ==
    CASE ad[s].revoked -> "Revoked"
      [] ~ad[s].revoked /\ ad[s].age >= TTL -> "Expired"
      [] OTHER -> "Active"

ReconcileList(r) ==
    /\ reconciler[r].pc = "idle"
    /\ LET listed == {s \in Services : ad[s].exists} IN
         /\ listed # {}
         /\ reconciler' = [reconciler EXCEPT ![r] =
                             [pc |-> "update", todo |-> listed, fresh |-> listed,
                              state |-> [s \in Services |->
                                           IF s \in listed THEN AdState(s) ELSE "none"]]]
    /\ UNCHANGED <<world, routes, ad, imports, handler, failures>>

\* UpdateStatus of state and expiresAt for the next advertisement listed.
StatusWrite(r, s) ==
    LET new == [ad[s] EXCEPT !.state = reconciler[r].state[s], !.shown = TRUE]
    IN /\ ad' = [ad EXCEPT ![s] = new]
       /\ handler' = IF new = ad[s] THEN handler ELSE Stale(handler, s)

ReconcileAdvance(r) ==
    LET s == Min(reconciler[r].todo) IN
    reconciler' =
        [(IF ad' = ad THEN reconciler ELSE Stale(reconciler, s)) EXCEPT
            ![r] = IF reconciler[r].todo = {s} THEN IdleReconciler
                   ELSE [reconciler[r] EXCEPT !.todo = @ \ {s}]]

\* Defect variant: the status is patched without a resourceVersion.
ReconcileUpdateBlind(r) ==
    /\ reconciler[r].pc = "update"
    /\ StatusWrite(r, Min(reconciler[r].todo))
    /\ ReconcileAdvance(r)
    /\ UNCHANGED <<world, routes, imports, failures>>

\* A conflict is ignored.
ReconcileUpdate(r) ==
    /\ reconciler[r].pc = "update"
    /\ LET s == Min(reconciler[r].todo) IN
         IF s \in reconciler[r].fresh THEN StatusWrite(r, s) ELSE UNCHANGED <<ad, handler>>
    /\ ReconcileAdvance(r)
    /\ UNCHANGED <<world, routes, imports, failures>>

\* A replica stops in the middle of a round.
ReconcileStops(r) ==
    /\ reconciler[r].pc = "update"
    /\ failures < MaxFailures
    /\ failures' = failures + 1
    /\ reconciler' = [reconciler EXCEPT ![r] = IdleReconciler]
    /\ UNCHANGED <<world, routes, ad, imports, handler>>

Next ==
    \/ Tick
    \/ \E s \in Services : EditLabels(s)
    \/ \E allowed \in SUBSET Services, max \in 0..NumServices : EditPolicy(allowed, max)
    \/ \E p \in Peers : EditPeer(p)
    \/ \E h \in Handlers :
          \/ PublishServices(h) \/ SyncStart(h) \/ SyncCheck(h) \/ SyncGet(h) \/ SyncWrite(h)
          \/ SyncImports(h) \/ SyncList(h) \/ SyncRevoke(h) \/ SyncFails(h)
    \/ \E r \in Reconcilers : ReconcileList(r) \/ ReconcileUpdate(r) \/ ReconcileStops(r)

Spec == Init /\ [][Next]_vars

\* The 15-second loops of the agent and of the reconcilers go on, requests are
\* served, and time passes. Only MaxFailures calls fail.
FairSpec ==
    /\ Spec
    /\ WF_vars(Tick)
    /\ \A h \in Handlers :
          WF_vars(\/ PublishServices(h) \/ SyncStart(h) \/ SyncCheck(h) \/ SyncGet(h)
                  \/ SyncWrite(h) \/ SyncImports(h) \/ SyncList(h) \/ SyncRevoke(h))
    /\ \A r \in Reconcilers : WF_vars(ReconcileList(r) \/ ReconcileUpdate(r))

------------------------------------------------------------------------------
(* Properties.                                                             *)

HandlerStates == {"idle", "sent", "list", "sweep"} \cup ItemStates
AdStates == {"none", "Active", "Expired", "Revoked"}

\* Every variable keeps its shape, and no bound is passed.
TypeOK ==
    /\ labelled \subseteq Services
    /\ policy \in [allowed : SUBSET Services, max : 0..NumServices]
    /\ ready \subseteq Peers
    /\ routes \subseteq Services
    /\ ad \in [Services -> [exists : BOOLEAN, revoked : BOOLEAN, age : 0..TTL,
                            targets : SUBSET Peers, state : AdStates, shown : BOOLEAN]]
    /\ imports \subseteq Services \X Peers
    /\ handler \in [Handlers -> [pc : HandlerStates, snapshot : SUBSET Services,
                                 todo : SUBSET Services, targets : SUBSET Peers,
                                 age : 0..TTL, fresh : SUBSET Services]]
    /\ reconciler \in [Reconcilers -> [pc : {"idle", "update"}, todo : SUBSET Services,
                                       state : [Services -> AdStates], fresh : SUBSET Services]]
    /\ edits \in 0..MaxEdits
    /\ failures \in 0..MaxFailures

\* What a reconciler writes is true when it is written: it shows Revoked
\* exactly for an advertisement that is revoked at that moment, although a
\* snapshot may publish or revoke it between the List and the UpdateStatus.
StatusTruthful ==
    [][\A s \in Services : ad'[s].state # ad[s].state =>
          (ad'[s].state = "Revoked" <=> ad[s].revoked)]_ad

\* An import belongs to an advertisement that exists, and unless a call failed
\* the imports follow the advertisement: for every target it was published
\* with there is the import, or a handler about to create it, also when
\* snapshots with other targets overtake each other.
ImportsFollow ==
    /\ \A x \in imports : ad[x[1]].exists
    /\ failures = 0 =>
          \A s \in Services : \A p \in ad[s].targets :
              \/ <<s, p>> \in imports
              \/ \E h \in Handlers : /\ handler[h].pc = "imports" /\ NextItem(h) = s
                                      /\ p \in handler[h].targets

\* When labels, policy and peers stay as they are and the policy permits every
\* labelled service, the Hub ends up with exactly the labelled services
\* advertised, to exactly their target peers, imports included, which the
\* publisher's gateway admits, and the others revoked: late handlers, conflicts
\* and failures are made good by later snapshots.
SnapshotConverges ==
    <>[](\A s \in labelled : Permits(s, labelled))
        => <>[](\A s \in Services :
                  IF s \in labelled
                  THEN /\ ad[s].exists /\ ~ad[s].revoked /\ ad[s].targets = Targets(s)
                       /\ \A p \in Targets(s) : <<s, p>> \in imports /\ Admits(s, p)
                  ELSE ad[s].exists => ad[s].revoked)

\* A service whose label was removed for good is in the end not Active and not
\* served by the gateway any more, also when the policy refuses every later
\* snapshot because of another service: then the time to live ends it.
RemovedServiceStops ==
    \A s \in Services : <>[](s \notin labelled) =>
        <>[](ad[s].state # "Active" /\ \A p \in Peers : ~Admits(s, p))

\* "Removed labels revoke the advertisement." (README.md:51)
RemovedLabelsRevoke ==
    \A s \in Services : <>[](s \notin labelled) => <>[](ad[s].exists => ad[s].revoked)
==============================================================================
