---------------------------- MODULE ManagedAccess ----------------------------
(***************************************************************************)
(* ManagedAccessGrants: Kubernetes access to a cluster, given by the Hub's *)
(* administrator together with the cluster's owner and taken back by       *)
(* either.                                                                 *)
(*                                                                         *)
(*  - The administrator edits the grant; each edit is a new generation.    *)
(*    The owner approves one generation with a ConfigMap.                  *)
(*  - The agent polls the grants every 15 seconds and works through them   *)
(*    in order; the first error ends the round. A revoked or expired grant *)
(*    loses its RBAC objects, ServiceAccount and credential; an approved   *)
(*    one gets them, with a token issued anew (cmd/agent/main.go).         *)
(*  - The credential broker stores the token (cmd/broker/main.go), and the *)
(*    agent reports the credential's reference to the Hub, FulfillGrant.   *)
(*  - The hub replicas write the grant's status, reconcileGrants.          *)
(*                                                                         *)
(* The agent waits ten seconds for an answer; the request may then still   *)
(* be at work next to the next ones. Generations of the agent's messages   *)
(* grow (ControlChannel: a poll is answered only with a new generation,    *)
(* and the broker's messages carry the poll's successors), so the broker's *)
(* replay check is a matter of the order of the requests in flight.        *)
(*                                                                         *)
(* A freshness flag stands for the resourceVersion of a read object, as in *)
(* Advertisements. Every grant refers to a kubernetes-api advertisement of *)
(* this agent; rules and names are left out, a role holds the generation   *)
(* its rules come from.                                                    *)
(***************************************************************************)
EXTENDS Naturals, Sequences, FiniteSetsExt

CONSTANTS
    NumGrants,      \* grants are 1..NumGrants, in the order they are listed
    Namespaces, ClusterWide,    \* where a role can be
    NumExpiries,    \* values of expiresAt, in the order of time
    Requests,       \* requests of the agent being handled at the same time
    NoRequest,
    Reconcilers,    \* hub replicas, one reconciler each
    MaxEdits,       \* bound: edits of the grants
    MaxFailures     \* bound: failing calls, lost answers, restarts of agent and Hub;
                    \* with 0, the broker does not restart either

ASSUME ConstantsAssumption ==
    /\ NumGrants \in Nat /\ ClusterWide \notin Namespaces /\ NumExpiries \in Nat \ {0}
    /\ NoRequest \notin Requests /\ MaxEdits \in Nat /\ MaxFailures \in Nat

Grants == 1..NumGrants
Expiries == 1..NumExpiries
Places == Namespaces \cup {ClusterWide}

VARIABLES
    spec,           \* spec[g]: the generations of the grant; the last one is current
    status,         \* status[g]: state and whether credentialRef is set
    life,           \* life[e]: "good", "short" (less than ten minutes) or "over"
    approval,       \* approval[g]: the generation in the owner's ConfigMap, or 0
    consented,      \* consented[g]: generations the owner ever approved (history)
    rbac,           \* rbac[g]: ServiceAccount, generation of each role, bindings
    stored,         \* stored[g]: the token in the broker's Secret
    agent,          \* the agent's round
    request,        \* request[q]: a request of the agent to the broker or the Hub
    reconciler,     \* reconciler[r]: the states it is about to write
    edits, failures

vars == <<spec, status, life, approval, consented, rbac, stored, agent, request, reconciler,
          edits, failures>>
world == <<spec, edits, life, approval, consented>>

\* Namespaced grants name at least one namespace (validation rule of the CRD).
GrantSpec == {s \in [approved : BOOLEAN, revoked : BOOLEAN, scope : {"Namespaced", "Cluster"},
                     namespaces : SUBSET Namespaces, expiresAt : Expiries] :
                 s.scope = "Cluster" \/ s.namespaces # {}}

NoToken == [gen |-> 0, state |-> "none"]
IdleAgent == [pc |-> "idle", todo |-> {}, gens |-> [g \in Grants |-> 0], places |-> {},
              token |-> NoToken, request |-> NoRequest]
FreeRequest == [kind |-> "none", pc |-> "none", grant |-> 0, token |-> NoToken,
                older |-> {}, refused |-> FALSE, fresh |-> FALSE]
IdleReconciler == [todo |-> {}, state |-> [g \in Grants |-> "none"], fresh |-> {}]

\* The grants start alike, approved by the administrator.
Init ==
    /\ \E s \in GrantSpec :
          /\ s.approved /\ ~s.revoked /\ s.expiresAt = 1
          /\ spec = [g \in Grants |-> <<s>>]
    /\ status = [g \in Grants |-> [state |-> "none", ref |-> FALSE]]
    /\ life = [e \in Expiries |-> "good"]
    /\ approval = [g \in Grants |-> 0]
    /\ consented = [g \in Grants |-> {}]
    /\ rbac = [g \in Grants |-> [sa |-> FALSE, role |-> [p \in Places |-> 0], bound |-> {}]]
    /\ stored = [g \in Grants |-> NoToken]
    /\ agent = IdleAgent
    /\ request = [q \in Requests |-> FreeRequest]
    /\ reconciler = [r \in Reconcilers |-> IdleReconciler]
    /\ edits = 0
    /\ failures = 0

Current(g) == spec[g][Len(spec[g])]

\* Where the roles of a grant are.
Scope(s) == IF s.scope = "Cluster" THEN {ClusterWide} ELSE s.namespaces

Fail == failures < MaxFailures /\ failures' = failures + 1

\* A write of the grant g makes every other reading of it stale.
StaleRequests(kind, g) ==
    [q \in Requests |-> [request[q] EXCEPT
        !.fresh = @ /\ ~(request[q].kind = kind /\ request[q].grant = g)]]
StaleReconcilers(g) == [r \in Reconcilers |-> [reconciler[r] EXCEPT !.fresh = @ \ {g}]]

------------------------------------------------------------------------------
(* The administrator, the owner, and time.                                 *)

\* An edit of the spec is a new generation; it changes one field of a kind.
EditGrant(g, s) ==
    /\ edits < MaxEdits
    /\ edits' = edits + 1
    /\ LET c == Current(g) IN
         \/ \E v \in BOOLEAN : s = [c EXCEPT !.approved = v]
         \/ \E v \in BOOLEAN : s = [c EXCEPT !.revoked = v]
         \/ \E e \in Expiries : s = [c EXCEPT !.expiresAt = e]
         \/ s = [c EXCEPT !.scope = s.scope, !.namespaces = s.namespaces]
    /\ s # Current(g)
    /\ spec' = [spec EXCEPT ![g] = Append(@, s)]
    /\ request' = StaleRequests("fulfil", g)
    /\ reconciler' = StaleReconcilers(g)
    /\ UNCHANGED <<status, life, approval, consented, rbac, stored, agent, failures>>

\* The owner approves the current generation, or withdraws the approval.
Approve(g) ==
    /\ approval' = [approval EXCEPT ![g] = Len(spec[g])]
    /\ consented' = [consented EXCEPT ![g] = @ \cup {Len(spec[g])}]
    /\ UNCHANGED <<spec, edits, status, life, rbac, stored, agent, request, reconciler, failures>>

WithdrawApproval(g) ==
    /\ approval' = [approval EXCEPT ![g] = 0]
    /\ UNCHANGED <<spec, edits, status, life, consented, rbac, stored, agent, request, reconciler, failures>>

\* A token for g after its ServiceAccount was deleted, and at its expiry.
Dead(token) == IF token.state = "good" THEN [token EXCEPT !.state = "dead"] ELSE token
Expired(token) == IF token.gen = 0 THEN token ELSE [token EXCEPT !.state = "expired"]

\* A token for g expires with expiresAt of the generation it was issued for.
AtEnd(g, e, token) ==
    IF token.gen # 0 /\ spec[g][token.gen].expiresAt = e THEN Expired(token) ELSE token

Later == [good |-> "short", short |-> "over"]

\* The time e comes nearer; the times before e did so already.
Tick(e) ==
    /\ life[e] # "over"
    /\ \A f \in 1..(e - 1) : life[f] \notin {"good", life[e]}
    /\ life' = [life EXCEPT ![e] = Later[@]]
    /\ IF life'[e] = "over"
       THEN /\ stored' = [g \in Grants |-> AtEnd(g, e, stored[g])]
            /\ request' = [q \in Requests |-> [request[q] EXCEPT
                                                 !.token = AtEnd(request[q].grant, e, @)]]
            /\ agent' = IF agent.token = NoToken THEN agent
                        ELSE [agent EXCEPT !.token = AtEnd(Min(agent.todo), e, @)]
       ELSE UNCHANGED <<stored, request, agent>>
    /\ UNCHANGED <<spec, edits, status, approval, consented, rbac, reconciler, failures>>

\* A token lives one hour at most.
TokenExpires(g) ==
    /\ stored[g].state \in {"good", "dead"}
    /\ stored' = [stored EXCEPT ![g] = Expired(@)]
    /\ UNCHANGED <<world, status, rbac, agent, request, reconciler, failures>>

------------------------------------------------------------------------------
(* The agent: pollGrants and reconcileGrant.                               *)

\* Defect variants: the approval on the Hub is not looked at; revoked grants
\* are left out.
PendingGrantsAll == Grants
PendingGrantsNotRevoked == {g \in Grants : Current(g).approved /\ ~Current(g).revoked}

\* PendingGrants: the grants approved on the Hub, revoked and expired ones too.
PendingGrants == {g \in Grants : Current(g).approved}

PollGrants ==
    /\ agent.pc = "idle"
    /\ PendingGrants # {}
    /\ agent' = [IdleAgent EXCEPT !.pc = "grant", !.todo = PendingGrants,
                    !.gens = [g \in Grants |-> IF g \in PendingGrants THEN Len(spec[g]) ELSE 0]]
    /\ UNCHANGED <<world, status, rbac, stored, request, reconciler, failures>>

\* The grant the agent works on, and the generation it was told.
Grant == Min(agent.todo)
Gen == agent.gens[Grant]
Instruction == spec[Grant][Gen]

Ended(s) == s.revoked \/ life[s.expiresAt] = "over"

\* The next grant of the round.
NextGrant == IF agent.todo = {Grant} THEN IdleAgent
             ELSE [agent EXCEPT !.pc = "grant", !.todo = @ \ {Grant}, !.gens[Grant] = 0,
                                !.request = NoRequest]

\* Bindings, roles and the ServiceAccount are deleted: those of the cluster and
\* of the namespaces the grant names now. Deletions that fail are passed over.
RemoveAccess(places, sa) ==
    /\ agent.pc = "grant"
    /\ Ended(Instruction)
    /\ LET all == {ClusterWide} \cup Instruction.namespaces IN
         /\ places \subseteq all
         /\ IF places = all /\ sa THEN UNCHANGED failures ELSE Fail
    /\ rbac' = [rbac EXCEPT ![Grant] =
                  [sa |-> @.sa /\ ~sa, bound |-> @.bound \ places,
                   role |-> [p \in Places |-> IF p \in places THEN 0 ELSE @.role[p]]]]
    /\ IF sa
       THEN /\ stored' = [stored EXCEPT ![Grant] = Dead(@)]
            /\ request' = [q \in Requests |-> [request[q] EXCEPT
                             !.token = IF request[q].grant = Grant THEN Dead(@) ELSE @]]
       ELSE UNCHANGED <<stored, request>>
    /\ agent' = [agent EXCEPT !.pc = "revoke"]
    /\ UNCHANGED <<world, status, reconciler>>

\* Defect variant: any approval of the grant will do.
ApprovalValidAnyGeneration == approval[Grant] # 0

\* The ConfigMap approves the generation of the instruction.
ApprovalValid == approval[Grant] = Gen

\* "local customer approval required": the round ends, later grants wait.
ReadApproval ==
    /\ agent.pc = "grant"
    /\ ~Ended(Instruction)
    /\ agent' = IF ApprovalValid THEN [agent EXCEPT !.pc = "sa"] ELSE IdleAgent
    /\ UNCHANGED <<world, status, rbac, stored, request, reconciler, failures>>

CreateServiceAccount ==
    /\ agent.pc = "sa"
    /\ rbac' = [rbac EXCEPT ![Grant].sa = TRUE]
    /\ agent' = [agent EXCEPT !.pc = "rbac", !.places = Scope(Instruction)]
    /\ UNCHANGED <<world, status, stored, request, reconciler, failures>>

\* A role is created, or its rules replaced.
WriteRole(p) ==
    /\ agent.pc = "rbac"
    /\ p \in agent.places
    /\ rbac[Grant].role[p] # Gen
    /\ rbac' = [rbac EXCEPT ![Grant].role[p] = Gen]
    /\ UNCHANGED <<world, status, stored, agent, request, reconciler, failures>>

\* Its binding is created, unless it exists.
BindRole(p) ==
    /\ agent.pc = "rbac"
    /\ p \in agent.places
    /\ rbac[Grant].role[p] = Gen
    /\ rbac' = [rbac EXCEPT ![Grant].bound = @ \cup {p}]
    /\ agent' = [agent EXCEPT !.places = @ \ {p},
                              !.pc = IF agent.places = {p} THEN "token" ELSE "rbac"]
    /\ UNCHANGED <<world, status, stored, request, reconciler, failures>>

\* "grant expires too soon" ends the round.
IssueToken ==
    /\ agent.pc = "token"
    /\ agent' = IF life[Instruction.expiresAt] = "good"
                THEN [agent EXCEPT !.pc = "store", !.token = [gen |-> Gen, state |-> "good"]]
                ELSE IdleAgent
    /\ UNCHANGED <<world, status, rbac, stored, request, reconciler, failures>>

\* The agent sends credential.store, credential.revoke or grant.fulfilled.
Send(q) ==
    /\ agent.pc \in {"store", "revoke", "fulfil"}
    /\ request[q].kind = "none"
    /\ request' = [request EXCEPT ![q] =
                     [FreeRequest EXCEPT !.kind = agent.pc, !.pc = "sent", !.grant = Grant,
                        !.token = agent.token, !.older = {x \in Requests : request[x].kind # "none"}]]
    /\ agent' = [agent EXCEPT !.pc = "wait", !.token = NoToken, !.request = q]
    /\ UNCHANGED <<world, status, rbac, stored, reconciler, failures>>

\* A call fails, the agent stops waiting, or it restarts: the round is over.
AgentFails ==
    /\ agent.pc # "idle"
    /\ Fail
    /\ agent' = IdleAgent
    /\ UNCHANGED <<world, status, rbac, stored, request, reconciler>>

------------------------------------------------------------------------------
(* The broker and the Hub: requests of the agent.                          *)

\* Requests `done` are answered and gone.
Without(requests, done) ==
    [q \in Requests |-> IF q \in done THEN FreeRequest
                        ELSE [requests[q] EXCEPT !.older = @ \ done]]

\* What a waiting agent does with the answer to q.
Answered(q, ok) ==
    IF agent.request # q THEN agent
    ELSE IF ~ok THEN IdleAgent
    ELSE IF request[q].kind = "store" THEN [agent EXCEPT !.pc = "fulfil", !.request = NoRequest]
    ELSE NextGrant

Finish(q, ok, requests) ==
    /\ agent' = Answered(q, ok)
    /\ request' = Without(requests, {q})

\* store: the generation must be newer than the last one stored, and the token
\* not expired.
StoreCheck(q) ==
    /\ request[q].kind = "store" /\ request[q].pc = "sent"
    /\ IF request[q].refused \/ request[q].token.state = "expired"
       THEN Finish(q, FALSE, request)
       ELSE request' = [request EXCEPT ![q].pc = "get"] /\ UNCHANGED agent
    /\ UNCHANGED <<world, status, rbac, stored, reconciler, failures>>

StoreGet(q) ==
    /\ request[q].kind = "store" /\ request[q].pc = "get"
    /\ request' = [request EXCEPT ![q].pc = "write", ![q].fresh = TRUE]
    /\ UNCHANGED <<world, status, rbac, stored, agent, reconciler, failures>>

\* Defect variant: the Secret is always created.
StoreWriteCreates(q) ==
    /\ request[q].kind = "store" /\ request[q].pc = "write"
    /\ IF request[q].fresh /\ stored[request[q].grant] = NoToken
       THEN /\ stored' = [stored EXCEPT ![request[q].grant] = request[q].token]
            /\ request' = [StaleRequests("store", request[q].grant) EXCEPT ![q].pc = "record"]
            /\ UNCHANGED agent
       ELSE Finish(q, FALSE, request) /\ UNCHANGED stored
    /\ UNCHANGED <<world, status, rbac, reconciler, failures>>

\* Update or Create; a conflict is "store failed".
StoreWrite(q) ==
    /\ request[q].kind = "store" /\ request[q].pc = "write"
    /\ IF request[q].fresh
       THEN /\ stored' = [stored EXCEPT ![request[q].grant] = request[q].token]
            /\ request' = [StaleRequests("store", request[q].grant) EXCEPT ![q].pc = "record"]
            /\ UNCHANGED agent
       ELSE Finish(q, FALSE, request) /\ UNCHANGED stored
    /\ UNCHANGED <<world, status, rbac, reconciler, failures>>

\* The generation becomes the last one, also when that takes it back: from now
\* on exactly the requests before q are replays.
StoreRecord(q) ==
    /\ request[q].kind = "store" /\ request[q].pc = "record"
    /\ Finish(q, TRUE, [x \in Requests |-> [request[x] EXCEPT !.refused = x \in request[q].older]])
    /\ UNCHANGED <<world, status, rbac, stored, reconciler, failures>>

\* revoke: no replay check; 204 and 404 are the same to the agent.
RevokeDelete(q) ==
    /\ request[q].kind = "revoke"
    /\ stored' = [stored EXCEPT ![request[q].grant] = NoToken]
    /\ Finish(q, TRUE, IF stored' = stored THEN request ELSE StaleRequests("store", request[q].grant))
    /\ UNCHANGED <<world, status, rbac, reconciler, failures>>

FulfillGet(q) ==
    /\ request[q].kind = "fulfil" /\ request[q].pc = "sent"
    /\ request' = [request EXCEPT ![q].pc = "write", ![q].fresh = TRUE]
    /\ UNCHANGED <<world, status, rbac, stored, agent, reconciler, failures>>

\* UpdateStatus with credentialRef, lastRenewedAt and Active, whatever the spec.
FulfillUpdate(q) ==
    /\ request[q].kind = "fulfil" /\ request[q].pc = "write"
    /\ LET g == request[q].grant IN
         IF request[q].fresh
         THEN /\ status' = [status EXCEPT ![g] = [state |-> "Active", ref |-> TRUE]]
              /\ reconciler' = StaleReconcilers(g)
              /\ Finish(q, TRUE, StaleRequests("fulfil", g))
         ELSE Finish(q, FALSE, request) /\ UNCHANGED <<status, reconciler>>
    /\ UNCHANGED <<world, rbac, stored, failures>>

\* A request is lost, refused or fails in a call.
RequestFails(q) ==
    /\ request[q].kind # "none"
    /\ Fail
    /\ Finish(q, FALSE, request)
    /\ UNCHANGED <<world, status, rbac, stored, reconciler>>

\* The broker restarts: the requests it handles end, and it knows no generation
\* any more. Messages on their way reach it later, and none is a replay now.
\* Where calls can fail at all, it may restart again and again.
BrokerRestarts ==
    LET its == {q \in Requests : request[q].kind = "store" /\ request[q].pc # "sent"} IN
    /\ MaxFailures # 0
    /\ \E q \in Requests : request[q].kind \in {"store", "revoke"}
    /\ agent' = IF agent.request \in its THEN IdleAgent ELSE agent
    /\ request' = Without([q \in Requests |-> [request[q] EXCEPT !.refused = FALSE]], its)
    /\ UNCHANGED <<world, status, rbac, stored, reconciler, failures>>

------------------------------------------------------------------------------
(* The Hub: reconcileGrants.                                               *)

\* Defect variant: an approved grant is Active before it is revoked.
GrantStateApprovedFirst(g) ==
    IF Current(g).approved
    THEN IF status[g].ref THEN "Active" ELSE "AwaitingLocalApproval"
    ELSE IF Current(g).revoked THEN "Revoked"
    ELSE IF life[Current(g).expiresAt] = "over" THEN "Expired"
    ELSE "Pending"

\* Defect variant: the state has no default.
GrantStateNoDefault(g) ==
    IF Current(g).revoked THEN "Revoked"
    ELSE IF life[Current(g).expiresAt] = "over" THEN "Expired"
    ELSE IF ~Current(g).approved THEN ""
    ELSE IF status[g].ref THEN "Active" ELSE "AwaitingLocalApproval"

\* The state that follows from a grant just listed; managed access is enabled.
GrantState(g) ==
    IF Current(g).revoked THEN "Revoked"
    ELSE IF life[Current(g).expiresAt] = "over" THEN "Expired"
    ELSE IF ~Current(g).approved THEN "Pending"
    ELSE IF status[g].ref THEN "Active" ELSE "AwaitingLocalApproval"

ReconcileList(r) ==
    /\ reconciler[r].todo = {}
    /\ reconciler' = [reconciler EXCEPT ![r] =
                        [todo |-> Grants, fresh |-> Grants,
                         state |-> [g \in Grants |-> GrantState(g)]]]
    /\ UNCHANGED <<world, status, rbac, stored, agent, request, failures>>

\* UpdateStatus of the next grant listed; a conflict is passed over.
ReconcileUpdate(r) ==
    /\ reconciler[r].todo # {}
    /\ LET g == Min(reconciler[r].todo)
           new == [status[g] EXCEPT !.state = reconciler[r].state[g]]
           changes == g \in reconciler[r].fresh /\ new # status[g] IN
         /\ status' = IF changes THEN [status EXCEPT ![g] = new] ELSE status
         /\ request' = IF changes THEN StaleRequests("fulfil", g) ELSE request
         /\ reconciler' = [(IF changes THEN StaleReconcilers(g) ELSE reconciler) EXCEPT
                             ![r] = IF reconciler[r].todo = {g} THEN IdleReconciler
                                    ELSE [reconciler[r] EXCEPT !.todo = @ \ {g}, !.fresh = @ \ {g},
                                                               !.state[g] = "none"]]
    /\ UNCHANGED <<world, rbac, stored, agent, failures>>

ReconcileFails(r) ==
    /\ reconciler[r].todo # {}
    /\ Fail
    /\ reconciler' = [reconciler EXCEPT ![r] = IdleReconciler]
    /\ UNCHANGED <<world, status, rbac, stored, agent, request>>

------------------------------------------------------------------------------

AgentStep ==
    \/ PollGrants \/ ReadApproval \/ CreateServiceAccount \/ IssueToken
    \/ RemoveAccess({ClusterWide} \cup Instruction.namespaces, TRUE)
    \/ \E p \in Places : WriteRole(p) \/ BindRole(p)
    \/ \E q \in Requests : Send(q)

RequestStep(q) ==
    \/ StoreCheck(q) \/ StoreGet(q) \/ StoreWrite(q) \/ StoreRecord(q)
    \/ RevokeDelete(q) \/ FulfillGet(q) \/ FulfillUpdate(q)

Next ==
    \/ \E g \in Grants :
          \/ \E s \in GrantSpec : EditGrant(g, s)
          \/ Approve(g) \/ WithdrawApproval(g) \/ TokenExpires(g)
    \/ \E e \in Expiries : Tick(e)
    \/ PollGrants \/ ReadApproval \/ CreateServiceAccount \/ IssueToken \/ AgentFails
    \/ \E places \in SUBSET Places, sa \in BOOLEAN : RemoveAccess(places, sa)
    \/ \E p \in Places : WriteRole(p) \/ BindRole(p)
    \/ \E q \in Requests :
          \/ Send(q) \/ StoreCheck(q) \/ StoreGet(q) \/ StoreWrite(q) \/ StoreRecord(q)
          \/ RevokeDelete(q) \/ FulfillGet(q) \/ FulfillUpdate(q) \/ RequestFails(q)
    \/ BrokerRestarts
    \/ \E r \in Reconcilers : ReconcileList(r) \/ ReconcileUpdate(r) \/ ReconcileFails(r)

Spec == Init /\ [][Next]_vars

\* The 15-second loops of the agent and the reconcilers go on, requests are
\* served, and tokens expire. Only MaxFailures calls fail.
FairSpec ==
    /\ Spec
    /\ WF_vars(AgentStep)
    /\ \A q \in Requests : WF_vars(RequestStep(q))
    /\ \A g \in Grants : WF_vars(TokenExpires(g))
    /\ \A r \in Reconcilers : WF_vars(ReconcileList(r) \/ ReconcileUpdate(r))

------------------------------------------------------------------------------
(* Properties.                                                             *)

Generations == 1..(MaxEdits + 1)
TokenStates == {"none", "good", "dead", "expired"}
Token == [gen : Generations \cup {0}, state : TokenStates]
GrantStates == {"none", "Pending", "AwaitingLocalApproval", "Active", "Expired", "Revoked"}
AgentRound ==
    [pc : {"idle", "grant", "sa", "rbac", "token", "store", "revoke", "fulfil", "wait"},
     todo : SUBSET Grants, gens : [Grants -> Generations \cup {0}], places : SUBSET Places,
     token : Token, request : Requests \cup {NoRequest}]
Request ==
    [kind : {"none", "store", "revoke", "fulfil"}, pc : {"none", "sent", "get", "write", "record"},
     grant : Grants \cup {0}, token : Token, older : SUBSET Requests, refused : BOOLEAN,
     fresh : BOOLEAN]

\* Every variable keeps its shape, and the bounds are kept.
TypeOK ==
    /\ spec \in [Grants -> Seq(GrantSpec)]
    /\ \A g \in Grants : Len(spec[g]) \in Generations
    /\ status \in [Grants -> [state : GrantStates, ref : BOOLEAN]]
    /\ life \in [Expiries -> {"good", "short", "over"}]
    /\ approval \in [Grants -> Generations \cup {0}]
    /\ consented \in [Grants -> SUBSET Generations]
    /\ rbac \in [Grants -> [sa : BOOLEAN, role : [Places -> Generations \cup {0}],
                            bound : SUBSET Places]]
    /\ stored \in [Grants -> Token]
    /\ agent \in AgentRound
    /\ request \in [Requests -> Request]
    /\ reconciler \in [Reconcilers -> [todo : SUBSET Grants, state : [Grants -> GrantStates],
                                       fresh : SUBSET Grants]]
    /\ edits \in 0..MaxEdits
    /\ failures \in 0..MaxFailures

\* Generation n of g was approved by the administrator and by the owner.
Consented(g, n) == n \in consented[g] /\ spec[g][n].approved /\ ~spec[g][n].revoked

\* "Managed Kubernetes access requires both" approvals, and "every change to
\* scope, rules, target or expiry requires a fresh owner approval": whatever
\* role there is has the rules of a generation both sides approved, in a place
\* that generation names, and whatever token there is was issued for one,
\* although agent, administrator and owner act on copies that go stale. Nor
\* does the Hub call a grant Active for which there never was one.
AccessConsented ==
    \A g \in Grants :
        /\ status[g].ref \/ status[g].state = "Active" =>
              \E n \in 1..Len(spec[g]) : Consented(g, n)
        /\ \A p \in Places : rbac[g].role[p] # 0 =>
              Consented(g, rbac[g].role[p]) /\ p \in Scope(spec[g][rbac[g].role[p]])
        /\ stored[g].gen # 0 => Consented(g, stored[g].gen)

\* The proxy can use a credential that exists, is not expired and belongs to a
\* ServiceAccount that exists.
Usable(g) == stored[g].state = "good"

\* A credential that can be used has its ServiceAccount, and the expiry of the
\* generation it was issued for is not over: no store that is late, on its way
\* through a conflict or a restart of the broker, revives access that a
\* revocation took away by deleting the ServiceAccount.
UsableIsLive ==
    \A g \in Grants : Usable(g) =>
        rbac[g].sa /\ life[spec[g][stored[g].gen].expiresAt] # "over"

\* Access that was revoked, has expired or is not approved any more by the
\* administrator or the owner ends, also when the agent never gets to the
\* grant because of one before it, and when a late request stores a token
\* after the revocation.
AccessEnds ==
    \A g \in Grants :
        <>[](~Current(g).approved \/ Ended(Current(g)) \/ approval[g] # Len(spec[g]))
            => <>[]~Usable(g)

\* A grant the agent can deal with without an error, as long as the broker stays up.
Served(g) ==
    \/ ~Current(g).approved
    \/ Ended(Current(g))
    \/ approval[g] = Len(spec[g]) /\ life[Current(g).expiresAt] = "good"

\* A grant that stays revoked or expired is cleaned up, provided that the
\* grants before it can be dealt with: no credential, no ServiceAccount, no
\* role in the places it names.
RevocationCompletes ==
    \A g \in Grants :
        <>[](/\ Current(g).approved /\ Ended(Current(g))
             /\ \A h \in 1..(g - 1) : Served(h))
          => <>[](/\ stored[g] = NoToken /\ ~rbac[g].sa
                  /\ \A p \in {ClusterWide} \cup Current(g).namespaces :
                        rbac[g].role[p] = 0 /\ p \notin rbac[g].bound)

\* A grant that stays approved by both gets its access in the end, and its
\* credential is renewed for ever.
AccessGranted ==
    \A g \in Grants :
        <>[](Current(g).approved /\ ~Ended(Current(g)) /\ \A h \in 1..g : Served(h))
          => /\ []<>Usable(g)
             /\ <>[](\A p \in Scope(Current(g)) : /\ rbac[g].role[p] = Len(spec[g])
                                                  /\ p \in rbac[g].bound)

\* The status comes to tell the truth and stays with it: Revoked for a revoked
\* grant, although FulfillGrant writes Active without looking at the spec, and
\* Active for one that is fulfilled.
StatusConverges ==
    \A g \in Grants :
        /\ <>[]Current(g).revoked => <>[](status[g].state = "Revoked")
        /\ <>[](/\ Current(g).approved /\ ~Ended(Current(g)) /\ status[g].ref)
              => <>[](status[g].state = "Active")
==============================================================================
