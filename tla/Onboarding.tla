------------------------------ MODULE Onboarding ------------------------------
(***************************************************************************)
(* How a cluster joins: an administrator creates an onboarding claim or an *)
(* invitation; a POST with the claim exchanges it for an invitation bound  *)
(* to the claim's cluster; the agent accepts an invitation with a proof of *)
(* its key and is registered as a ClusterIdentity.                         *)
(*                                                                         *)
(* Claims and invitations are Kubernetes Secrets (sovereign_store.go).     *)
(* Several requests for the same secret run at once on several hub         *)
(* replicas; each is a sequence of API-server calls, guarded only by the   *)
(* resourceVersion, and stops between any two of them when the replica or  *)
(* the API server fails. A request that fails after its Update took effect *)
(* has used up the secret.                                                 *)
(*                                                                         *)
(* A request is used once: `posts` are POST /v1/onboarding/{id}, `accepts` *)
(* are POST /v1/invitations/{id}/accept, each with its own agent key.      *)
(***************************************************************************)
EXTENDS Naturals, FiniteSets

CONSTANTS
    Claims, Invitations,        \* random identifiers
    Posts, Accepts,             \* requests
    Tenants, HubTenant,         \* HubTenant: s.Onboarding.Tenant
    Clusters, AnyCluster,       \* AnyCluster: an invitation bound to no cluster
    Regions, NoRegion,
    Capabilities, OnboardingCapabilities,
    Nobody,                     \* "no request": used-at is empty
    Admin,                      \* "no claim": an invitation made by the administrator
    ClaimTTL, InvitationTTL,    \* lifetimes in clock ticks
    MaxAdminInvitations,        \* bound: invitations created by the administrator
    MaxNow,                     \* bound on the clock
    MaxEdits                    \* bound: edits of a claim Secret by other writers

ASSUME ConstantsAssumption ==
    /\ HubTenant \in Tenants /\ AnyCluster \notin Clusters /\ NoRegion \notin Regions
    /\ OnboardingCapabilities \subseteq Capabilities
    /\ Nobody \notin Posts \cup Accepts /\ Admin \notin Claims
    /\ ClaimTTL \in Nat /\ InvitationTTL \in Nat /\ MaxNow \in Nat /\ MaxEdits \in Nat

VARIABLES
    now,            \* the clock
    claim,          \* claim[c]: the claim Secret
    invitation,     \* invitation[i]: the invitation Secret
    registry,       \* registry[t][k]: the ClusterIdentity k of tenant t
    post,           \* post[p]: program counter and locals of consumeOnboarding
    accept,         \* accept[r]: program counter and locals of acceptInvitation
    edits           \* edits of claim Secrets so far

vars == <<now, claim, invitation, registry, post, accept, edits>>

MaxAttempts == 3    \* of ConsumeOnboardingClaim

NoClaim == [exists |-> FALSE, cluster |-> AnyCluster, region |-> NoRegion, expires |-> 0,
            usedBy |-> Nobody, rv |-> 0]
NoInvitation == [exists |-> FALSE, tenant |-> HubTenant, cluster |-> AnyCluster,
                 region |-> NoRegion, caps |-> {}, expires |-> 0, from |-> Admin,
                 usedBy |-> Nobody, rv |-> 0]

\* The locals of a request: a request that has ended keeps only its outcome.
Post(pc, c, at, attempts, rv) ==
    [pc |-> pc, claim |-> c, at |-> at, attempts |-> attempts, rv |-> rv]
PostIn(pc) == Post(pc, Admin, 0, 0, 0)
Acceptance(pc, i, t, k, caps, rv) ==
    [pc |-> pc, inv |-> i, tenant |-> t, cluster |-> k, caps |-> caps, rv |-> rv]
AcceptanceIn(pc) == Acceptance(pc, Nobody, HubTenant, AnyCluster, {}, 0)

\* A Secret whose used-at annotation was set by a request; every Update changes
\* the resourceVersion.
Used(secret, by) == [secret EXCEPT !.usedBy = by, !.rv = secret.rv + 1]

NotRegistered == [key |-> Nobody, region |-> NoRegion, caps |-> {}]

Init ==
    /\ now = 0
    /\ claim = [c \in Claims |-> NoClaim]
    /\ invitation = [i \in Invitations |-> NoInvitation]
    /\ registry = [t \in Tenants |-> [k \in Clusters |-> NotRegistered]]
    /\ post = [p \in Posts |-> PostIn("new")]
    /\ accept = [r \in Accepts |-> AcceptanceIn("new")]
    /\ edits = 0

Tick ==
    /\ now < MaxNow
    /\ now' = now + 1
    /\ UNCHANGED <<claim, invitation, registry, post, accept, edits>>

------------------------------------------------------------------------------
(* The administrator.                                                      *)

\* createOnboardingLink and CreateOnboardingClaim; the identifier is fresh.
CreateOnboardingLink(c, k, region) ==
    /\ ~claim[c].exists
    /\ claim' = [claim EXCEPT ![c] =
                  [exists |-> TRUE, cluster |-> k, region |-> region,
                   expires |-> now + ClaimTTL, usedBy |-> Nobody, rv |-> 0]]
    /\ UNCHANGED <<now, invitation, registry, post, accept, edits>>

\* createInvitation and CreateInvitation: bound to a tenant, not to a cluster.
CreateInvitation(i, t, caps) ==
    /\ ~invitation[i].exists
    /\ Cardinality({j \in Invitations : invitation[j].exists /\ invitation[j].from = Admin})
          < MaxAdminInvitations
    /\ invitation' = [invitation EXCEPT ![i] =
                        [exists |-> TRUE, tenant |-> t, cluster |-> AnyCluster,
                         region |-> NoRegion, caps |-> caps, expires |-> now + InvitationTTL,
                         from |-> Admin, usedBy |-> Nobody, rv |-> 0]]
    /\ UNCHANGED <<now, claim, registry, post, accept, edits>>

\* Another writer (a label, an annotation) makes the next Update conflict.
EditClaim(c) ==
    /\ claim[c].exists
    /\ edits < MaxEdits
    /\ edits' = edits + 1
    /\ claim' = [claim EXCEPT ![c].rv = @ + 1]
    /\ UNCHANGED <<now, invitation, registry, post, accept>>

------------------------------------------------------------------------------
(* POST /v1/onboarding/{id}: consumeOnboarding.                            *)

\* Defect variant: used-at is not looked at.
ConsumableUsed(c, at) == claim[c].exists /\ at < claim[c].expires

\* The checks of ConsumeOnboardingClaim on the Secret just read. `at` is the
\* time read once, before the first attempt.
Consumable(c, at) ==
    /\ claim[c].exists
    /\ claim[c].usedBy = Nobody
    /\ at < claim[c].expires

\* One Get of ConsumeOnboardingClaim and what follows from it.
ReadClaim(p, c, at, attempts) ==
    /\ post' = [post EXCEPT ![p] =
                  IF Consumable(c, at)
                  THEN Post("update", c, at, attempts, claim[c].rv)
                  ELSE PostIn("refused")]
    /\ UNCHANGED <<now, claim, invitation, registry, accept, edits>>

ConsumeStart(p, c) == post[p].pc = "new" /\ ReadClaim(p, c, now, 0)

ConsumeRetry(p) ==
    /\ post[p].pc = "retry"
    /\ ReadClaim(p, post[p].claim, post[p].at, post[p].attempts)

\* Defect variant: the Update is not tied to the resourceVersion read.
ConsumeUpdateBlind(p) ==
    /\ post[p].pc = "update"
    /\ claim' = [claim EXCEPT ![post[p].claim] = Used(@, p)]
    /\ post' = [post EXCEPT ![p] = Post("invite", post[p].claim, 0, 0, 0)]
    /\ UNCHANGED <<now, invitation, registry, accept, edits>>

\* Defect variant: a request reads again after its own Update and finds the
\* claim used.
ConsumeUpdateRereads(p) ==
    /\ post[p].pc = "update"
    /\ claim[post[p].claim].rv = post[p].rv
    /\ claim' = [claim EXCEPT ![post[p].claim] = Used(@, p)]
    /\ post' = [post EXCEPT ![p].pc = "retry"]
    /\ UNCHANGED <<now, invitation, registry, accept, edits>>

\* The Update that sets used-at, on the resourceVersion that was read.
ConsumeUpdate(p) ==
    /\ post[p].pc = "update"
    /\ claim[post[p].claim].rv = post[p].rv
    /\ claim' = [claim EXCEPT ![post[p].claim] = Used(@, p)]
    /\ post' = [post EXCEPT ![p] = Post("invite", post[p].claim, 0, 0, 0)]
    /\ UNCHANGED <<now, invitation, registry, accept, edits>>

\* Defect variant: one attempt too many.
ConsumeConflictOnceMore(p) ==
    /\ post[p].pc = "update"
    /\ claim[post[p].claim].rv # post[p].rv
    /\ post' = [post EXCEPT ![p] =
                  IF post[p].attempts + 1 <= MaxAttempts
                  THEN Post("retry", post[p].claim, post[p].at, post[p].attempts + 1, 0)
                  ELSE PostIn("refused")]
    /\ UNCHANGED <<now, claim, invitation, registry, accept, edits>>

\* The Update conflicts: read again, up to MaxAttempts times in all.
ConsumeConflict(p) ==
    /\ post[p].pc = "update"
    /\ claim[post[p].claim].rv # post[p].rv
    /\ post' = [post EXCEPT ![p] =
                  IF post[p].attempts + 1 < MaxAttempts
                  THEN Post("retry", post[p].claim, post[p].at, post[p].attempts + 1, 0)
                  ELSE PostIn("refused")]
    /\ UNCHANGED <<now, claim, invitation, registry, accept, edits>>

\* The invitation of the consumed claim: its tenant, cluster and region, 15
\* minutes, fixed capabilities. The document returned carries its token.
IssueInvitation(p, i) ==
    /\ post[p].pc = "invite"
    /\ ~invitation[i].exists
    /\ invitation' = [invitation EXCEPT ![i] =
                        [exists |-> TRUE, tenant |-> HubTenant,
                         cluster |-> claim[post[p].claim].cluster,
                         region |-> claim[post[p].claim].region,
                         caps |-> OnboardingCapabilities, expires |-> now + InvitationTTL,
                         from |-> post[p].claim, usedBy |-> Nobody, rv |-> 0]]
    /\ post' = [post EXCEPT ![p] = PostIn("issued")]
    /\ UNCHANGED <<now, claim, registry, accept, edits>>

\* A wrong token, an API error, no entropy, or the replica stops.
PostFails(p) ==
    /\ post[p].pc \in {"new", "update", "retry", "invite"}
    /\ post' = [post EXCEPT ![p] = PostIn("failed")]
    /\ UNCHANGED <<now, claim, invitation, registry, accept, edits>>

------------------------------------------------------------------------------
(* POST /v1/invitations/{id}/accept: acceptInvitation.                     *)

\* capabilitiesAllowed.
CapabilitiesAllowed(invited, requested) == requested \subseteq invited

\* Defect variant: the invitation's cluster binding is not checked.
AcceptableUnbound(i, t, k, caps) ==
    /\ invitation[i].exists /\ invitation[i].tenant = t
    /\ invitation[i].usedBy = Nobody
    /\ now < invitation[i].expires
    /\ CapabilitiesAllowed(invitation[i].caps, caps)

\* The checks of ConsumeInvitation. The Secret is looked up in the namespace
\* of the tenant the request names.
Acceptable(i, t, k, caps) ==
    /\ invitation[i].exists /\ invitation[i].tenant = t
    /\ invitation[i].cluster \in {AnyCluster, k}
    /\ invitation[i].usedBy = Nobody
    /\ now < invitation[i].expires
    /\ CapabilitiesAllowed(invitation[i].caps, caps)

\* The Get of ConsumeInvitation.
AcceptStart(r, i, t, k, caps) ==
    /\ accept[r].pc = "new"
    /\ accept' = [accept EXCEPT ![r] =
                    IF Acceptable(i, t, k, caps)
                    THEN Acceptance("update", i, t, k, caps, invitation[i].rv)
                    ELSE AcceptanceIn("refused")]
    /\ UNCHANGED <<now, claim, invitation, registry, post, edits>>

\* Defect variant: the Update is not tied to the resourceVersion read.
AcceptUpdateBlind(r) ==
    /\ accept[r].pc = "update"
    /\ invitation' = [invitation EXCEPT ![accept[r].inv] = Used(@, r)]
    /\ accept' = [accept EXCEPT ![r].pc = "register"]
    /\ UNCHANGED <<now, claim, registry, post, edits>>

\* The Update that sets used-at; a conflict is an error, there is no retry.
AcceptUpdate(r) ==
    /\ accept[r].pc = "update"
    /\ LET i == accept[r].inv IN
         IF invitation[i].rv = accept[r].rv
         THEN /\ invitation' = [invitation EXCEPT ![i] = Used(@, r)]
              /\ accept' = [accept EXCEPT ![r].pc = "register"]
         ELSE /\ accept' = [accept EXCEPT ![r] = AcceptanceIn("refused")]
              /\ UNCHANGED invitation
    /\ UNCHANGED <<now, claim, registry, post, edits>>

\* Defect variant: an existing ClusterIdentity is overwritten.
RegisterIdentityUpsert(r) ==
    /\ accept[r].pc = "register"
    /\ LET a == accept[r] IN
         registry' = [registry EXCEPT ![a.tenant][a.cluster] =
                        [key |-> r, region |-> invitation[a.inv].region, caps |-> a.caps]]
    /\ accept' = [accept EXCEPT ![r].pc = "registered"]
    /\ UNCHANGED <<now, claim, invitation, post, edits>>

\* Defect variant: an invitation without a region registers nothing.
RegisterIdentityNeedsRegion(r) ==
    /\ accept[r].pc = "register"
    /\ LET a == accept[r] IN
         IF registry[a.tenant][a.cluster].key = Nobody /\ invitation[a.inv].region # NoRegion
         THEN /\ registry' = [registry EXCEPT ![a.tenant][a.cluster] =
                                [key |-> r, region |-> invitation[a.inv].region,
                                 caps |-> a.caps]]
              /\ accept' = [accept EXCEPT ![r].pc = "registered"]
         ELSE /\ accept' = [accept EXCEPT ![r].pc = "conflict"]
              /\ UNCHANGED registry
    /\ UNCHANGED <<now, claim, invitation, post, edits>>

\* RegisterIdentity creates the ClusterIdentity with the invitation's region,
\* or answers 409 when one of that name exists.
RegisterIdentity(r) ==
    /\ accept[r].pc = "register"
    /\ LET a == accept[r] IN
         IF registry[a.tenant][a.cluster].key = Nobody
         THEN /\ registry' = [registry EXCEPT ![a.tenant][a.cluster] =
                                [key |-> r, region |-> invitation[a.inv].region,
                                 caps |-> a.caps]]
              /\ accept' = [accept EXCEPT ![r].pc = "registered"]
         ELSE /\ accept' = [accept EXCEPT ![r].pc = "conflict"]
              /\ UNCHANGED registry
    /\ UNCHANGED <<now, claim, invitation, post, edits>>

\* An invalid identity, proof or token, an API error, or the replica stops.
AcceptFails(r) ==
    /\ accept[r].pc \in {"new", "update", "register"}
    /\ accept' = [accept EXCEPT ![r] = AcceptanceIn("failed")]
    /\ UNCHANGED <<now, claim, invitation, registry, post, edits>>

Next ==
    \/ Tick
    \/ \E c \in Claims : \/ \E k \in Clusters, g \in Regions : CreateOnboardingLink(c, k, g)
                         \/ EditClaim(c)
    \/ \E i \in Invitations, t \in Tenants, caps \in SUBSET Capabilities :
          CreateInvitation(i, t, caps)
    \/ \E p \in Posts :
          \/ \E c \in Claims : ConsumeStart(p, c)
          \/ ConsumeRetry(p) \/ ConsumeUpdate(p) \/ ConsumeConflict(p) \/ PostFails(p)
          \/ \E i \in Invitations : IssueInvitation(p, i)
    \/ \E r \in Accepts :
          \/ \E i \in Invitations, t \in Tenants, k \in Clusters, caps \in SUBSET Capabilities :
                AcceptStart(r, i, t, k, caps)
          \/ AcceptUpdate(r) \/ RegisterIdentity(r) \/ AcceptFails(r)

Spec == Init /\ [][Next]_vars

------------------------------------------------------------------------------
(* Properties.                                                             *)

PostStates == {"new", "update", "retry", "invite", "issued", "refused", "failed"}
AcceptStates == {"new", "update", "register", "registered", "conflict", "refused", "failed"}

ClaimSecret ==
    [exists : BOOLEAN, cluster : Clusters \cup {AnyCluster}, region : Regions \cup {NoRegion},
     expires : Nat, usedBy : Posts \cup {Nobody}, rv : Nat]
InvitationSecret ==
    [exists : BOOLEAN, tenant : Tenants, cluster : Clusters \cup {AnyCluster},
     region : Regions \cup {NoRegion}, caps : SUBSET Capabilities, expires : Nat,
     from : Claims \cup {Admin}, usedBy : Accepts \cup {Nobody}, rv : Nat]
ClusterIdentity ==
    [key : Accepts \cup {Nobody}, region : Regions \cup {NoRegion}, caps : SUBSET Capabilities]
PostRequest ==
    [pc : PostStates, claim : Claims \cup {Admin}, at : 0..MaxNow,
     attempts : 0..(MaxAttempts - 1), rv : Nat]
AcceptRequest ==
    [pc : AcceptStates, inv : Invitations \cup {Nobody}, tenant : Tenants,
     cluster : Clusters \cup {AnyCluster}, caps : SUBSET Capabilities, rv : Nat]

\* Every variable keeps its shape, and ConsumeOnboardingClaim makes at most
\* MaxAttempts attempts.
TypeOK ==
    /\ now \in 0..MaxNow
    /\ claim \in [Claims -> ClaimSecret]
    /\ invitation \in [Invitations -> InvitationSecret]
    /\ registry \in [Tenants -> [Clusters -> ClusterIdentity]]
    /\ post \in [Posts -> PostRequest]
    /\ accept \in [Accepts -> AcceptRequest]
    /\ edits \in 0..MaxEdits

\* "Single-use": whatever POSTs race on several replicas, an onboarding claim
\* is consumed by one of them and stays consumed by it.
ClaimToken == INSTANCE OneTimeToken
    WITH Tokens <- Claims, Requests <- Posts, owner <- [c \in Claims |-> claim[c].usedBy]
ClaimsAreSingleUse == ClaimToken!Spec

\* The same for invitations and the acceptances that race for them.
InvitationToken == INSTANCE OneTimeToken
    WITH Tokens <- Invitations, Requests <- Accepts,
         owner <- [i \in Invitations |-> invitation[i].usedBy]
InvitationsAreSingleUse == InvitationToken!Spec

\* A claim is turned into at most one invitation, also when a POST fails half
\* way and another one tries again: an invitation from a claim is the only
\* one, is bound to the claim's cluster and region, and the claim is used.
OneInvitationPerClaim ==
    \A i \in Invitations : invitation[i].from # Admin =>
        LET c == invitation[i].from IN
        /\ claim[c].usedBy # Nobody
        /\ invitation[i].cluster = claim[c].cluster
        /\ invitation[i].region = claim[c].region
        /\ \A j \in Invitations : invitation[j].from = c => j = i

\* An identity is registered only under an invitation that this very request
\* used up, for the invitation's tenant, cluster, region and capabilities, and
\* an invitation admits one identity. Under an onboarding link that is the
\* cluster the link names, in the Hub's tenant, and no other.
RegistrationBacked ==
    \A t \in Tenants, k \in Clusters :
        LET id == registry[t][k] IN
        id.key # Nobody =>
            \E i \in Invitations :
                /\ invitation[i].usedBy = id.key
                /\ invitation[i].tenant = t
                /\ invitation[i].cluster \in {AnyCluster, k}
                /\ id.region = invitation[i].region
                /\ id.caps \subseteq invitation[i].caps
                /\ invitation[i].from # Admin =>
                      t = HubTenant /\ k = claim[invitation[i].from].cluster
                /\ \A u \in Tenants, l \in Clusters :
                      registry[u][l].key = id.key => u = t /\ l = k

\* A registered identity, its key above all, is never replaced: a later
\* registration of the same cluster gets "identity conflict".
FirstRegistrationWins ==
    [][\A t \in Tenants, k \in Clusters :
          registry[t][k].key # Nobody => registry'[t][k] = registry[t][k]]_registry

\* A claim is not used up for nothing: the POST that used it is about to issue
\* its invitation, has issued it, or has failed on the way ("request a new
\* link"). No POST that was refused, or gave up after its conflicts, has used it.
UsedClaimAccounted ==
    \A c \in Claims, p \in Posts : claim[c].usedBy = p =>
        \/ post[p].pc = "invite" /\ post[p].claim = c
        \/ post[p].pc = "issued" /\ \E i \in Invitations : invitation[i].from = c
        \/ post[p].pc = "failed"

\* The same for an invitation: the acceptance that used it is about to register
\* its identity, has registered it, has found the name taken by another one, or
\* has failed. Its record still names the invitation, unless it failed.
UsedInvitationAccounted ==
    \A i \in Invitations, r \in Accepts : invitation[i].usedBy = r =>
        LET a == accept[r]
            key == registry[a.tenant][a.cluster].key IN
        \/ a.pc = "register" /\ a.inv = i
        \/ a.pc = "registered" /\ a.inv = i /\ key = r
        \/ a.pc = "conflict" /\ a.inv = i /\ key \notin {Nobody, r}
        \/ a.pc = "failed"

\* No one-time secret is used up for nothing, be it a claim or the invitation
\* that came of it.
UsedSecretsAccounted == UsedClaimAccounted /\ UsedInvitationAccounted
==============================================================================
