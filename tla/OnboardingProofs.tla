--------------------------- MODULE OnboardingProofs ---------------------------
(***************************************************************************)
(* Proofs, for any number of claims, invitations, requests and replicas,   *)
(* of the safety properties of Onboarding.                                 *)
(***************************************************************************)
EXTENDS Onboarding, TLAPS

\* A Secret that does not exist yet is unused; a claim that is used exists, and
\* one that exists names a cluster; what is issued from a claim is for the Hub.
SecretsInv ==
    /\ \A c \in Claims :
          /\ claim[c].usedBy # Nobody => claim[c].exists
          /\ claim[c].exists => claim[c].cluster \in Clusters
    /\ \A i \in Invitations :
          /\ ~invitation[i].exists => invitation[i].usedBy = Nobody /\ invitation[i].from = Admin
          /\ invitation[i].from # Admin => invitation[i].tenant = HubTenant

\* A POST about to update an unchanged claim is about to be its first user, and
\* a POST about to issue is the claim's user and nothing was issued from it.
PostInv ==
    \A p \in Posts :
        /\ post[p].pc \in {"update", "retry", "invite"} => post[p].claim \in Claims
        /\ post[p].pc = "update" =>
              /\ claim[post[p].claim].exists
              /\ post[p].rv <= claim[post[p].claim].rv
              /\ post[p].rv = claim[post[p].claim].rv => claim[post[p].claim].usedBy = Nobody
        /\ post[p].pc = "invite" =>
              /\ claim[post[p].claim].usedBy = p
              /\ \A i \in Invitations : invitation[i].from # post[p].claim

\* What the request r asks for is what the invitation i allows.
Fits(r, i) ==
    /\ i \in Invitations /\ accept[r].cluster \in Clusters
    /\ invitation[i].exists
    /\ invitation[i].tenant = accept[r].tenant
    /\ invitation[i].cluster \in {AnyCluster, accept[r].cluster}
    /\ accept[r].caps \subseteq invitation[i].caps

\* An acceptance in progress fits its invitation, an unchanged invitation is
\* unused, and only an acceptance that has registered is a key of the registry.
AcceptInv ==
    /\ \A r \in Accepts :
        /\ accept[r].pc \in {"update", "register"} => Fits(r, accept[r].inv)
        /\ accept[r].pc = "update" =>
              /\ accept[r].rv <= invitation[accept[r].inv].rv
              /\ accept[r].rv = invitation[accept[r].inv].rv
                    => invitation[accept[r].inv].usedBy = Nobody
        /\ accept[r].pc = "register" => invitation[accept[r].inv].usedBy = r
    /\ \A t \in Tenants, k \in Clusters :
          registry[t][k].key # Nobody => accept[registry[t][k].key].pc = "registered"

IInv == TypeOK /\ SecretsInv /\ PostInv /\ AcceptInv /\ OneInvitationPerClaim /\ RegistrationBacked

------------------------------------------------------------------------------

\* The initial state satisfies the inductive invariant.
LEMMA InitIInv == Init => IInv
<1> SUFFICES ASSUME Init PROVE IInv
    OBVIOUS
<1> USE ConstantsAssumption
<1> USE DEF Init, NoClaim, NoInvitation, NotRegistered, Post, PostIn, Acceptance, AcceptanceIn
<1>1. TypeOK
    BY DEF TypeOK, PostStates, AcceptStates, MaxAttempts, ClaimSecret, InvitationSecret,
       ClusterIdentity, PostRequest, AcceptRequest
<1>2. SecretsInv
    BY DEF SecretsInv
<1>3. PostInv
    BY DEF PostInv
<1>4. AcceptInv
    BY DEF AcceptInv
<1>5. OneInvitationPerClaim
    BY DEF OneInvitationPerClaim
<1>6. RegistrationBacked
    BY DEF RegistrationBacked
<1>. QED
    BY <1>1, <1>2, <1>3, <1>4, <1>5, <1>6 DEF IInv

------------------------------------------------------------------------------

\* Setting used-at changes the user and the resourceVersion, nothing else.
LEMMA UsedClaim ==
    ASSUME NEW s \in ClaimSecret, NEW p \in Posts
    PROVE  /\ Used(s, p) \in ClaimSecret
           /\ Used(s, p).usedBy = p /\ Used(s, p).rv = s.rv + 1
           /\ Used(s, p).exists = s.exists
           /\ Used(s, p).cluster = s.cluster /\ Used(s, p).region = s.region
<1> DEFINE s1 == [s EXCEPT !.usedBy = p]
<1>1. s1 \in ClaimSecret /\ s.rv + 1 \in Nat
    BY DEF ClaimSecret
<1>2. Used(s, p) = [s1 EXCEPT !.rv = s.rv + 1]
    BY DEF Used, ClaimSecret
<1>3. /\ s1.usedBy = p /\ s1.exists = s.exists
      /\ s1.cluster = s.cluster /\ s1.region = s.region
    BY DEF ClaimSecret
<1> HIDE DEF s1
<1>4. Used(s, p) \in ClaimSecret
    BY <1>1, <1>2 DEF ClaimSecret
<1>. QED
    BY <1>1, <1>2, <1>3, <1>4 DEF ClaimSecret

\* The same for an invitation.
LEMMA UsedInvitation ==
    ASSUME NEW s \in InvitationSecret, NEW r \in Accepts
    PROVE  /\ Used(s, r) \in InvitationSecret
           /\ Used(s, r).usedBy = r /\ Used(s, r).rv = s.rv + 1
           /\ Used(s, r).exists = s.exists /\ Used(s, r).from = s.from
           /\ Used(s, r).tenant = s.tenant /\ Used(s, r).cluster = s.cluster
           /\ Used(s, r).region = s.region /\ Used(s, r).caps = s.caps
<1> DEFINE s1 == [s EXCEPT !.usedBy = r]
<1>1. s1 \in InvitationSecret /\ s.rv + 1 \in Nat
    BY DEF InvitationSecret
<1>2. Used(s, r) = [s1 EXCEPT !.rv = s.rv + 1]
    BY DEF Used, InvitationSecret
<1>3. /\ s1.usedBy = r /\ s1.exists = s.exists /\ s1.from = s.from
      /\ s1.tenant = s.tenant /\ s1.cluster = s.cluster
      /\ s1.region = s.region /\ s1.caps = s.caps
    BY DEF InvitationSecret
<1> HIDE DEF s1
<1>4. Used(s, r) \in InvitationSecret
    BY <1>1, <1>2 DEF InvitationSecret
<1>. QED
    BY <1>1, <1>2, <1>3, <1>4 DEF InvitationSecret

\* Every action preserves the types.
LEMMA TypeStep == IInv /\ [Next]_vars => TypeOK'
<1> SUFFICES ASSUME IInv, [Next]_vars PROVE TypeOK'
    OBVIOUS
<1> USE ConstantsAssumption
<1> USE DEF TypeOK, MaxAttempts
<1>0. TypeOK
    BY DEF IInv
<1>1. CASE UNCHANGED vars
    BY <1>0, <1>1 DEF vars
<1>2. CASE Tick
    BY <1>0, <1>2 DEF Tick
<1>3. ASSUME NEW c \in Claims, NEW k \in Clusters, NEW g \in Regions,
             CreateOnboardingLink(c, k, g)
      PROVE  TypeOK'
    BY <1>0, <1>3 DEF CreateOnboardingLink, ClaimSecret
<1>4. ASSUME NEW c \in Claims, EditClaim(c) PROVE TypeOK'
  <2>1. [claim[c] EXCEPT !.rv = @ + 1] \in ClaimSecret
    BY <1>0 DEF ClaimSecret
  <2>. QED
    BY <1>0, <1>4, <2>1 DEF EditClaim
<1>5. ASSUME NEW i \in Invitations, NEW t \in Tenants, NEW caps \in SUBSET Capabilities,
             CreateInvitation(i, t, caps)
      PROVE  TypeOK'
    BY <1>0, <1>5 DEF CreateInvitation, InvitationSecret
<1>6. ASSUME NEW p \in Posts, NEW c \in Claims, NEW at \in 0..MaxNow,
             NEW n \in 0..(MaxAttempts - 1), ReadClaim(p, c, at, n)
      PROVE  TypeOK'
  <2>1. Post("update", c, at, n, claim[c].rv) \in PostRequest
    BY <1>0, <1>6 DEF Post, PostRequest, PostStates, ClaimSecret
  <2>2. PostIn("refused") \in PostRequest
    BY DEF Post, PostIn, PostRequest, PostStates
  <2>. QED
    BY <1>0, <1>6, <2>1, <2>2 DEF ReadClaim
<1>7. ASSUME NEW p \in Posts, NEW c \in Claims, ConsumeStart(p, c) PROVE TypeOK'
    BY <1>0, <1>6, <1>7 DEF ConsumeStart
<1>8. ASSUME NEW p \in Posts, ConsumeRetry(p) PROVE TypeOK'
  <2>1. post[p].claim \in Claims /\ post[p].at \in 0..MaxNow
        /\ post[p].attempts \in 0..(MaxAttempts - 1)
    BY <1>0, <1>8 DEF ConsumeRetry, IInv, PostInv, PostRequest
  <2>. QED
    BY <1>6, <1>8, <2>1 DEF ConsumeRetry
<1>9. ASSUME NEW p \in Posts, ConsumeUpdate(p) PROVE TypeOK'
  <2> DEFINE c == post[p].claim
  <2>1. c \in Claims
    BY <1>9 DEF ConsumeUpdate, IInv, PostInv
  <2>2. Used(claim[c], p) \in ClaimSecret
    BY <1>0, <2>1, UsedClaim
  <2>3. claim' = [claim EXCEPT ![c] = Used(claim[c], p)]
    BY <1>9 DEF ConsumeUpdate
  <2>4. Post("invite", c, 0, 0, 0) \in PostRequest
    BY <2>1 DEF Post, PostRequest, PostStates
  <2>. QED
    BY <1>0, <1>9, <2>1, <2>2, <2>3, <2>4 DEF ConsumeUpdate
<1>10. ASSUME NEW p \in Posts, ConsumeConflict(p) PROVE TypeOK'
  <2>1. PostIn("refused") \in PostRequest
    BY DEF Post, PostIn, PostRequest, PostStates
  <2>2. post[p].attempts + 1 < MaxAttempts =>
          Post("retry", post[p].claim, post[p].at, post[p].attempts + 1, 0) \in PostRequest
    BY <1>0, <1>10 DEF Post, PostRequest, PostStates
  <2>. QED
    BY <1>0, <1>10, <2>1, <2>2 DEF ConsumeConflict
<1>11. ASSUME NEW p \in Posts, NEW i \in Invitations, IssueInvitation(p, i) PROVE TypeOK'
  <2>1. post[p].claim \in Claims
    BY <1>11 DEF IssueInvitation, IInv, PostInv
  <2>2. PostIn("issued") \in PostRequest
    BY DEF Post, PostIn, PostRequest, PostStates
  <2>. QED
    BY <1>0, <1>11, <2>1, <2>2 DEF IssueInvitation, InvitationSecret, ClaimSecret
<1>12. ASSUME NEW p \in Posts, PostFails(p) PROVE TypeOK'
    BY <1>0, <1>12 DEF PostFails, Post, PostIn, PostStates, PostRequest
<1>13. ASSUME NEW r \in Accepts, NEW i \in Invitations, NEW t \in Tenants, NEW k \in Clusters,
              NEW caps \in SUBSET Capabilities, AcceptStart(r, i, t, k, caps)
       PROVE  TypeOK'
  <2>1. AcceptanceIn("refused") \in AcceptRequest
    BY DEF Acceptance, AcceptanceIn, AcceptRequest, AcceptStates
  <2>2. Acceptance("update", i, t, k, caps, invitation[i].rv) \in AcceptRequest
    BY <1>0, <1>13 DEF Acceptance, AcceptRequest, AcceptStates, InvitationSecret
  <2>. QED
    BY <1>0, <1>13, <2>1, <2>2 DEF AcceptStart
<1>14. ASSUME NEW r \in Accepts, AcceptUpdate(r) PROVE TypeOK'
  <2> DEFINE i == accept[r].inv
  <2>1. i \in Invitations
    BY <1>14 DEF AcceptUpdate, IInv, AcceptInv, Fits
  <2>2. AcceptanceIn("refused") \in AcceptRequest
    BY DEF Acceptance, AcceptanceIn, AcceptRequest, AcceptStates
  <2>3. [accept[r] EXCEPT !.pc = "register"] \in AcceptRequest
    BY <1>0 DEF AcceptRequest, AcceptStates
  <2>4. Used(invitation[i], r) \in InvitationSecret
    BY <1>0, <2>1, UsedInvitation
  <2>5. CASE invitation[i].rv = accept[r].rv
    <3>1. /\ invitation' = [invitation EXCEPT ![i] = Used(invitation[i], r)]
          /\ accept' = [accept EXCEPT ![r] = [accept[r] EXCEPT !.pc = "register"]]
          /\ UNCHANGED <<now, claim, registry, post, edits>>
      BY <1>14, <2>5 DEF AcceptUpdate
    <3>. QED
      BY <1>0, <2>1, <2>3, <2>4, <3>1
  <2>6. CASE invitation[i].rv # accept[r].rv
    BY <1>0, <1>14, <2>2, <2>6 DEF AcceptUpdate
  <2>. QED
    BY <2>5, <2>6
<1>15. ASSUME NEW r \in Accepts, RegisterIdentity(r) PROVE TypeOK'
  <2> DEFINE a == accept[r]
             id == [key |-> r, region |-> invitation[a.inv].region, caps |-> a.caps]
  <2>1. a.inv \in Invitations /\ a.tenant \in Tenants /\ a.cluster \in Clusters
    BY <1>0, <1>15 DEF RegisterIdentity, IInv, AcceptInv, Fits, AcceptRequest
  <2>2. id \in ClusterIdentity
    BY <1>0, <2>1 DEF ClusterIdentity, AcceptRequest, InvitationSecret
  <2>3. [registry EXCEPT ![a.tenant][a.cluster] = id] \in [Tenants -> [Clusters -> ClusterIdentity]]
    BY <1>0, <2>1, <2>2
  <2>4. [a EXCEPT !.pc = "registered"] \in AcceptRequest
        /\ [a EXCEPT !.pc = "conflict"] \in AcceptRequest
    BY <1>0 DEF AcceptRequest, AcceptStates
  <2>5. /\ registry' \in {registry, [registry EXCEPT ![a.tenant][a.cluster] = id]}
        /\ accept' \in {[accept EXCEPT ![r] = [a EXCEPT !.pc = "registered"]],
                        [accept EXCEPT ![r] = [a EXCEPT !.pc = "conflict"]]}
        /\ UNCHANGED <<now, claim, invitation, post, edits>>
    BY <1>15 DEF RegisterIdentity
  <2>6. accept' \in [Accepts -> AcceptRequest]
    BY <1>0, <2>4, <2>5
  <2>. QED
    BY <1>0, <2>3, <2>5, <2>6
<1>16. ASSUME NEW r \in Accepts, AcceptFails(r) PROVE TypeOK'
    BY <1>0, <1>16 DEF AcceptFails, Acceptance, AcceptanceIn, AcceptRequest, AcceptStates
<1>. QED
    BY <1>1, <1>2, <1>3, <1>4, <1>5, <1>7, <1>8, <1>9, <1>10, <1>11, <1>12, <1>13, <1>14,
       <1>15, <1>16 DEF Next

------------------------------------------------------------------------------

\* What a claim Secret can become in one step: nothing, a first creation, an edit, or its use by a POST that read it last.
ClaimChange(c) ==
    \/ claim'[c] = claim[c]
    \/ /\ ~claim[c].exists /\ claim'[c].exists /\ claim'[c].usedBy = Nobody
       /\ claim'[c].cluster \in Clusters
    \/ /\ claim[c].exists
       /\ claim'[c].exists
       /\ claim'[c].cluster = claim[c].cluster /\ claim'[c].region = claim[c].region
       /\ claim'[c].rv = claim[c].rv + 1
       /\ claim[c].usedBy # Nobody => claim'[c].usedBy = claim[c].usedBy

\* What an invitation Secret can become in one step: nothing, a first
\* creation, or its first use.
InvitationChange(i) ==
    \/ invitation'[i] = invitation[i]
    \/ ~invitation[i].exists /\ invitation'[i].exists /\ invitation'[i].usedBy = Nobody
    \/ /\ invitation[i].exists /\ invitation[i].usedBy = Nobody
       /\ invitation'[i].exists
       /\ invitation'[i].tenant = invitation[i].tenant
       /\ invitation'[i].cluster = invitation[i].cluster
       /\ invitation'[i].region = invitation[i].region
       /\ invitation'[i].caps = invitation[i].caps
       /\ invitation'[i].from = invitation[i].from
       /\ invitation'[i].rv = invitation[i].rv + 1

\* A registered identity stays backed while claims and invitations change so.
LEMMA BackedKept ==
    ASSUME IInv, UNCHANGED registry, \A i \in Invitations : InvitationChange(i),
           \A c \in Claims : ClaimChange(c)
    PROVE  RegistrationBacked'
<1> SUFFICES ASSUME NEW t \in Tenants, NEW k \in Clusters, registry[t][k].key # Nobody
             PROVE  \E i \in Invitations :
                       /\ invitation'[i].usedBy = registry[t][k].key
                       /\ invitation'[i].tenant = t
                       /\ invitation'[i].cluster \in {AnyCluster, k}
                       /\ registry[t][k].region = invitation'[i].region
                       /\ registry[t][k].caps \subseteq invitation'[i].caps
                       /\ invitation'[i].from # Admin =>
                             t = HubTenant /\ k = claim'[invitation'[i].from].cluster
                       /\ \A u \in Tenants, l \in Clusters :
                             registry[u][l].key = registry[t][k].key => u = t /\ l = k
    BY DEF RegistrationBacked
<1>1. PICK i \in Invitations :
         /\ invitation[i].usedBy = registry[t][k].key
         /\ invitation[i].tenant = t
         /\ invitation[i].cluster \in {AnyCluster, k}
         /\ registry[t][k].region = invitation[i].region
         /\ registry[t][k].caps \subseteq invitation[i].caps
         /\ invitation[i].from # Admin =>
               t = HubTenant /\ k = claim[invitation[i].from].cluster
         /\ \A u \in Tenants, l \in Clusters :
               registry[u][l].key = registry[t][k].key => u = t /\ l = k
    BY DEF IInv, RegistrationBacked
<1>2. invitation'[i] = invitation[i]
    BY <1>1 DEF IInv, SecretsInv, InvitationChange
<1>3. ASSUME invitation[i].from # Admin
      PROVE  claim'[invitation[i].from].cluster = claim[invitation[i].from].cluster
  <2>1. invitation[i].from \in Claims /\ claim[invitation[i].from].exists
    BY <1>3 DEF IInv, TypeOK, InvitationSecret, SecretsInv, OneInvitationPerClaim
  <2>. QED
    BY <2>1 DEF ClaimChange
<1>. QED
    BY <1>1, <1>2, <1>3

\* A step on claims keeps what is said of the Secrets and the registry.
LEMMA ClaimChangeKeeps ==
    ASSUME IInv, UNCHANGED <<invitation, registry>>, \A c \in Claims : ClaimChange(c)
    PROVE  SecretsInv' /\ OneInvitationPerClaim' /\ RegistrationBacked'
<1>0. TypeOK /\ SecretsInv /\ OneInvitationPerClaim
    BY DEF IInv
<1>1. SecretsInv'
    BY <1>0 DEF SecretsInv, ClaimChange
<1>2. ASSUME NEW i \in Invitations, invitation[i].from # Admin
      PROVE  LET c == invitation[i].from IN
             /\ claim'[c].usedBy # Nobody
             /\ invitation[i].cluster = claim'[c].cluster
             /\ invitation[i].region = claim'[c].region
             /\ \A j \in Invitations : invitation[j].from = c => j = i
  <2> DEFINE c == invitation[i].from
  <2>1. c \in Claims
    BY <1>0, <1>2 DEF TypeOK, InvitationSecret
  <2>2. /\ claim[c].usedBy # Nobody
        /\ invitation[i].cluster = claim[c].cluster
        /\ invitation[i].region = claim[c].region
        /\ \A j \in Invitations : invitation[j].from = c => j = i
    BY <1>0, <1>2 DEF OneInvitationPerClaim
  <2>3. claim[c].exists /\ ClaimChange(c)
    BY <1>0, <2>1, <2>2 DEF SecretsInv
  <2>. QED
    BY <2>2, <2>3 DEF ClaimChange
<1>3. RegistrationBacked'
    BY BackedKept DEF InvitationChange
<1>. QED
    BY <1>1, <1>2, <1>3 DEF OneInvitationPerClaim

\* PostInv for a request q that did not move, when claims change as above.
LEMMA PostKept ==
    ASSUME IInv, TypeOK', \A c \in Claims : ClaimChange(c),
           NEW q \in Posts, post'[q] = post[q],
           \A i \in Invitations :
              invitation'[i].from = invitation[i].from \/ invitation'[i].from # post[q].claim
    PROVE  /\ post'[q].pc \in {"update", "retry", "invite"} => post'[q].claim \in Claims
           /\ post'[q].pc = "update" =>
                 /\ claim'[post'[q].claim].exists
                 /\ post'[q].rv <= claim'[post'[q].claim].rv
                 /\ post'[q].rv = claim'[post'[q].claim].rv
                       => claim'[post'[q].claim].usedBy = Nobody
           /\ post'[q].pc = "invite" =>
                 /\ claim'[post'[q].claim].usedBy = q
                 /\ \A i \in Invitations : invitation'[i].from # post'[q].claim
<1> DEFINE c == post[q].claim
<1>0. TypeOK /\ SecretsInv /\ PostInv
    BY DEF IInv
<1>1. post[q].pc \in {"update", "retry", "invite"} => c \in Claims
    BY <1>0 DEF PostInv
<1>2. post[q].rv \in Nat
    BY <1>0 DEF TypeOK, PostRequest
<1>3. CASE post[q].pc = "update"
  <2>1. c \in Claims /\ claim[c].exists /\ post[q].rv <= claim[c].rv
        /\ (post[q].rv = claim[c].rv => claim[c].usedBy = Nobody)
    BY <1>0, <1>3 DEF PostInv
  <2>2. claim[c].rv \in Nat /\ ClaimChange(c)
    BY <1>0, <2>1 DEF TypeOK, ClaimSecret
  <2>. QED
    BY <1>2, <1>3, <2>1, <2>2 DEF ClaimChange
<1>4. CASE post[q].pc = "invite"
  <2>1. c \in Claims /\ claim[c].usedBy = q /\ q # Nobody
        /\ \A i \in Invitations : invitation[i].from # c
    BY <1>0, <1>4, ConstantsAssumption DEF PostInv
  <2>2. claim[c].exists /\ ClaimChange(c)
    BY <1>0, <2>1 DEF SecretsInv
  <2>. QED
    BY <1>4, <2>1, <2>2 DEF ClaimChange
<1>. QED
    BY <1>1, <1>3, <1>4

\* Steps of the administrator and of other writers on claims.
LEMMA AdminClaimStep ==
    ASSUME IInv, TypeOK', NEW c \in Claims,
           EditClaim(c) \/ \E k \in Clusters, g \in Regions : CreateOnboardingLink(c, k, g)
    PROVE  (SecretsInv /\ PostInv /\ OneInvitationPerClaim /\ RegistrationBacked)'
<1>0. claim \in [Claims -> ClaimSecret]
    BY DEF IInv, TypeOK
<1>1. UNCHANGED <<invitation, post, registry>>
    BY DEF EditClaim, CreateOnboardingLink
<1>2. ASSUME NEW d \in Claims PROVE ClaimChange(d)
  <2>1. CASE EditClaim(c)
    <3>1. claim' = [claim EXCEPT ![c] = [claim[c] EXCEPT !.rv = @ + 1]] /\ claim[c].exists
      BY <2>1 DEF EditClaim
    <3>2. LET s == [claim[c] EXCEPT !.rv = @ + 1] IN
          /\ s.exists = claim[c].exists /\ s.cluster = claim[c].cluster
          /\ s.region = claim[c].region /\ s.rv = claim[c].rv + 1 /\ s.usedBy = claim[c].usedBy
      BY <1>0 DEF ClaimSecret
    <3>. QED
      BY <1>0, <3>1, <3>2 DEF ClaimChange
  <2>2. CASE \E k \in Clusters, g \in Regions : CreateOnboardingLink(c, k, g)
    BY <1>0, <2>2 DEF CreateOnboardingLink, ClaimChange
  <2>. QED
    BY <2>1, <2>2
<1>3. SecretsInv' /\ OneInvitationPerClaim' /\ RegistrationBacked'
    BY <1>1, <1>2, ClaimChangeKeeps
<1>4. PostInv'
    BY <1>1, <1>2, PostKept DEF PostInv
<1>. QED
    BY <1>3, <1>4

\* Steps of a POST that change only its locals.
LEMMA PostLocalStep ==
    ASSUME IInv, TypeOK', NEW p \in Posts,
           \/ \E c \in Claims : ConsumeStart(p, c)
           \/ ConsumeRetry(p) \/ ConsumeConflict(p) \/ PostFails(p)
    PROVE  (SecretsInv /\ PostInv /\ OneInvitationPerClaim /\ RegistrationBacked)'
<1>0. TypeOK /\ PostInv
    BY DEF IInv
<1>1. UNCHANGED <<claim, invitation, registry>>
    BY DEF ConsumeStart, ConsumeRetry, ReadClaim, ConsumeConflict, PostFails
<1>2. SecretsInv' /\ OneInvitationPerClaim' /\ RegistrationBacked'
    BY <1>1, ClaimChangeKeeps DEF ClaimChange
<1>3. \/ post' = [post EXCEPT ![p] = PostIn("refused")]
      \/ post' = [post EXCEPT ![p] = PostIn("failed")]
      \/ \E c \in Claims : \E at, n :
            /\ Consumable(c, at)
            /\ post' = [post EXCEPT ![p] = Post("update", c, at, n, claim[c].rv)]
      \/ \E c \in Claims : \E at, n : post' = [post EXCEPT ![p] = Post("retry", c, at, n, 0)]
  <2>1. CASE \E c \in Claims : ConsumeStart(p, c)
    BY <2>1 DEF ConsumeStart, ReadClaim
  <2>2. CASE ConsumeRetry(p)
    BY <1>0, <2>2 DEF ConsumeRetry, ReadClaim, PostInv
  <2>3. CASE ConsumeConflict(p)
    BY <1>0, <2>3 DEF ConsumeConflict, PostInv
  <2>4. CASE PostFails(p)
    BY <2>4 DEF PostFails
  <2>. QED
    BY <2>1, <2>2, <2>3, <2>4
<1>4. \A c \in Claims : claim[c].rv \in Nat
    BY <1>0 DEF TypeOK, ClaimSecret
<1>5. /\ post'[p].pc \in {"update", "retry", "invite"} => post'[p].claim \in Claims
      /\ post'[p].pc = "update" =>
            /\ claim[post'[p].claim].exists
            /\ post'[p].rv = claim[post'[p].claim].rv
            /\ claim[post'[p].claim].usedBy = Nobody
      /\ post'[p].pc # "invite"
    BY <1>0, <1>3 DEF TypeOK, Post, PostIn, Consumable
<1>6. \A q \in Posts : q # p => post'[q] = post[q]
    BY <1>0, <1>3 DEF TypeOK
<1>7. PostInv'
    BY <1>0, <1>1, <1>4, <1>5, <1>6 DEF PostInv
<1>. QED
    BY <1>2, <1>7

\* The Update of a POST whose read is still current: the first use.
LEMMA ConsumeUpdateStep ==
    ASSUME IInv, TypeOK', NEW p \in Posts, ConsumeUpdate(p)
    PROVE  (SecretsInv /\ PostInv /\ OneInvitationPerClaim /\ RegistrationBacked)'
<1> DEFINE c == post[p].claim
<1>0. TypeOK /\ PostInv
    BY DEF IInv
<1>1. c \in Claims /\ claim[c].exists /\ claim[c].usedBy = Nobody
    BY <1>0 DEF ConsumeUpdate, PostInv
<1>2. /\ claim' = [claim EXCEPT ![c] = Used(claim[c], p)]
      /\ post' = [post EXCEPT ![p] = Post("invite", c, 0, 0, 0)]
      /\ UNCHANGED <<invitation, registry>>
    BY DEF ConsumeUpdate
<1>3. claim'[c] = Used(claim[c], p) /\ \A d \in Claims : d # c => claim'[d] = claim[d]
    BY <1>0, <1>1, <1>2 DEF TypeOK
<1>4. claim[c] \in ClaimSecret
    BY <1>0, <1>1 DEF TypeOK
<1>5. \A d \in Claims : ClaimChange(d)
    BY <1>1, <1>3, <1>4, UsedClaim DEF ClaimChange
<1>6. SecretsInv' /\ OneInvitationPerClaim' /\ RegistrationBacked'
    BY <1>2, <1>5, ClaimChangeKeeps
<1>7. \A i \in Invitations : invitation[i].from # c
    BY <1>1, ConstantsAssumption DEF IInv, OneInvitationPerClaim
<1>8. /\ post'[p].pc = "invite" /\ post'[p].claim = c
      /\ claim'[c].usedBy = p
      /\ \A q \in Posts : q # p => post'[q] = post[q]
    BY <1>0, <1>2, <1>3, <1>4, UsedClaim DEF TypeOK, Post
<1>9. PostInv'
    BY <1>1, <1>2, <1>5, <1>7, <1>8, PostKept DEF PostInv
<1>. QED
    BY <1>6, <1>9

------------------------------------------------------------------------------

\* AcceptInv for a request q that did not move.
LEMMA AcceptKept ==
    ASSUME IInv, TypeOK', \A i \in Invitations : InvitationChange(i),
           NEW q \in Accepts, accept'[q] = accept[q]
    PROVE  /\ accept'[q].pc \in {"update", "register"} => Fits(q, accept[q].inv)'
           /\ accept'[q].pc = "update" =>
                 /\ accept'[q].rv <= invitation'[accept'[q].inv].rv
                 /\ accept'[q].rv = invitation'[accept'[q].inv].rv
                       => invitation'[accept'[q].inv].usedBy = Nobody
           /\ accept'[q].pc = "register" => invitation'[accept'[q].inv].usedBy = q
<1> DEFINE i == accept[q].inv
<1>0. TypeOK /\ AcceptInv
    BY DEF IInv
<1>1. ASSUME accept[q].pc \in {"update", "register"} PROVE i \in Invitations /\ Fits(q, i)
    BY <1>0, <1>1 DEF AcceptInv, Fits
<1>2. ASSUME accept[q].pc \in {"update", "register"} PROVE Fits(q, i)'
    BY <1>1, <1>2 DEF Fits, InvitationChange
<1>3. ASSUME accept[q].pc = "update"
      PROVE  accept[q].rv <= invitation'[i].rv
             /\ (accept[q].rv = invitation'[i].rv => invitation'[i].usedBy = Nobody)
  <2>1. i \in Invitations /\ invitation[i].exists
    BY <1>1, <1>3 DEF Fits
  <2>2. accept[q].rv \in Nat /\ invitation[i].rv \in Nat
    BY <1>0, <2>1 DEF TypeOK, AcceptRequest, InvitationSecret
  <2>3. accept[q].rv <= invitation[i].rv
        /\ (accept[q].rv = invitation[i].rv => invitation[i].usedBy = Nobody)
    BY <1>0, <1>3 DEF AcceptInv
  <2>. QED
    BY <2>1, <2>2, <2>3 DEF InvitationChange
<1>4. ASSUME accept[q].pc = "register" PROVE invitation'[i].usedBy = q
    BY <1>0, <1>1, <1>4, ConstantsAssumption DEF AcceptInv, Fits, InvitationChange
<1>. QED
    BY <1>2, <1>3, <1>4

\* A new invitation, by the administrator or from a consumed claim.
LEMMA NewInvitationStep ==
    ASSUME IInv, TypeOK', NEW i \in Invitations,
           \/ \E t \in Tenants, caps \in SUBSET Capabilities : CreateInvitation(i, t, caps)
           \/ \E p \in Posts : IssueInvitation(p, i)
    PROVE  (SecretsInv /\ PostInv /\ AcceptInv /\ OneInvitationPerClaim /\ RegistrationBacked)'
<1>0. TypeOK /\ SecretsInv /\ PostInv /\ AcceptInv /\ OneInvitationPerClaim
    BY DEF IInv
<1>1. UNCHANGED <<claim, registry, accept>> /\ ~invitation[i].exists
    BY DEF CreateInvitation, IssueInvitation
<1>2. /\ invitation'[i].exists /\ invitation'[i].usedBy = Nobody
      /\ \A j \in Invitations : j # i => invitation'[j] = invitation[j]
  <2>1. CASE \E t \in Tenants, caps \in SUBSET Capabilities : CreateInvitation(i, t, caps)
    BY <1>0, <2>1 DEF TypeOK, CreateInvitation
  <2>2. CASE \E p \in Posts : IssueInvitation(p, i)
    BY <1>0, <2>2 DEF TypeOK, IssueInvitation
  <2>. QED
    BY <2>1, <2>2
<1>3. \A j \in Invitations : InvitationChange(j)
    BY <1>1, <1>2 DEF InvitationChange
<1>4. SecretsInv'
  <2>1. invitation'[i].from # Admin => invitation'[i].tenant = HubTenant
    <3>1. CASE \E t \in Tenants, caps \in SUBSET Capabilities : CreateInvitation(i, t, caps)
      BY <1>0, <3>1 DEF TypeOK, CreateInvitation
    <3>2. CASE \E p \in Posts : IssueInvitation(p, i)
      BY <1>0, <3>2 DEF TypeOK, IssueInvitation
    <3>. QED
      BY <3>1, <3>2
  <2>. QED
    BY <1>0, <1>1, <1>2, <2>1 DEF SecretsInv
<1>5. \A c \in Claims : ClaimChange(c)
    BY <1>1 DEF ClaimChange
<1>6. AcceptInv'
    BY <1>0, <1>1, <1>3, AcceptKept DEF AcceptInv
<1>7. RegistrationBacked'
    BY <1>1, <1>3, <1>5, BackedKept
<1>8. CASE \E t \in Tenants, caps \in SUBSET Capabilities : CreateInvitation(i, t, caps)
  <2>1. invitation'[i].from = Admin /\ UNCHANGED post
    BY <1>0, <1>8 DEF TypeOK, CreateInvitation
  <2>2. OneInvitationPerClaim'
    BY <1>0, <1>1, <1>2, <2>1 DEF OneInvitationPerClaim
  <2>3. invitation[i].from = Admin
    BY <1>0, <1>1 DEF SecretsInv
  <2>4. \A j \in Invitations : invitation'[j].from = invitation[j].from
    BY <1>2, <2>1, <2>3
  <2>5. PostInv'
    BY <1>5, <2>1, <2>4, PostKept DEF PostInv
  <2>. QED
    BY <1>4, <1>6, <1>7, <2>2, <2>5
<1>9. ASSUME NEW p \in Posts, IssueInvitation(p, i)
      PROVE  (PostInv /\ OneInvitationPerClaim)'
  <2> DEFINE c == post[p].claim
  <2>1. c \in Claims /\ claim[c].usedBy = p /\ p # Nobody
        /\ \A j \in Invitations : invitation[j].from # c
    BY <1>0, <1>9, ConstantsAssumption DEF IssueInvitation, PostInv
  <2>2. /\ invitation'[i].from = c
        /\ invitation'[i].cluster = claim[c].cluster
        /\ invitation'[i].region = claim[c].region
        /\ post' = [post EXCEPT ![p] = PostIn("issued")]
    BY <1>0, <1>9 DEF TypeOK, IssueInvitation
  <2>3. post'[p].pc = "issued" /\ \A q \in Posts : q # p => post'[q] = post[q]
    BY <1>0, <2>2 DEF TypeOK, PostIn, Post
  <2>4. ASSUME NEW q \in Posts, q # p, post[q].pc = "invite" PROVE post[q].claim # c
    BY <1>0, <2>1, <2>4 DEF PostInv
  <2>5. ASSUME NEW q \in Posts, q # p
        PROVE  /\ post'[q].pc \in {"update", "retry", "invite"} => post'[q].claim \in Claims
               /\ post'[q].pc = "update" =>
                     /\ claim'[post'[q].claim].exists
                     /\ post'[q].rv <= claim'[post'[q].claim].rv
                     /\ post'[q].rv = claim'[post'[q].claim].rv
                           => claim'[post'[q].claim].usedBy = Nobody
               /\ post'[q].pc = "invite" =>
                     /\ claim'[post'[q].claim].usedBy = q
                     /\ \A j \in Invitations : invitation'[j].from # post'[q].claim
    BY <1>0, <1>1, <1>2, <2>2, <2>3, <2>4, <2>5 DEF PostInv
  <2>6. PostInv'
    BY <2>3, <2>5 DEF PostInv
  <2>7. OneInvitationPerClaim'
    <3>1. ASSUME NEW j \in Invitations, invitation'[j].from # Admin
          PROVE  LET d == invitation'[j].from IN
                 /\ claim[d].usedBy # Nobody
                 /\ invitation'[j].cluster = claim[d].cluster
                 /\ invitation'[j].region = claim[d].region
                 /\ \A l \in Invitations : invitation'[l].from = d => l = j
      <4>1. CASE j = i
        BY <1>2, <2>1, <2>2, <4>1
      <4>2. CASE j # i
        <5>1. invitation'[j] = invitation[j] /\ invitation[j].from # c
          BY <1>2, <2>1, <4>2
        <5>2. LET d == invitation[j].from IN
              /\ claim[d].usedBy # Nobody
              /\ invitation[j].cluster = claim[d].cluster
              /\ invitation[j].region = claim[d].region
              /\ \A l \in Invitations : invitation[l].from = d => l = j
          BY <1>0, <3>1, <5>1 DEF OneInvitationPerClaim
        <5>. QED
          BY <1>2, <2>2, <5>1, <5>2
      <4>. QED
        BY <4>1, <4>2
    <3>. QED
      BY <1>1, <3>1 DEF OneInvitationPerClaim
  <2>. QED
    BY <2>6, <2>7
<1>. QED
    BY <1>4, <1>6, <1>7, <1>8, <1>9

\* Steps of an acceptance.
LEMMA AcceptStep ==
    ASSUME IInv, TypeOK', NEW r \in Accepts,
           \/ \E i \in Invitations, t \in Tenants, k \in Clusters, caps \in SUBSET Capabilities :
                 AcceptStart(r, i, t, k, caps)
           \/ AcceptUpdate(r) \/ RegisterIdentity(r) \/ AcceptFails(r)
    PROVE  (SecretsInv /\ PostInv /\ AcceptInv /\ OneInvitationPerClaim /\ RegistrationBacked)'
<1>0. TypeOK /\ SecretsInv /\ PostInv /\ AcceptInv /\ OneInvitationPerClaim /\ RegistrationBacked
    BY DEF IInv
<1>1. UNCHANGED <<claim, post>> /\ \A c \in Claims : ClaimChange(c)
    BY DEF AcceptStart, AcceptUpdate, RegisterIdentity, AcceptFails, ClaimChange
<1>2. accept[r].pc # "registered" /\ \A q \in Accepts : q # r => accept'[q] = accept[q]
    BY <1>0 DEF TypeOK, AcceptStart, AcceptUpdate, RegisterIdentity, AcceptFails
<1>3. \A t \in Tenants, k \in Clusters : registry[t][k].key # r
    BY <1>0, <1>2, ConstantsAssumption DEF AcceptInv
<1>4. ASSUME UNCHANGED registry
      PROVE  \A t \in Tenants, k \in Clusters :
                registry'[t][k].key # Nobody => accept'[registry'[t][k].key].pc = "registered"
  <2>1. ASSUME NEW t \in Tenants, NEW k \in Clusters, registry[t][k].key # Nobody
        PROVE  accept'[registry[t][k].key].pc = "registered"
    <3>1. registry[t][k].key \in Accepts
      BY <1>0, <2>1 DEF TypeOK, ClusterIdentity
    <3>. QED
      BY <1>0, <1>2, <1>3, <2>1, <3>1 DEF AcceptInv
  <2>. QED
    BY <1>1, <1>4, <2>1
<1>5. ASSUME UNCHANGED invitation PROVE (SecretsInv /\ PostInv /\ OneInvitationPerClaim)'
    BY <1>0, <1>1, <1>5 DEF SecretsInv, PostInv, OneInvitationPerClaim
<1>6. ASSUME UNCHANGED invitation PROVE \A i \in Invitations : InvitationChange(i)
    BY <1>6 DEF InvitationChange
<1>7. ASSUME NEW i \in Invitations, NEW t \in Tenants, NEW k \in Clusters,
             NEW caps \in SUBSET Capabilities, AcceptStart(r, i, t, k, caps)
      PROVE  AcceptInv' /\ RegistrationBacked'
  <2>1. UNCHANGED <<invitation, registry>>
    BY <1>7 DEF AcceptStart
  <2>2. \A q \in Accepts : q # r => accept'[q] = accept[q]
    BY <1>2
  <2>3. CASE ~Acceptable(i, t, k, caps)
    <3>1. accept'[r].pc = "refused"
      BY <1>0, <1>7, <2>3 DEF AcceptStart, TypeOK, AcceptanceIn, Acceptance
    <3>. QED
      BY <1>1, <1>4, <1>6, <2>1, <2>2, <3>1, AcceptKept, BackedKept DEF AcceptInv
  <2>4. CASE Acceptable(i, t, k, caps)
    <3>1. /\ accept'[r].pc = "update" /\ accept'[r].inv = i /\ accept'[r].tenant = t
          /\ accept'[r].cluster = k /\ accept'[r].caps = caps
          /\ accept'[r].rv = invitation[i].rv
      BY <1>0, <1>7, <2>4 DEF AcceptStart, TypeOK, Acceptance
    <3>2. Fits(r, i)'
      BY <2>1, <2>4, <3>1 DEF Fits, Acceptable, CapabilitiesAllowed
    <3>3. invitation[i].usedBy = Nobody /\ invitation[i].rv \in Nat
      BY <1>0, <2>4 DEF Acceptable, TypeOK, InvitationSecret
    <3>. QED
      BY <1>1, <1>4, <1>6, <2>1, <2>2, <3>1, <3>2, <3>3, AcceptKept, BackedKept DEF AcceptInv
  <2>. QED
    BY <2>3, <2>4
<1>8. CASE AcceptFails(r)
  <2>1. UNCHANGED <<invitation, registry>> /\ accept'[r].pc = "failed"
    BY <1>0, <1>8 DEF AcceptFails, TypeOK, AcceptanceIn, Acceptance
  <2>. QED
    BY <1>1, <1>2, <1>4, <1>5, <1>6, <2>1, AcceptKept, BackedKept DEF AcceptInv
<1>9. CASE AcceptUpdate(r) /\ invitation[accept[r].inv].rv # accept[r].rv
  <2>1. UNCHANGED <<invitation, registry>> /\ accept'[r].pc = "refused"
    BY <1>0, <1>9 DEF AcceptUpdate, TypeOK, AcceptanceIn, Acceptance
  <2>. QED
    BY <1>1, <1>2, <1>4, <1>5, <1>6, <2>1, AcceptKept, BackedKept DEF AcceptInv
<1>10. CASE AcceptUpdate(r) /\ invitation[accept[r].inv].rv = accept[r].rv
  <2> DEFINE i == accept[r].inv
  <2>1. i \in Invitations /\ Fits(r, i) /\ invitation[i].usedBy = Nobody
    BY <1>0, <1>10 DEF AcceptUpdate, AcceptInv, Fits
  <2>2. /\ invitation' = [invitation EXCEPT ![i] = Used(invitation[i], r)]
        /\ accept' = [accept EXCEPT ![r] = [accept[r] EXCEPT !.pc = "register"]]
        /\ UNCHANGED registry
    BY <1>10 DEF AcceptUpdate
  <2>3. invitation[i] \in InvitationSecret
    BY <1>0, <2>1 DEF TypeOK
  <2>4. invitation'[i] = Used(invitation[i], r)
        /\ \A j \in Invitations : j # i => invitation'[j] = invitation[j]
    BY <1>0, <2>1, <2>2 DEF TypeOK
  <2>5. \A j \in Invitations : InvitationChange(j)
    BY <2>1, <2>3, <2>4, UsedInvitation DEF InvitationChange, Fits
  <2>6. /\ accept'[r].pc = "register" /\ accept'[r].inv = i
        /\ accept'[r].tenant = accept[r].tenant /\ accept'[r].cluster = accept[r].cluster
        /\ accept'[r].caps = accept[r].caps
    BY <1>0, <2>2 DEF TypeOK, AcceptRequest
  <2>7. invitation'[i].usedBy = r /\ Fits(r, i)'
    BY <2>1, <2>3, <2>4, <2>6, UsedInvitation DEF Fits
  <2>8. AcceptInv'
    BY <1>1, <1>2, <1>4, <2>2, <2>5, <2>6, <2>7, AcceptKept DEF AcceptInv
  <2>9. RegistrationBacked'
    BY <1>1, <2>2, <2>5, BackedKept
  <2>10. \A j \in Invitations :
            /\ invitation'[j].from = invitation[j].from
            /\ invitation'[j].cluster = invitation[j].cluster
            /\ invitation'[j].region = invitation[j].region
            /\ invitation'[j].tenant = invitation[j].tenant
            /\ ~invitation'[j].exists => invitation'[j] = invitation[j]
    BY <2>1, <2>3, <2>4, UsedInvitation DEF Fits
  <2>11. SecretsInv' /\ OneInvitationPerClaim' /\ PostInv'
    BY <1>0, <1>1, <2>10 DEF SecretsInv, OneInvitationPerClaim, PostInv
  <2>. QED
    BY <2>8, <2>9, <2>11
<1>11. CASE RegisterIdentity(r)
  <2> DEFINE a == accept[r]
             id == [key |-> r, region |-> invitation[a.inv].region, caps |-> a.caps]
  <2>1. Fits(r, a.inv) /\ invitation[a.inv].usedBy = r /\ a.tenant \in Tenants
    BY <1>0, <1>11 DEF RegisterIdentity, AcceptInv, TypeOK, AcceptRequest
  <2>2. UNCHANGED invitation
    BY <1>11 DEF RegisterIdentity
  <2>3. CASE registry[a.tenant][a.cluster].key # Nobody
    <3>1. UNCHANGED registry /\ accept' = [accept EXCEPT ![r] = [a EXCEPT !.pc = "conflict"]]
      BY <1>11, <2>3 DEF RegisterIdentity
    <3>2. accept'[r].pc = "conflict"
      BY <1>0, <3>1 DEF TypeOK, AcceptRequest
    <3>. QED
      BY <1>1, <1>2, <1>4, <1>5, <1>6, <2>2, <3>1, <3>2, AcceptKept, BackedKept DEF AcceptInv
  <2>4. CASE registry[a.tenant][a.cluster].key = Nobody
    <3>1. /\ registry' = [registry EXCEPT ![a.tenant][a.cluster] = id]
          /\ accept' = [accept EXCEPT ![r] = [a EXCEPT !.pc = "registered"]]
      BY <1>11, <2>4 DEF RegisterIdentity
    <3>2. accept'[r].pc = "registered"
      BY <1>0, <3>1 DEF TypeOK, AcceptRequest
    <3>3. /\ registry'[a.tenant][a.cluster] = id
          /\ \A t \in Tenants, k \in Clusters :
                t # a.tenant \/ k # a.cluster => registry'[t][k] = registry[t][k]
      BY <1>0, <2>1, <3>1 DEF TypeOK, Fits
    <3>4. ASSUME NEW t \in Tenants, NEW k \in Clusters, registry'[t][k].key # Nobody
          PROVE  accept'[registry'[t][k].key].pc = "registered"
      <4>1. CASE t = a.tenant /\ k = a.cluster
        BY <3>2, <3>3, <4>1
      <4>2. CASE t # a.tenant \/ k # a.cluster
        <5>1. registry[t][k].key \in Accepts \ {r}
          BY <1>0, <1>3, <3>3, <3>4, <4>2 DEF TypeOK, ClusterIdentity
        <5>. QED
          BY <1>0, <1>2, <3>3, <3>4, <4>2, <5>1 DEF AcceptInv
      <4>. QED
        BY <4>1, <4>2
    <3>5. AcceptInv'
      BY <1>2, <1>6, <2>2, <3>2, <3>4, AcceptKept DEF AcceptInv
    <3>6. ASSUME NEW t \in Tenants, NEW k \in Clusters, registry'[t][k].key # Nobody
          PROVE  \E i \in Invitations :
                    /\ invitation[i].usedBy = registry'[t][k].key
                    /\ invitation[i].tenant = t
                    /\ invitation[i].cluster \in {AnyCluster, k}
                    /\ registry'[t][k].region = invitation[i].region
                    /\ registry'[t][k].caps \subseteq invitation[i].caps
                    /\ invitation[i].from # Admin =>
                          t = HubTenant /\ k = claim[invitation[i].from].cluster
                    /\ \A u \in Tenants, l \in Clusters :
                          registry'[u][l].key = registry'[t][k].key => u = t /\ l = k
      <4>1. CASE t = a.tenant /\ k = a.cluster
        <5>1. ASSUME invitation[a.inv].from # Admin
              PROVE  t = HubTenant /\ k = claim[invitation[a.inv].from].cluster
          <6> DEFINE c == invitation[a.inv].from
          <6>1. c \in Claims
            BY <1>0, <2>1, <5>1 DEF TypeOK, InvitationSecret, Fits
          <6>2. invitation[a.inv].cluster = claim[c].cluster /\ claim[c].exists
            BY <1>0, <2>1, <5>1, <6>1 DEF OneInvitationPerClaim, SecretsInv, Fits
          <6>3. claim[c].cluster \in Clusters /\ invitation[a.inv].tenant = HubTenant
            BY <1>0, <2>1, <5>1, <6>1, <6>2 DEF SecretsInv, Fits
          <6>. QED
            BY <2>1, <4>1, <6>2, <6>3, ConstantsAssumption DEF Fits
        <5>. QED
          BY <1>3, <2>1, <3>3, <4>1, <5>1 DEF Fits
      <4>2. CASE t # a.tenant \/ k # a.cluster
        <5>1. registry'[t][k] = registry[t][k] /\ registry[t][k].key # r
          BY <1>3, <3>3, <4>2
        <5>2. PICK i \in Invitations :
                 /\ invitation[i].usedBy = registry[t][k].key
                 /\ invitation[i].tenant = t
                 /\ invitation[i].cluster \in {AnyCluster, k}
                 /\ registry[t][k].region = invitation[i].region
                 /\ registry[t][k].caps \subseteq invitation[i].caps
                 /\ invitation[i].from # Admin =>
                       t = HubTenant /\ k = claim[invitation[i].from].cluster
                 /\ \A u \in Tenants, l \in Clusters :
                       registry[u][l].key = registry[t][k].key => u = t /\ l = k
          BY <1>0, <3>6, <5>1 DEF RegistrationBacked
        <5>3. \A u \in Tenants, l \in Clusters :
                 registry'[u][l].key = registry'[t][k].key => u = t /\ l = k
          BY <3>3, <5>1, <5>2
        <5>. QED
          BY <5>1, <5>2, <5>3
      <4>. QED
        BY <4>1, <4>2
    <3>7. RegistrationBacked'
      BY <1>1, <2>2, <3>6 DEF RegistrationBacked
    <3>. QED
      BY <1>5, <2>2, <3>5, <3>7
  <2>. QED
    BY <2>3, <2>4
<1>. QED
  <2>1. CASE \E i \in Invitations, t \in Tenants, k \in Clusters, caps \in SUBSET Capabilities :
               AcceptStart(r, i, t, k, caps)
    <3>1. UNCHANGED invitation
      BY <2>1 DEF AcceptStart
    <3>. QED
      BY <1>5, <1>7, <2>1, <3>1
  <2>. QED
    BY <1>8, <1>9, <1>10, <1>11, <2>1

------------------------------------------------------------------------------

\* Every step preserves the inductive invariant.
LEMMA NextIInv == IInv /\ [Next]_vars => IInv'
<1> SUFFICES ASSUME IInv, [Next]_vars PROVE IInv'
    OBVIOUS
<1>0. TypeOK'
    BY TypeStep
<1>1. CASE UNCHANGED vars \/ Tick
  <2>1. UNCHANGED <<claim, invitation, registry, post, accept>>
    BY <1>1 DEF vars, Tick
  <2>2. SecretsInv' /\ PostInv' /\ OneInvitationPerClaim'
    BY <2>1 DEF IInv, SecretsInv, PostInv, OneInvitationPerClaim
  <2>3. AcceptInv' /\ RegistrationBacked'
    BY <2>1 DEF IInv, AcceptInv, Fits, RegistrationBacked
  <2>. QED
    BY <1>0, <2>2, <2>3 DEF IInv
<1>2. ASSUME UNCHANGED <<invitation, registry, accept>> PROVE AcceptInv'
    BY <1>2 DEF IInv, AcceptInv, Fits
<1>3. ASSUME NEW c \in Claims,
             EditClaim(c) \/ \E k \in Clusters, g \in Regions : CreateOnboardingLink(c, k, g)
      PROVE  IInv'
  <2>1. UNCHANGED <<invitation, registry, accept>>
    BY <1>3 DEF EditClaim, CreateOnboardingLink
  <2>. QED
    BY <1>0, <1>2, <1>3, <2>1, AdminClaimStep DEF IInv
<1>4. ASSUME NEW i \in Invitations,
             \/ \E t \in Tenants, caps \in SUBSET Capabilities : CreateInvitation(i, t, caps)
             \/ \E p \in Posts : IssueInvitation(p, i)
      PROVE  IInv'
    BY <1>0, <1>4, NewInvitationStep DEF IInv
<1>5. ASSUME NEW p \in Posts,
             \/ \E c \in Claims : ConsumeStart(p, c)
             \/ ConsumeRetry(p) \/ ConsumeConflict(p) \/ PostFails(p)
      PROVE  IInv'
  <2>1. UNCHANGED <<invitation, registry, accept>>
    BY <1>5 DEF ConsumeStart, ConsumeRetry, ReadClaim, ConsumeConflict, PostFails
  <2>. QED
    BY <1>0, <1>2, <1>5, <2>1, PostLocalStep DEF IInv
<1>6. ASSUME NEW p \in Posts, ConsumeUpdate(p) PROVE IInv'
  <2>1. UNCHANGED <<invitation, registry, accept>>
    BY <1>6 DEF ConsumeUpdate
  <2>. QED
    BY <1>0, <1>2, <1>6, <2>1, ConsumeUpdateStep DEF IInv
<1>7. ASSUME NEW r \in Accepts,
             \/ \E i \in Invitations, t \in Tenants, k \in Clusters, caps \in SUBSET Capabilities :
                   AcceptStart(r, i, t, k, caps)
             \/ AcceptUpdate(r) \/ RegisterIdentity(r) \/ AcceptFails(r)
      PROVE  IInv'
    BY <1>0, <1>7, AcceptStep DEF IInv
<1>. QED
    BY <1>1, <1>3, <1>4, <1>5, <1>6, <1>7 DEF Next

\* The inductive invariant holds in every reachable state.
THEOREM InductiveInvariant == Spec => []IInv
    BY InitIInv, NextIInv, PTL DEF Spec

\* Type correctness; ConsumeOnboardingClaim makes at most three attempts.
THEOREM TypeCorrect == Spec => []TypeOK
    BY InductiveInvariant, PTL DEF IInv

\* However many POSTs race and fail, consumeOnboarding issues at most one
\* invitation per claim, bound to the claim's cluster and region.
THEOREM OneInvitationPerClaimHolds == Spec => []OneInvitationPerClaim
    BY InductiveInvariant, PTL DEF IInv

\* acceptInvitation registers an identity only within an invitation that the
\* same request used up.
THEOREM RegistrationBackedHolds == Spec => []RegistrationBacked
    BY InductiveInvariant, PTL DEF IInv

\* The accounts of a claim survive every step: only its user moves on, and no
\* step takes an invitation away.
LEMMA ClaimAccountsStep ==
    ASSUME IInv, IInv', UsedClaimAccounted, [Next]_vars
    PROVE  UsedClaimAccounted'
<1> DEFINE Account(c, p) ==
        \/ post[p].pc = "invite" /\ post[p].claim = c
        \/ post[p].pc = "issued" /\ \E i \in Invitations : invitation[i].from = c
        \/ post[p].pc = "failed"
<1> SUFFICES ASSUME NEW c \in Claims, NEW p \in Posts, claim'[c].usedBy = p
             PROVE  Account(c, p)'
    BY DEF UsedClaimAccounted
<1>0. TypeOK /\ SecretsInv /\ PostInv /\ p # Nobody
    BY ConstantsAssumption DEF IInv
<1>1. claim[c].usedBy = p => Account(c, p)
    BY DEF UsedClaimAccounted
<1>2. ASSUME UNCHANGED <<claim, post>>,
             \A i \in Invitations : invitation[i].from = c => invitation'[i].from = c
      PROVE  Account(c, p)'
    BY <1>1, <1>2
<1>3. CASE UNCHANGED vars \/ Tick
    BY <1>2, <1>3 DEF vars, Tick
<1>4. ASSUME NEW d \in Claims,
             EditClaim(d) \/ \E k \in Clusters, g \in Regions : CreateOnboardingLink(d, k, g)
      PROVE  Account(c, p)'
  <2>1. UNCHANGED <<invitation, post>>
    BY <1>4 DEF EditClaim, CreateOnboardingLink
  <2>2. claim[c].usedBy = p
    BY <1>0, <1>4 DEF EditClaim, CreateOnboardingLink, TypeOK, ClaimSecret
  <2>. QED
    BY <1>1, <2>1, <2>2
<1>5. ASSUME NEW i \in Invitations, NEW t \in Tenants, NEW caps \in SUBSET Capabilities,
             CreateInvitation(i, t, caps)
      PROVE  Account(c, p)'
  <2>1. ASSUME NEW j \in Invitations, invitation[j].from = c PROVE invitation'[j].from = c
    BY <1>0, <1>5, <2>1, ConstantsAssumption DEF CreateInvitation, SecretsInv, TypeOK
  <2>2. UNCHANGED <<claim, post>>
    BY <1>5 DEF CreateInvitation
  <2>. QED
    BY <1>2, <2>1, <2>2
<1>6. ASSUME NEW q \in Posts, NEW i \in Invitations, IssueInvitation(q, i) PROVE Account(c, p)'
  <2>1. /\ claim' = claim
        /\ post' = [post EXCEPT ![q] = PostIn("issued")]
        /\ invitation'[i].from = post[q].claim
        /\ \A j \in Invitations : j # i => invitation'[j] = invitation[j]
    BY <1>0, <1>6 DEF IssueInvitation, TypeOK
  <2>2. CASE p = q
    <3>1. post'[p].pc = "issued"
      BY <1>0, <2>1, <2>2 DEF TypeOK, PostIn, Post
    <3>2. post[p].claim = c
      BY <1>1, <1>6, <2>1, <2>2 DEF IssueInvitation
    <3>. QED
      BY <2>1, <2>2, <3>1, <3>2
  <2>3. CASE p # q
    <3>1. post'[p] = post[p]
      BY <1>0, <2>1, <2>3 DEF TypeOK
    <3>2. ASSUME NEW j \in Invitations, invitation[j].from = c PROVE invitation'[j].from = c
      BY <1>0, <1>6, <2>1, <3>2, ConstantsAssumption DEF IssueInvitation, SecretsInv
    <3>. QED
      BY <1>1, <2>1, <3>1, <3>2
  <2>. QED
    BY <2>2, <2>3
<1>7. ASSUME NEW q \in Posts,
             \/ \E d \in Claims : ConsumeStart(q, d)
             \/ ConsumeRetry(q) \/ ConsumeConflict(q)
      PROVE  Account(c, p)'
  <2>1. UNCHANGED <<claim, invitation>> /\ post[q].pc \in {"new", "retry", "update"}
    BY <1>7 DEF ConsumeStart, ConsumeRetry, ReadClaim, ConsumeConflict
  <2>2. p # q
    BY <1>1, <2>1
  <2>3. post'[p] = post[p]
    BY <1>0, <1>7, <2>2 DEF ConsumeStart, ConsumeRetry, ReadClaim, ConsumeConflict, TypeOK
  <2>. QED
    BY <1>1, <2>1, <2>3
<1>8. ASSUME NEW q \in Posts, PostFails(q) PROVE Account(c, p)'
  <2>1. UNCHANGED <<claim, invitation>> /\ post' = [post EXCEPT ![q] = PostIn("failed")]
    BY <1>8 DEF PostFails
  <2>2. CASE p = q
    BY <1>0, <2>1, <2>2 DEF TypeOK, PostIn, Post
  <2>3. CASE p # q
    BY <1>0, <1>1, <2>1, <2>3 DEF TypeOK
  <2>. QED
    BY <2>2, <2>3
<1>9. ASSUME NEW q \in Posts, ConsumeUpdate(q) PROVE Account(c, p)'
  <2> DEFINE d == post[q].claim
  <2>1. /\ d \in Claims /\ post[q].pc = "update"
        /\ claim' = [claim EXCEPT ![d] = Used(claim[d], q)]
        /\ post' = [post EXCEPT ![q] = Post("invite", d, 0, 0, 0)]
        /\ UNCHANGED invitation
    BY <1>0, <1>9 DEF ConsumeUpdate, PostInv
  <2>2. claim[d] \in ClaimSecret /\ claim'[d] = Used(claim[d], q)
        /\ post'[q].pc = "invite" /\ post'[q].claim = d
    BY <1>0, <2>1 DEF TypeOK, Post
  <2>3. CASE c = d
    <3>1. p = q
      BY <2>2, <2>3, UsedClaim
    <3>. QED
      BY <2>2, <2>3, <3>1
  <2>4. CASE c # d
    <3>1. claim'[c] = claim[c]
      BY <1>0, <2>1, <2>4 DEF TypeOK
    <3>2. p # q
      BY <1>1, <2>1, <3>1
    <3>3. post'[p] = post[p]
      BY <1>0, <2>1, <3>2 DEF TypeOK
    <3>. QED
      BY <1>1, <2>1, <3>1, <3>3
  <2>. QED
    BY <2>3, <2>4
<1>10. ASSUME NEW r \in Accepts,
              \/ \E i \in Invitations, t \in Tenants, k \in Clusters, caps \in SUBSET Capabilities :
                    AcceptStart(r, i, t, k, caps)
              \/ AcceptUpdate(r) \/ RegisterIdentity(r) \/ AcceptFails(r)
       PROVE  Account(c, p)'
  <2>1. UNCHANGED <<claim, post>>
    BY <1>10 DEF AcceptStart, AcceptUpdate, RegisterIdentity, AcceptFails
  <2>2. CASE UNCHANGED invitation
    BY <1>2, <2>1, <2>2
  <2>3. CASE AcceptUpdate(r)
    <3>1. ASSUME NEW j \in Invitations PROVE invitation'[j].from = invitation[j].from
      <4>1. invitation[j] \in InvitationSecret
        BY <1>0 DEF TypeOK
      <4>2. invitation'[j] = invitation[j] \/ invitation'[j] = Used(invitation[j], r)
        BY <1>0, <2>3 DEF AcceptUpdate, TypeOK
      <4>. QED
        BY <4>1, <4>2, UsedInvitation
    <3>. QED
      BY <1>2, <2>1, <3>1
  <2>. QED
    BY <1>10, <2>2, <2>3 DEF AcceptStart, RegisterIdentity, AcceptFails
<1>. QED
    BY <1>3, <1>4, <1>5, <1>6, <1>7, <1>8, <1>9, <1>10 DEF Next

\* A POST that was refused has not used a claim: consumeOnboarding uses one up
\* only for the invitation that follows.
THEOREM UsedClaimAccountedHolds == Spec => []UsedClaimAccounted
<1>1. Init => UsedClaimAccounted
  <2>1. ASSUME Init, NEW c \in Claims PROVE claim[c].usedBy = Nobody
    BY <2>1 DEF Init, NoClaim
  <2>. QED
    BY <2>1, ConstantsAssumption DEF UsedClaimAccounted
<1>. QED
    BY <1>1, InductiveInvariant, ClaimAccountsStep, PTL DEF Spec

\* An acceptance that is past its Update asked for a cluster of its own.
NamesInv ==
    \A r \in Accepts : accept[r].pc \in {"registered", "conflict"} => accept[r].cluster \in Clusters

\* The accounts of an invitation survive every step: registrations are never
\* replaced, and a request that registers has used one invitation.
LEMMA InvitationAccountsStep ==
    ASSUME IInv, IInv', NamesInv, UsedInvitationAccounted, [Next]_vars
    PROVE  NamesInv' /\ UsedInvitationAccounted'
<1> DEFINE Key(r) == registry[accept[r].tenant][accept[r].cluster].key
           Account(i, r) ==
        \/ accept[r].pc = "register" /\ accept[r].inv = i
        \/ accept[r].pc = "registered" /\ accept[r].inv = i /\ Key(r) = r
        \/ accept[r].pc = "conflict" /\ accept[r].inv = i /\ Key(r) \notin {Nobody, r}
        \/ accept[r].pc = "failed"
<1>0. TypeOK /\ AcceptInv /\ Nobody \notin Accepts
    BY ConstantsAssumption DEF IInv
<1>1. \A i \in Invitations, r \in Accepts : invitation[i].usedBy = r => Account(i, r)
    BY DEF UsedInvitationAccounted
<1> DEFINE Goal == /\ NamesInv'
                   /\ \A i \in Invitations, r \in Accepts : invitation'[i].usedBy = r => Account(i, r)'
<1> SUFFICES Goal
    BY DEF UsedInvitationAccounted
<1>2. ASSUME UNCHANGED <<accept, registry>>,
             \A i \in Invitations : invitation'[i].usedBy \in {invitation[i].usedBy, Nobody}
      PROVE  Goal
    BY <1>0, <1>1, <1>2 DEF NamesInv
<1>3. CASE UNCHANGED vars \/ Tick
    BY <1>2, <1>3 DEF vars, Tick
<1>4. ASSUME NEW c \in Claims,
             EditClaim(c) \/ \E k \in Clusters, g \in Regions : CreateOnboardingLink(c, k, g)
      PROVE  Goal
    BY <1>2, <1>4 DEF EditClaim, CreateOnboardingLink
<1>5. ASSUME NEW i \in Invitations,
             \/ \E t \in Tenants, caps \in SUBSET Capabilities : CreateInvitation(i, t, caps)
             \/ \E p \in Posts : IssueInvitation(p, i)
      PROVE  Goal
  <2>1. UNCHANGED <<accept, registry>>
    BY <1>5 DEF CreateInvitation, IssueInvitation
  <2>2. /\ invitation'[i].usedBy = Nobody
        /\ \A j \in Invitations : j # i => invitation'[j] = invitation[j]
    <3>1. CASE \E t \in Tenants, caps \in SUBSET Capabilities : CreateInvitation(i, t, caps)
      BY <1>0, <3>1 DEF TypeOK, CreateInvitation
    <3>2. CASE \E p \in Posts : IssueInvitation(p, i)
      BY <1>0, <3>2 DEF TypeOK, IssueInvitation
    <3>. QED
      BY <1>5, <3>1, <3>2
  <2>. QED
    BY <1>2, <2>1, <2>2
<1>6. ASSUME NEW p \in Posts,
             \/ \E c \in Claims : ConsumeStart(p, c)
             \/ ConsumeRetry(p) \/ ConsumeConflict(p) \/ ConsumeUpdate(p) \/ PostFails(p)
      PROVE  Goal
    BY <1>2, <1>6 DEF ConsumeStart, ConsumeRetry, ReadClaim, ConsumeConflict, ConsumeUpdate, PostFails
<1>7. ASSUME NEW r \in Accepts,
             \/ \E i \in Invitations, t \in Tenants, k \in Clusters, caps \in SUBSET Capabilities :
                   AcceptStart(r, i, t, k, caps)
             \/ AcceptFails(r)
             \/ AcceptUpdate(r) /\ accept'[r].pc # "register"
      PROVE  Goal
  <2>1. /\ UNCHANGED <<invitation, registry>>
        /\ accept'[r].pc \in {"update", "refused", "failed"}
        /\ \A q \in Accepts : q # r => accept'[q] = accept[q]
        /\ accept'[r].pc = "failed" \/ accept[r].pc \in {"new", "update"}
    <3>1. CASE \E i \in Invitations, t \in Tenants, k \in Clusters, caps \in SUBSET Capabilities :
                  AcceptStart(r, i, t, k, caps)
      BY <1>0, <3>1 DEF AcceptStart, TypeOK, AcceptanceIn, Acceptance
    <3>2. CASE AcceptFails(r)
      BY <1>0, <3>2 DEF AcceptFails, TypeOK, AcceptanceIn, Acceptance
    <3>3. CASE AcceptUpdate(r) /\ accept'[r].pc # "register"
      <4>1. accept' # [accept EXCEPT ![r].pc = "register"]
        BY <1>0, <3>3 DEF TypeOK, AcceptRequest
      <4>. QED
        BY <1>0, <3>3, <4>1 DEF AcceptUpdate, TypeOK, AcceptanceIn, Acceptance
    <3>. QED
      BY <1>7, <3>1, <3>2, <3>3
  <2>2. NamesInv'
    BY <2>1 DEF NamesInv
  <2>3. ASSUME NEW i \in Invitations, NEW q \in Accepts, invitation'[i].usedBy = q
        PROVE  Account(i, q)'
    <3>1. Account(i, q)
      BY <1>1, <2>1, <2>3
    <3>2. CASE q = r
      BY <2>1, <3>1, <3>2
    <3>3. CASE q # r
      BY <2>1, <3>1, <3>3
    <3>. QED
      BY <3>2, <3>3
  <2>. QED
    BY <2>2, <2>3
<1>8. ASSUME NEW r \in Accepts, AcceptUpdate(r), accept'[r].pc = "register" PROVE Goal
  <2> DEFINE i == accept[r].inv
  <2>1. /\ accept[r].pc = "update" /\ i \in Invitations
        /\ invitation' = [invitation EXCEPT ![i] = Used(invitation[i], r)]
        /\ accept' = [accept EXCEPT ![r] = [accept[r] EXCEPT !.pc = "register"]]
        /\ UNCHANGED registry
    BY <1>0, <1>8 DEF AcceptUpdate, AcceptInv, Fits, TypeOK, AcceptanceIn, Acceptance
  <2>2. accept'[r].inv = i /\ \A q \in Accepts : q # r => accept'[q] = accept[q]
    BY <1>0, <2>1 DEF TypeOK, AcceptRequest
  <2>3. invitation'[i].usedBy = r /\ \A j \in Invitations : j # i => invitation'[j] = invitation[j]
    BY <1>0, <2>1, UsedInvitation DEF TypeOK
  <2>4. NamesInv'
    BY <1>8, <2>2 DEF NamesInv
  <2>5. ASSUME NEW j \in Invitations, NEW q \in Accepts, invitation'[j].usedBy = q
        PROVE  Account(j, q)'
    <3>1. CASE j = i
      BY <1>8, <2>2, <2>3, <2>5, <3>1
    <3>2. CASE j # i
      <4>1. Account(j, q)
        BY <1>1, <2>3, <2>5, <3>2
      <4>2. q # r
        BY <2>1, <4>1
      <4>. QED
        BY <2>1, <2>2, <4>1, <4>2
    <3>. QED
      BY <3>1, <3>2
  <2>. QED
    BY <2>4, <2>5
<1>9. ASSUME NEW r \in Accepts, RegisterIdentity(r) PROVE Goal
  <2> DEFINE t == accept[r].tenant
             k == accept[r].cluster
  <2>1. /\ accept[r].pc = "register" /\ t \in Tenants /\ k \in Clusters
        /\ UNCHANGED invitation
    BY <1>0, <1>9 DEF RegisterIdentity, AcceptInv, Fits, TypeOK, AcceptRequest
  <2>2. /\ accept'[r].pc \in {"registered", "conflict"}
        /\ accept'[r].inv = accept[r].inv /\ accept'[r].tenant = t /\ accept'[r].cluster = k
        /\ \A q \in Accepts : q # r => accept'[q] = accept[q]
    BY <1>0, <1>9 DEF RegisterIdentity, TypeOK, AcceptRequest
  <2>3. \A u \in Tenants, l \in Clusters :
           registry[u][l].key # Nobody => registry'[u][l] = registry[u][l]
    BY <1>0, <1>9, <2>1 DEF RegisterIdentity, TypeOK
  <2>4. \/ accept'[r].pc = "registered" /\ registry'[t][k].key = r
        \/ accept'[r].pc = "conflict" /\ registry'[t][k].key \notin {Nobody, r}
    <3>1. CASE registry[t][k].key = Nobody
      BY <1>0, <1>9, <2>1, <3>1 DEF RegisterIdentity, TypeOK, AcceptRequest
    <3>2. CASE registry[t][k].key # Nobody
      <4>1. registry[t][k].key # r
        BY <1>0, <2>1, <3>2 DEF AcceptInv
      <4>2. accept'[r].pc = "conflict" /\ UNCHANGED registry
        BY <1>0, <1>9, <3>2 DEF RegisterIdentity, TypeOK, AcceptRequest
      <4>. QED
        BY <3>2, <4>1, <4>2
    <3>. QED
      BY <3>1, <3>2
  <2>5. NamesInv'
    BY <2>1, <2>2 DEF NamesInv
  <2>6. ASSUME NEW j \in Invitations, NEW q \in Accepts, invitation'[j].usedBy = q
        PROVE  Account(j, q)'
    <3>1. Account(j, q)
      BY <1>1, <2>1, <2>6
    <3>2. CASE q = r
      BY <2>1, <2>2, <2>4, <3>1, <3>2
    <3>3. CASE q # r
      <4>1. accept'[q] = accept[q]
        BY <2>2, <3>3
      <4>2. ASSUME accept[q].pc \in {"registered", "conflict"}
            PROVE  Key(q) # Nobody => Key(q)' = Key(q)
        <5>1. accept[q].tenant \in Tenants /\ accept[q].cluster \in Clusters
          BY <1>0, <4>2 DEF NamesInv, TypeOK, AcceptRequest
        <5>. QED
          BY <2>3, <4>1, <5>1
      <4>3. q # Nobody
        BY <1>0
      <4>. QED
        BY <3>1, <4>1, <4>2, <4>3
    <3>. QED
      BY <3>2, <3>3
  <2>. QED
    BY <2>5, <2>6
<1> HIDE DEF Goal
<1>. QED
  <2>1. ASSUME NEW r \in Accepts, AcceptUpdate(r) PROVE Goal
    BY <1>7, <1>8, <2>1
  <2>. QED
    BY <1>3, <1>4, <1>5, <1>6, <1>7, <1>9, <2>1 DEF Next

\* An acceptance that was refused has not used an invitation, and one that has
\* registered is in the registry for good.
THEOREM UsedInvitationAccountedHolds == Spec => []UsedInvitationAccounted
<1>1. Init => NamesInv /\ UsedInvitationAccounted
  <2>1. ASSUME Init, NEW i \in Invitations PROVE invitation[i].usedBy = Nobody
    BY <2>1 DEF Init, NoInvitation
  <2>2. ASSUME Init, NEW r \in Accepts PROVE accept[r].pc = "new"
    BY <2>2 DEF Init, AcceptanceIn, Acceptance
  <2>. QED
    BY <2>1, <2>2, ConstantsAssumption DEF NamesInv, UsedInvitationAccounted
<1>. QED
    BY <1>1, InductiveInvariant, InvitationAccountsStep, PTL DEF Spec

\* Neither a claim nor an invitation is used up for nothing: what used it is at
\* work on what it was used for, has done it, or has failed.
THEOREM UsedSecretsAccountedHolds == Spec => []UsedSecretsAccounted
    BY UsedClaimAccountedHolds, UsedInvitationAccountedHolds, PTL DEF UsedSecretsAccounted

\* RegisterIdentity never replaces an identity.
THEOREM FirstRegistrationWinsHolds == Spec => FirstRegistrationWins
<1> DEFINE Wins == \A t \in Tenants, k \in Clusters :
                      registry[t][k].key # Nobody => registry'[t][k] = registry[t][k]
<1>1. ASSUME IInv, [Next]_vars PROVE Wins \/ UNCHANGED registry
  <2>1. ASSUME NEW r \in Accepts, RegisterIdentity(r) PROVE Wins \/ UNCHANGED registry
    <3>1. accept[r].tenant \in Tenants /\ accept[r].cluster \in Clusters
      BY <1>1, <2>1 DEF RegisterIdentity, IInv, AcceptInv, Fits, TypeOK, AcceptRequest
    <3>. QED
      BY <1>1, <2>1, <3>1 DEF RegisterIdentity, IInv, TypeOK
  <2>2. ASSUME NEW r \in Accepts,
               \/ \E i \in Invitations, t \in Tenants, k \in Clusters, caps \in SUBSET Capabilities :
                     AcceptStart(r, i, t, k, caps)
               \/ AcceptUpdate(r) \/ AcceptFails(r)
        PROVE  UNCHANGED registry
    BY <2>2 DEF AcceptStart, AcceptUpdate, AcceptFails
  <2>. QED
    BY <1>1, <2>1, <2>2 DEF Next, vars, Tick, EditClaim, CreateOnboardingLink, CreateInvitation,
       ConsumeStart, ConsumeRetry, ReadClaim, ConsumeUpdate, ConsumeConflict, IssueInvitation,
       PostFails
<1>2. IInv /\ [Next]_vars => [Wins]_registry
    BY <1>1
<1>. QED
    BY <1>2, InductiveInvariant, PTL DEF Spec, FirstRegistrationWins

\* A step leaves all claims with their users, or one POST redeems one claim.
LEMMA ClaimTokenStep ==
    ASSUME IInv, [Next]_vars
    PROVE  [ClaimToken!Next]_([c \in Claims |-> claim[c].usedBy])
<1> DEFINE users == [c \in Claims |-> claim[c].usedBy]
<1>0. TypeOK
    BY DEF IInv
<1>1. ASSUME \A c \in Claims : claim'[c].usedBy = claim[c].usedBy PROVE UNCHANGED users
    BY <1>1
<1>2. ASSUME NEW p \in Posts, ConsumeUpdate(p) PROVE ClaimToken!Next
  <2> DEFINE c == post[p].claim
  <2>1. c \in Claims /\ claim[c].usedBy = Nobody
    BY <1>2 DEF ConsumeUpdate, IInv, PostInv
  <2>2. claim' = [claim EXCEPT ![c] = Used(claim[c], p)]
    BY <1>2 DEF ConsumeUpdate
  <2>3. claim'[c].usedBy = p /\ \A d \in Claims : d # c => claim'[d] = claim[d]
    BY <1>0, <2>1, <2>2, UsedClaim DEF TypeOK
  <2>4. users' = [users EXCEPT ![c] = p]
    BY <2>1, <2>3
  <2>5. users[c] = Nobody
    BY <2>1
  <2>. QED
    BY <2>1, <2>4, <2>5 DEF ClaimToken!Next, ClaimToken!Redeem
<1>3. ASSUME NEW c \in Claims, EditClaim(c)
      PROVE  \A d \in Claims : claim'[d].usedBy = claim[d].usedBy
  <2>1. claim' = [claim EXCEPT ![c] = [claim[c] EXCEPT !.rv = @ + 1]]
    BY <1>3 DEF EditClaim
  <2>2. [claim[c] EXCEPT !.rv = @ + 1].usedBy = claim[c].usedBy
    BY <1>0 DEF TypeOK, ClaimSecret
  <2>. QED
    BY <1>0, <2>1, <2>2 DEF TypeOK
<1>4. ASSUME NEW c \in Claims, NEW k \in Clusters, NEW g \in Regions,
             CreateOnboardingLink(c, k, g)
      PROVE  \A d \in Claims : claim'[d].usedBy = claim[d].usedBy
  <2>1. claim[c].usedBy = Nobody
    BY <1>4 DEF CreateOnboardingLink, IInv, SecretsInv
  <2>. QED
    BY <1>0, <1>4, <2>1 DEF CreateOnboardingLink, TypeOK
<1>5. ASSUME UNCHANGED claim PROVE UNCHANGED users
    BY <1>1, <1>5
<1>. QED
  <2>1. ASSUME NEW r \in Accepts,
               \/ \E i \in Invitations, t \in Tenants, k \in Clusters, caps \in SUBSET Capabilities :
                     AcceptStart(r, i, t, k, caps)
               \/ AcceptUpdate(r) \/ RegisterIdentity(r) \/ AcceptFails(r)
        PROVE  UNCHANGED claim
    BY <2>1 DEF AcceptStart, AcceptUpdate, RegisterIdentity, AcceptFails
  <2>2. ASSUME NEW p \in Posts,
               \/ \E c \in Claims : ConsumeStart(p, c)
               \/ ConsumeRetry(p) \/ ConsumeConflict(p) \/ PostFails(p)
               \/ \E i \in Invitations : IssueInvitation(p, i)
        PROVE  UNCHANGED claim
    BY <2>2 DEF ConsumeStart, ConsumeRetry, ReadClaim, ConsumeConflict, PostFails, IssueInvitation
  <2>3. ASSUME NEW i \in Invitations, NEW t \in Tenants, NEW caps \in SUBSET Capabilities,
               CreateInvitation(i, t, caps)
        PROVE  UNCHANGED claim
    BY <2>3 DEF CreateInvitation
  <2>4. CASE UNCHANGED vars \/ Tick
    BY <1>5, <2>4 DEF vars, Tick
  <2>. QED
    BY <1>1, <1>2, <1>3, <1>4, <1>5, <2>1, <2>2, <2>3, <2>4 DEF Next

\* Onboarding claims implement OneTimeToken, whatever races for them.
THEOREM ClaimsAreSingleUseHolds == Spec => ClaimsAreSingleUse
<1>1. Init => ClaimToken!Init
    BY DEF Init, NoClaim, ClaimToken!Init
<1>2. IInv /\ [Next]_vars => [ClaimToken!Next]_([c \in Claims |-> claim[c].usedBy])
    BY ClaimTokenStep
<1>. QED
    BY <1>1, <1>2, InductiveInvariant, PTL DEF Spec, ClaimsAreSingleUse, ClaimToken!Spec

\* A step leaves all invitations with their users, or one acceptance redeems
\* one invitation.
LEMMA InvitationTokenStep ==
    ASSUME IInv, [Next]_vars
    PROVE  [InvitationToken!Next]_([i \in Invitations |-> invitation[i].usedBy])
<1> DEFINE users == [i \in Invitations |-> invitation[i].usedBy]
<1>0. TypeOK
    BY DEF IInv
<1>1. ASSUME \A i \in Invitations : invitation'[i].usedBy = invitation[i].usedBy
      PROVE  UNCHANGED users
    BY <1>1
<1>2. ASSUME NEW r \in Accepts, AcceptUpdate(r), invitation[accept[r].inv].rv = accept[r].rv
      PROVE  InvitationToken!Next
  <2> DEFINE i == accept[r].inv
  <2>1. i \in Invitations /\ invitation[i].usedBy = Nobody
    BY <1>2 DEF AcceptUpdate, IInv, AcceptInv, Fits
  <2>2. invitation' = [invitation EXCEPT ![i] = Used(invitation[i], r)]
    BY <1>2 DEF AcceptUpdate
  <2>3. invitation'[i].usedBy = r
        /\ \A j \in Invitations : j # i => invitation'[j] = invitation[j]
    BY <1>0, <2>1, <2>2, UsedInvitation DEF TypeOK
  <2>4. users' = [users EXCEPT ![i] = r]
    BY <2>1, <2>3
  <2>5. users[i] = Nobody
    BY <2>1
  <2>. QED
    BY <2>1, <2>4, <2>5 DEF InvitationToken!Next, InvitationToken!Redeem
<1>3. ASSUME NEW i \in Invitations,
             \/ \E t \in Tenants, caps \in SUBSET Capabilities : CreateInvitation(i, t, caps)
             \/ \E p \in Posts : IssueInvitation(p, i)
      PROVE  \A j \in Invitations : invitation'[j].usedBy = invitation[j].usedBy
  <2>1. invitation[i].usedBy = Nobody
    BY <1>3 DEF CreateInvitation, IssueInvitation, IInv, SecretsInv
  <2>2. CASE \E t \in Tenants, caps \in SUBSET Capabilities : CreateInvitation(i, t, caps)
    BY <1>0, <2>1, <2>2 DEF CreateInvitation, TypeOK
  <2>3. CASE \E p \in Posts : IssueInvitation(p, i)
    BY <1>0, <2>1, <2>3 DEF IssueInvitation, TypeOK
  <2>. QED
    BY <1>3, <2>2, <2>3
<1>4. ASSUME UNCHANGED invitation PROVE UNCHANGED users
    BY <1>1, <1>4
<1>. QED
  <2>1. ASSUME NEW r \in Accepts,
               \/ \E i \in Invitations, t \in Tenants, k \in Clusters, caps \in SUBSET Capabilities :
                     AcceptStart(r, i, t, k, caps)
               \/ RegisterIdentity(r) \/ AcceptFails(r)
               \/ AcceptUpdate(r) /\ invitation[accept[r].inv].rv # accept[r].rv
        PROVE  UNCHANGED invitation
    BY <2>1 DEF AcceptStart, AcceptUpdate, RegisterIdentity, AcceptFails
  <2>2. ASSUME NEW p \in Posts,
               \/ \E c \in Claims : ConsumeStart(p, c)
               \/ ConsumeRetry(p) \/ ConsumeUpdate(p) \/ ConsumeConflict(p) \/ PostFails(p)
        PROVE  UNCHANGED invitation
    BY <2>2 DEF ConsumeStart, ConsumeRetry, ReadClaim, ConsumeUpdate, ConsumeConflict, PostFails
  <2>3. ASSUME NEW c \in Claims,
               EditClaim(c) \/ \E k \in Clusters, g \in Regions : CreateOnboardingLink(c, k, g)
        PROVE  UNCHANGED invitation
    BY <2>3 DEF EditClaim, CreateOnboardingLink
  <2>4. CASE UNCHANGED vars \/ Tick
    BY <1>4, <2>4 DEF vars, Tick
  <2>. QED
    BY <1>1, <1>2, <1>3, <1>4, <2>1, <2>2, <2>3, <2>4 DEF Next

\* Invitations implement OneTimeToken, whatever acceptances race for them.
THEOREM InvitationsAreSingleUseHolds == Spec => InvitationsAreSingleUse
<1>1. Init => InvitationToken!Init
    BY DEF Init, NoInvitation, InvitationToken!Init
<1>2. IInv /\ [Next]_vars => [InvitationToken!Next]_([i \in Invitations |-> invitation[i].usedBy])
    BY InvitationTokenStep
<1>. QED
    BY <1>1, <1>2, InductiveInvariant, PTL DEF Spec, InvitationsAreSingleUse, InvitationToken!Spec
==============================================================================
