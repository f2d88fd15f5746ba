------------------------------- MODULE Peering -------------------------------
(***************************************************************************)
(* One Peer object of the Hub: the pairing of a local and a remote cluster *)
(* identity, which two owners confirm and the administrator edits.         *)
(*                                                                         *)
(*  - Every 15 seconds an agent sends one peer.bundle.confirm per entry of *)
(*    its PEER_CONFIRMATIONS; ConfirmPeerBundle reads the Peer, reads the  *)
(*    other member's ClusterIdentity, compares digests and sets one flag   *)
(*    of the Peer's status (sovereign_store.go).                           *)
(*  - Every hub replica runs reconcilePeers: list, compute, write the      *)
(*    status (sovereign_reconciler.go).                                    *)
(*  - The administrator suspends, resumes and re-points the Peer.          *)
(*                                                                         *)
(* Each is a sequence of API-server calls that only the resourceVersion    *)
(* guards. The API server does not change an object, nor its               *)
(* resourceVersion, on a write that changes nothing. A ClusterIdentity is  *)
(* created once (Onboarding), so its bundle digest is written here as the  *)
(* identity itself. A member has one confirmation in flight: another one   *)
(* would set the same flag.                                                *)
(***************************************************************************)
EXTENDS Naturals

CONSTANTS
    Identities,     \* cluster identities of the tenant, the names a Peer may use
    Owners,         \* those of them whose clusters may register, with an owner
    Local, Remote,  \* the members the Peer is created with
    Reconcilers,    \* hub replicas, one reconciler each
    NoIdentity,     \* a confirmation without an identity read
    MaxEdits,       \* bound: suspensions, resumptions and re-pointings
    MaxRepoints     \* bound: re-pointings among them

ASSUME ConstantsAssumption ==
    /\ Local \in Identities /\ Remote \in Identities /\ Local # Remote
    /\ Owners \subseteq Identities
    /\ NoIdentity \notin Identities
    /\ MaxEdits \in Nat /\ MaxRepoints \in Nat

VARIABLES
    registered,     \* identities with a ClusterIdentity on the Hub
    trusts,         \* trusts[i]: digests the owner of i put in PEER_CONFIRMATIONS, ever
    peer,           \* the Peer: spec, generation, status, resourceVersion
    request,        \* request[i]: the peer.bundle.confirm message of i being handled
    reconciler,     \* reconciler[r]: the status it is about to write
    repoints        \* number of times the administrator re-pointed the Peer

vars == <<registered, trusts, peer, request, reconciler, repoints>>

Sides == {"local", "remote"}

NewStatus == [confirmed |-> [side \in Sides |-> FALSE], state |-> "none", observed |-> 0]
NoRequest == [pc |-> "idle", side |-> "local", digest |-> NoIdentity,
              expected |-> NoIdentity, status |-> NewStatus, rv |-> 0]
IdleReconciler == [pc |-> "idle", status |-> NewStatus, rv |-> 0]

Init ==
    /\ registered = {}
    /\ trusts = [i \in Identities |-> {}]
    /\ peer = [local |-> Local, remote |-> Remote, suspended |-> FALSE, gen |-> 1,
               status |-> NewStatus, rv |-> 0]
    /\ request = [i \in Identities |-> NoRequest]
    /\ reconciler = [r \in Reconcilers |-> IdleReconciler]
    /\ repoints = 0

\* UpdateStatus replaces the whole status; a write of what is there is no change.
Written(status) == IF status = peer.status THEN peer
                   ELSE [local |-> peer.local, remote |-> peer.remote,
                         suspended |-> peer.suspended, gen |-> peer.gen,
                         status |-> status, rv |-> peer.rv + 1]

\* A spec edit starts a new generation and leaves the status alone.
Edited(remote, suspended) ==
    [local |-> peer.local, remote |-> remote, suspended |-> suspended,
     gen |-> peer.gen + 1, status |-> peer.status, rv |-> peer.rv + 1]

------------------------------------------------------------------------------
(* Owners and the administrator.                                           *)

\* acceptInvitation has registered the identity.
Register(i) ==
    /\ i \in Owners \ registered
    /\ registered' = registered \cup {i}
    /\ UNCHANGED <<trusts, peer, request, reconciler, repoints>>

\* The owner of i, who checked j's digest out of band, configures it.
Trust(i, j) ==
    /\ i \in Owners
    /\ j \notin trusts[i] \cup {i}
    /\ trusts' = [trusts EXCEPT ![i] = @ \cup {j}]
    /\ UNCHANGED <<registered, peer, request, reconciler, repoints>>

SetSuspended ==
    /\ peer.gen <= MaxEdits
    /\ peer' = Edited(peer.remote, ~peer.suspended)
    /\ UNCHANGED <<registered, trusts, request, reconciler, repoints>>

\* Another remoteIdentityRef; the status subresource is not touched.
Repoint(i) ==
    /\ peer.gen <= MaxEdits
    /\ repoints < MaxRepoints
    /\ i \notin {peer.local, peer.remote}
    /\ peer' = Edited(i, peer.suspended)
    /\ repoints' = repoints + 1
    /\ UNCHANGED <<registered, trusts, request, reconciler>>

------------------------------------------------------------------------------
(* ConfirmPeerBundle.                                                      *)

\* The flag a member sets. The local reference is compared first.
SideOf(i) == IF i = peer.local THEN "local" ELSE "remote"
OtherMember(i) == IF i = peer.local THEN peer.remote ELSE peer.local

\* The Get of the Peer, and the membership check. The message has passed the
\* control channel, so its issuer is registered.
ConfirmGet(i, digest) ==
    /\ request[i].pc = "idle"
    /\ i \in registered
    /\ digest \in trusts[i]
    /\ i \in {peer.local, peer.remote}
    /\ request' = [request EXCEPT ![i] =
                     [pc |-> "identity", side |-> SideOf(i), digest |-> digest,
                      expected |-> OtherMember(i), status |-> peer.status, rv |-> peer.rv]]
    /\ UNCHANGED <<registered, trusts, peer, reconciler, repoints>>

\* Defect variant: the digest is not compared.
DigestMatchesAny(i) == request[i].expected \in registered

\* The other member's ClusterIdentity exists and has the digest confirmed.
DigestMatches(i) ==
    /\ request[i].expected \in registered
    /\ request[i].expected = request[i].digest

ConfirmCompare(i) ==
    /\ request[i].pc = "identity"
    /\ DigestMatches(i)
    /\ request' = [request EXCEPT ![i].pc = "update"]
    /\ UNCHANGED <<registered, trusts, peer, reconciler, repoints>>

\* Defect variant: the status read is written back without its resourceVersion.
ConfirmUpdateBlind(i) ==
    /\ request[i].pc = "update"
    /\ peer' = Written([request[i].status EXCEPT !.confirmed[request[i].side] = TRUE])
    /\ request' = [request EXCEPT ![i] = NoRequest]
    /\ UNCHANGED <<registered, trusts, reconciler, repoints>>

\* The status as read, with one flag set, is written on the resourceVersion read.
ConfirmUpdate(i) ==
    /\ request[i].pc = "update"
    /\ request[i].rv = peer.rv
    /\ peer' = Written([request[i].status EXCEPT !.confirmed[request[i].side] = TRUE])
    /\ request' = [request EXCEPT ![i] = NoRequest]
    /\ UNCHANGED <<registered, trusts, reconciler, repoints>>

\* A digest mismatch, an unregistered member, a conflict, an API error or a
\* replica that stops: nothing is written, the agent sends again next round.
ConfirmFails(i) ==
    /\ request[i].pc # "idle"
    /\ request' = [request EXCEPT ![i] = NoRequest]
    /\ UNCHANGED <<registered, trusts, peer, reconciler, repoints>>

------------------------------------------------------------------------------
(* reconcilePeers.                                                         *)

AllConfirmed == \A side \in Sides : peer.status.confirmed[side]

\* The state that follows from the Peer just listed.
PeerState ==
    CASE peer.suspended -> "Suspended"
      [] ~peer.suspended /\ AllConfirmed -> "Ready"
      [] OTHER -> "PendingConfirmation"

\* Defect variant: the generation observed is the next one.
ReconcileListAhead(r) ==
    /\ reconciler[r].pc = "idle"
    /\ reconciler' = [reconciler EXCEPT ![r] =
                        [pc |-> "update", rv |-> peer.rv,
                         status |-> [confirmed |-> peer.status.confirmed,
                                     state |-> PeerState, observed |-> peer.gen + 1]]]
    /\ UNCHANGED <<registered, trusts, peer, request, repoints>>

\* The List: a status computed from what it returned, to be written later.
ReconcileList(r) ==
    /\ reconciler[r].pc = "idle"
    /\ reconciler' = [reconciler EXCEPT ![r] =
                        [pc |-> "update", rv |-> peer.rv,
                         status |-> [confirmed |-> peer.status.confirmed,
                                     state |-> PeerState, observed |-> peer.gen]]]
    /\ UNCHANGED <<registered, trusts, peer, request, repoints>>

\* Defect variant: the generation is taken from a fresh read of the Peer.
ReconcileUpdateFreshGeneration(r) ==
    /\ reconciler[r].pc = "update"
    /\ peer' = Written([reconciler[r].status EXCEPT !.observed = peer.gen])
    /\ reconciler' = [reconciler EXCEPT ![r] = IdleReconciler]
    /\ UNCHANGED <<registered, trusts, request, repoints>>

\* Defect variant: a Peer whose generation was observed is not written again.
ReconcileUpdateOnce(r) ==
    /\ reconciler[r].pc = "update"
    /\ reconciler[r].rv = peer.rv
    /\ peer' = IF peer.status.observed = peer.gen THEN peer ELSE Written(reconciler[r].status)
    /\ reconciler' = [reconciler EXCEPT ![r] = IdleReconciler]
    /\ UNCHANGED <<registered, trusts, request, repoints>>

ReconcileUpdate(r) ==
    /\ reconciler[r].pc = "update"
    /\ reconciler[r].rv = peer.rv
    /\ peer' = Written(reconciler[r].status)
    /\ reconciler' = [reconciler EXCEPT ![r] = IdleReconciler]
    /\ UNCHANGED <<registered, trusts, request, repoints>>

\* A conflict or an API error is ignored; a replica that stops starts over.
ReconcileFails(r) ==
    /\ reconciler[r].pc = "update"
    /\ reconciler' = [reconciler EXCEPT ![r] = IdleReconciler]
    /\ UNCHANGED <<registered, trusts, peer, request, repoints>>

Next ==
    \/ SetSuspended
    \/ \E i \in Identities :
          \/ Register(i) \/ Repoint(i)
          \/ \E j \in Identities : Trust(i, j) \/ ConfirmGet(i, j)
          \/ ConfirmCompare(i) \/ ConfirmUpdate(i) \/ ConfirmFails(i)
    \/ \E r \in Reconcilers : ReconcileList(r) \/ ReconcileUpdate(r) \/ ReconcileFails(r)

Spec == Init /\ [][Next]_vars

\* The 15-second loops of the agents and of the reconcilers go on, and a call
\* repeated for ever does not fail for ever.
FairSpec ==
    /\ Spec
    /\ \A i \in Owners :
          /\ SF_vars(ConfirmGet(i, OtherMember(i)))
          /\ SF_vars(ConfirmCompare(i))
          /\ SF_vars(ConfirmUpdate(i))
          /\ WF_vars(ConfirmFails(i))
    /\ \A r \in Reconcilers :
          /\ WF_vars(ReconcileList(r))
          /\ SF_vars(ReconcileUpdate(r))
          /\ WF_vars(ReconcileFails(r))

------------------------------------------------------------------------------
(* Properties.                                                             *)

PeerStatus == [confirmed : [Sides -> BOOLEAN],
               state : {"none", "PendingConfirmation", "Ready", "Suspended"},
               observed : 0..(MaxEdits + 1)]

\* Every variable keeps its shape, and the bounds are kept.
TypeOK ==
    /\ registered \subseteq Identities
    /\ trusts \in [Identities -> SUBSET Identities]
    /\ peer \in [local : Identities, remote : Identities, suspended : BOOLEAN,
                 gen : 1..(MaxEdits + 1), status : PeerStatus, rv : Nat]
    /\ request \in [Identities -> [pc : {"idle", "identity", "update"}, side : Sides,
                                   digest : Identities \cup {NoIdentity},
                                   expected : Identities \cup {NoIdentity},
                                   status : PeerStatus, rv : Nat]]
    /\ reconciler \in [Reconcilers -> [pc : {"idle", "update"}, status : PeerStatus, rv : Nat]]
    /\ repoints \in 0..MaxRepoints

\* A status that claims to have observed the current generation agrees with
\* the spec: Suspended exactly when the Peer is suspended, and Ready only with
\* both flags, although two replicas compute it from lists that go stale while
\* owners confirm and the administrator edits.
StatusReflectsSpec ==
    peer.status.observed = peer.gen =>
        /\ peer.status.state = "Suspended" <=> peer.suspended
        /\ peer.status.state = "Ready" => AllConfirmed

\* "A Peer becomes eligible only after both owners confirm the other's bundle
\* digest" (README.md:17).
ReadyMeansBothConfirmed ==
    peer.status.state = "Ready" => peer.remote \in trusts[peer.local] /\ peer.local \in trusts[peer.remote]

\* The sentence above holds as long as the Peer names the identities it was
\* created with: no interleaving of confirmations, conflicts and reconciles
\* sets a flag for the wrong side or for a digest its owner did not configure.
ReadyUnlessRepointed == repoints = 0 => ReadyMeansBothConfirmed

\* What the flags stand for, whatever was re-pointed: the owner of the local
\* member confirmed an identity other than its own, and the owner of another
\* identity confirmed the local member; while the Peer names the identities it
\* was created with, they are the two members.
FlagsGiven ==
    /\ peer.status.confirmed["local"] =>
          \E j \in trusts[peer.local] \ {peer.local} : repoints = 0 => j = peer.remote
    /\ peer.status.confirmed["remote"] =>
          \E i \in Identities \ {peer.local} :
              peer.local \in trusts[i] /\ (repoints = 0 => i = peer.remote)

\* status.observedGeneration never goes back and is never ahead of the spec: a
\* replica that computed its status from an old List does not undo the work of
\* a faster one.
ObservedAdvances ==
    [][/\ peer'.status.observed >= peer.status.observed
       /\ peer'.status.observed <= peer'.gen]_peer

\* Confirmations are never taken back, not even by a stale write of the other
\* owner or of a reconciler.
ConfirmationsStay ==
    [][\A side \in Sides : peer.status.confirmed[side] => peer'.status.confirmed[side]]_peer

\* Conflicts between owners and replicas die out: once both owners have
\* configured each other's digest and the Peer stays as it is, it becomes and
\* stays Ready; and a Peer that stays suspended is shown as Suspended.
PeerConverges ==
    /\ <>[](/\ ~peer.suspended
            /\ {peer.local, peer.remote} \subseteq registered
            /\ peer.remote \in trusts[peer.local]
            /\ peer.local \in trusts[peer.remote])
          => <>[](peer.status.state = "Ready")
    /\ <>[]peer.suspended => <>[](peer.status.state = "Suspended")
==============================================================================
