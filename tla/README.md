# Among Clusters: a TLA+ model of the sovereign peering control plane

Among Clusters pairs Kubernetes clusters of different owners. A Hub keeps the
shared objects; an agent in every cluster talks to it with signed messages; a
gateway in every cluster carries service traffic; a credential broker lends
Kubernetes access. This directory models the control plane: what the programs
do to the objects of the Hub, in every interleaving of their API calls; and the
QUIC sessions between the gateways, on which a part of it reports. TLC
checks the models on small instances, and TLAPS checks proofs for every value
of the constants.

## 1. Inventory

Paths are relative to `src/`.

| Component | State | Operations | Hard behaviour | Correct when |
|---|---|---|---|---|
| Control channel, agent side (`cmd/agent/main.go`) | sequence in memory, `generation` annotation of the identity Secret | loadIdentity, sendControlResponse, persist | restarts, two agents in a rolling update, lost answers, persist conflicts | never ahead of the Hub, catches up after a restart |
| Control channel, Hub side (`internal/api/sovereign_server.go`, `internal/protocol/control.go`) | `status.lastGeneration` of the ClusterIdentity | LastGeneration, Verify, effect, RecordGeneration | handlers of several replicas; a stop between effect and record | acknowledged generations strictly increase; a recorded one had its effect |
| Onboarding (`internal/api/onboarding.go`, `sovereign_store.go`) | claim and invitation Secrets, ClusterIdentities | createOnboardingLink, consumeOnboarding, createInvitation, acceptInvitation | racing requests, retries on conflict, failures after the secret is used | secrets are single-use; an identity is backed by its own invitation and never replaced |
| Peers (`sovereign_store.go`, `sovereign_reconciler.go`) | Peer spec, two confirmation flags, state | ConfirmPeerBundle, reconcilePeers, edits | four kinds of writers of one object | Ready means both owners confirmed; converges |
| Advertisements and imports (same files, agent and gateway) | ServiceAdvertisements, ImportedServices, the gateway's routes | publishServices, writeGatewayRoutes, SyncAdvertisements, reconcileAdvertisements, handleExport's admission | service-by-service application, refusal half-way, overtaken snapshots, time to live | converges to the labelled services; what is removed stops, on the Hub and at the gateway |
| Managed access (same files, agent) | grants, approval ConfigMaps, RBAC objects, ServiceAccounts | pollGrants, reconcileGrant, PendingGrants, FulfillGrant, reconcileGrants | stale instructions, one failing grant ends the round, expiry | no access without both approvals; access that is taken back ends |
| Credential broker (`cmd/broker/main.go`) | credential Secrets, last generation per identity in memory | store, revoke, proxy | requests that outlive the agent's patience, restarts | a revoked credential stays unusable |
| Links (agent, `sovereign_store.go`, `sovereign_reconciler.go`) | last observation, state | observeLink, persistentSessionReady, ObserveLink, reconcileLinks | 45 s staleness, stale status writes, a probe that is not a session | a lost session is shown, a live one is shown again |
| QUIC gateway (`cmd/gateway/main.go`) | connections, the registry of sessions, import streams | maintainSession, serveQUIC, handleConnection, heartbeat, /readyz, proxyImport | two ends that close on their own, late handlers, reconnects while streams are opened, restarts | the registry is exact; a lost session is replaced; clients are served |
| SVID rotation (`internal/identity`) | TLS material in the identity Secret | refreshTLSSecret | writes the Secret the control channel persists to | renewed before expiry |
| Memory store, cryptography, probes, CRD migration, UI and charts | none that outlives a call, or test-only | | | |

How they interact. The agent runs one loop every 15 seconds: rotate
certificates, heartbeat, service snapshot, grant poll, peer confirmations, link
observations. Every one of these is a control message, so the control channel's
generation check orders them all. Each Hub replica runs HTTP handlers and one
reconciler loop of 15 seconds. Replicas share nothing but the API server, whose
optimistic concurrency (`resourceVersion`) is the only synchronisation. The
agent asks its gateway over HTTP (`/readyz`) whether a session is registered, and
reports that as the state of a Link. The
agent speaks to the broker in the same signed format, with an audience and a
generation map of its own. The gateway reads the routes ConfigMap that
the agent writes from its labelled services before it sends the snapshot.

`PROJECT.json` lists the hazards of this code with their lines and the
properties that cover each.

## 2. Modules

| Module | Models | Uses |
|---|---|---|
| `GenerationLog` | the promise of replay protection: an append-only, strictly increasing log | |
| `ControlChannel` | agents, network, Hub handlers | refines `GenerationLog` |
| `OneTimeToken` | the promise of a single-use secret: redeemed by one request, for ever | |
| `Onboarding` | claims, invitations, registry, their requests | refines `OneTimeToken` twice |
| `Peering` | one Peer, its owners, reconcilers, administrator | |
| `Advertisements` | one publisher's snapshots, policy, peers, reconcilers, time | |
| `ManagedAccess` | grants, approvals, the agent's round, broker, Hub status | |
| `GatewaySessions` | the QUIC connections of two gateways, their registries, imports | |
| `Links` | one agent's observations of a Link, the Hub's reconciler | extends `GatewaySessions` |
| `MC*` | symmetry sets and the modules TLC runs | |
| `*Proofs` | theorems and lemmas | extend the module they are about |

One action is one API-server call together with the local computation up to
the next one, because another process can act exactly between two calls.
Several calls are one action only when they read objects nobody changes, or
when the order of their results cannot be told apart. The names of actions are
those of the functions, with the step as a suffix (`ConfirmGet`,
`ConfirmCompare`, `ConfirmUpdate` for the three calls of ConfirmPeerBundle).
Definitions called "Defect variant" are not part of any specification. Each is
a plausible bug in the definition that follows it, and the property it is
meant for fails when it takes the definition's place.

### ControlChannel

`agent` holds an agent process' step, sequence and message; `secret` the
annotation; `net` the requests in flight; `handler` the Hub's handlers;
`identity` the ClusterIdentity's lastGeneration; `applied` and `log` record
effects and acknowledgements for the properties. A message stays in `net` after
it was received, so it can arrive again, late, or out of order; `Lose` removes
it. `Crash` and `HandlerDies` can happen at any step. `HandlerErrors` is the 4xx
or 5xx answer of a failing call. Messages carry an identifier, since restarted
or overlapping agents reuse generations. Signature, audience, issuer and the
one-minute lifetime are abstracted to messages that pass; that makes more
behaviours possible, never fewer.

### Onboarding

Every request is used once and carries its own key. Claims and invitations are
records with existence, binding, expiry, `usedBy` and a resourceVersion. The
three attempts of ConsumeOnboardingClaim are explicit (`ConsumeRetry`,
`ConsumeConflict`), with the time read once before the loop as in the code.
`EditClaim` is any other writer of the Secret (it is what makes a retry possible
without a competing POST). Token hashes and proofs of possession are abstracted:
only requests that know the secret are modelled. `from` records where an
invitation came from, for the properties.

What becomes of a used secret is stated as an invariant, not as a liveness
property: at every moment the request that used it is on its way to the effect,
has had it, or has failed (UsedSecretsAccounted). A request makes a bounded number
of calls, so that is all there is to say about its end.

### Peering

One Peer with spec (members, suspended), generation, status and
resourceVersion. `trusts` is what the owners put in PEER_CONFIRMATIONS.
ClusterIdentities are never replaced (proved in `OnboardingProofs`), so a bundle
digest is written as the identity it belongs to. A write that changes nothing
does not move the resourceVersion, as in Kubernetes. `Owners` are the
identities that may register; a Peer may name one that never does.

### Advertisements

SyncAdvertisements goes through the snapshot one service at a time: policy
check, Get, Create or Update, imports; then List and the sweep that revokes. Any
refusal or error ends it where it stands (`SyncCheck`, `SyncFails`), while errors
of the sweep's Update are passed over (`SyncRevoke`). Time is relative: an age is
the time since the last publication, capped at the time to live.
resourceVersions are relative too: a reader's `fresh` is the set of objects that
nobody wrote since. So states are finite while behaviours are not, which
liveness needs. Names are distinct (name mapping and cutting are left out), all
services refer to one policy, and `EditPeer` abbreviates everything that makes a
Peer Ready or not (see Peering).

The agent writes the routes of its gateway before it sends the snapshot, whatever
the Hub will say of it; `Admits` is the gateway's decision on a stream
(handleExport): the routes have the service and name the peer. A removed service
is therefore refused by the gateway at once, while the Hub may show it until the
time to live is over.

### ManagedAccess

`spec[g]` is the sequence of the generations of a grant; `approval[g]` the
generation in the owner's ConfigMap; `consented[g]` every generation the owner
ever approved (history, for AccessConsented). `rbac[g]` holds the
ServiceAccount, the generation each role's rules come from, per place (a
namespace or the cluster), and the bindings; `stored[g]` the broker's Secret.
The agent's round is `agent`: the remaining grants and the generations it was
told, which may be stale by now. `RemoveAccess`, `ReadApproval`,
`CreateServiceAccount`, `WriteRole`, `BindRole`, `IssueToken`, `Send` are
reconcileGrant from top to bottom; the first error ends the round (`AgentFails`
and the refusals).

A request of the agent (credential.store, credential.revoke, grant.fulfilled)
goes on after the agent stopped waiting. The broker's replay check compares the
message's generation with the last one it stored. An answered poll has a newer
generation than every message before it (ControlChannel), and the broker's
messages carry its successor, so "replay" means: sent before the request that
was recorded last. `older` and `refused` express this by the order of the
requests in flight. `BrokerRestarts` ends the requests the broker handles and
forgets the order: messages still on their way reach it later, and none of them is a
replay for it, however old. Restarts of the broker are not counted; they are left out
where no call can fail (MaxFailures = 0). As in the code the last generation is read,
compared and set around the API calls, so a slow store can take it back
(`StoreRecord`).

Time comes nearer to expiresAt in two steps: less than ten minutes
("grant expires too soon"), and over. A token is good, dead (its ServiceAccount
was deleted) or expired; it expires with its grant, or at any time
(`TokenExpires`: at most one hour). The administrator edits one field at a time;
the grants start alike. Advertisements of the grants exist and are the agent's.
The proxy of the broker changes nothing; `Usable` says when it can serve.

### GatewaySessions

A connection is one record with two ends, one per gateway. Each end is open,
closed (the connection is, the handler has yet to return), or gone; the
listener's is pending until serveQUIC accepts it. An end learns that the other one
closed, or that the network is down, at any later time (`EndCloses`), and its
handler returns later still (`HandlerReturns`), so old and new sessions overlap.
`registry[s]` is the gateway's list for the peer; `Put` appends and `Forget`
removes, as registerSession and unregisterSession do. `session` is the loop of
maintainSession. `import[s]` is one client of proxyImport, from the choice of a
connection to the end of the stream. `Handled` says at which end
handleConnection runs: at the listener for every connection, at the dialer for
its session only. What an import dials by itself (the fallback endpoint) has
nobody to accept streams at the dialer.

Names of connections are used again once nothing refers to them (`Free`), so a
few names stand for endless reconnecting. `deployment` is chosen in the initial
state and never changes: which sides have an import route, whether the agent
probes, which names the session may use. TLS and certificates are a handshake
that succeeds or not (`Refuse`); quic-go is modelled by how its connections are
used; a heartbeat is its failure (`HeartbeatFails`).

Heartbeats fail in two ways. One may fail at any time, like any call; that is bounded
by MaxFailures. And each takes a stream of its session for good, because handleExport
answers it without reading it to its end, so that after about a hundred of them, a
quarter of an hour, there is none left: the dialer then closes the session and dials
the next one, without end, and its imports that ask for a stream meanwhile do the
same. Streams are not counted; `StreamsUsedUp` says which session may have
come to that, one that both ends hold and that has outlived all sessions and probes
before it. Such a failure counts against no bound.

### Links

The observing agent is the dialer's: its probe is a connection like any other
(`Probe` is GatewaySessions' `ProbeDial`), and its gateway's registry is what
/readyz answers from. An agent of the listener does the same against its own
registry. Time is relative: an observation is recent or old (45 seconds have
passed). A reader's `fresh` says that nobody wrote the Link since it was read; an
observation carries a time stamp, so it always makes the reconciler's copy stale.
The reasons are those of the code: the agent's (TransportError for a failed probe,
PersistentSessionUnavailable for a missing session) and the reconciler's
(NATUnreachable, ObservationStale). Only the latency is left out: it is shown, and
decides nothing.

## 3. Runs

| Run | Instance | Shows |
|---|---|---|
| `control_safety` | 2 agents, 2 handlers, 3 generations, 3 messages, 3 starts | TypeOK, PersistedBehindHub, RecordedHasEffect, refinement of GenerationLog |
| `control_liveness` | 1 agent started twice, 1 handler, 2 generations | CatchesUp |
| `onboarding_safety` | 1 claim, 2 invitations, 2 POSTs, 2 acceptances, 2 tenants, 2 clusters, expiry, 2 edits | single use of claims and invitations, OneInvitationPerClaim, RegistrationBacked, FirstRegistrationWins, UsedSecretsAccounted |
| `peering_converge` | 3 identities, 2 of which register, 1 reconciler, 1 edit or re-pointing | StatusReflectsSpec, ReadyUnlessRepointed, ConfirmationsStay, PeerConverges |
| `peering_readme` | as peering_converge, with 3 identities that register | finds ReadyMeansBothConfirmed violated |
| `advertisements_converge` | 2 services (all peers, named peers), 1 handler, 3 edits | SnapshotConverges, RemovedServiceStops |
| `advertisements_overlap` | 1 service, 2 snapshots at a time, 2 edits, 1 failure | StatusTruthful, SnapshotConverges |
| `advertisements_readme` | as advertisements_converge | finds RemovedLabelsRevoke violated |
| `managed_late` | 1 grant, 2 requests at a time, 1 replica, 1 edit, 1 failure, any number of restarts of the broker | AccessEnds, RevocationCompletes, StatusConverges |
| `managed_rounds` | 2 grants in a round, a namespace and the cluster, 1 edit | AccessConsented, AccessEnds, RevocationCompletes, AccessGranted |
| `gateway_imports` | five deployments (imports at either side with two overlapping sessions, imports at both, imports at either side next to an agent's probe), 1 fallback connection, 1 failure | RegistryExact, ConnectionsOwned, OldestKept, SessionRestored, DeadSessionNoticed, ImportsServed |
| `links_status` | a Link with and without a session, 1 probe, 1 reconciler, 1 edit, 1 failure | ShownAsObserved, LostLinkShown, LinkRecovers |

Why the bounds are enough. The races of this code are between two actors that
read and then write one object; two of each kind (or one of two kinds) show
them, and the proofs carry the safety properties to any number. Three
generations are one more than the two that can be swapped. Two services are what
it takes for the first to refuse the second; two grants are what it takes for the
first to hold up the second (`managed_rounds`). One edit of a grant takes back or
changes any one thing at any moment of a round; one failure is enough to leave a late
request behind, and the broker may then restart before it arrives, as often as it
likes. In `managed_rounds` nothing fails and the broker stays up: a store that is
interrupted for ever would hold up every later grant, so RevocationCompletes and
AccessGranted speak of rounds that go on. The peering bounds
allow the Peer to be re-pointed once, to a third identity, which is what it takes
to separate the flags from the identities. Two names for the session let a new one
be registered before the handler of the old one returned; a third would need two
handlers that are late at once, and the registry treats each by itself
(RegistryExact is proved for any number). The Link needs one session only: it is told
whether there is any, and the name comes back. A failure is a call, a heartbeat or a
stream that fails although streams are left, a refused handshake, a restart, or a
client that gives up; sessions that are used up, and the network that goes down and
up, have no bound. `CHECK_DEADLOCK FALSE` is set where
behaviours end: the control channel's sends and starts are bounded, onboarding
requests are served once. The others go on for ever.

### Fairness

- Agent and reconciler loops: a ticker of 15 seconds restarts them whatever
  happened, so their steps are weakly fair. A call that never answers is cut off
  by the HTTP client's timeout, so a wait ends.
- Requests that were started go on until they answer or fail.
- Peering has strong fairness for confirmation and reconcile steps. The
  alternative outcome of each step is a failing call, and the assumption says
  that a call that is repeated for ever does not fail for ever. No fairness is
  assumed of administrators and owners.
- Advertisements and ManagedAccess bound the failures by MaxFailures instead, so
  weak fairness is enough; the bound can be used up at any time.
- Advertisements assumes that time passes (`WF(Tick)`), ManagedAccess that a
  token expires (`WF(TokenExpires)`): CreateToken asks for an hour at most.
- GatewaySessions: maintainSession dials in a loop, handlers and imports run, QUIC
  delivers what the network carries and notices what it does not. Sessions end for
  ever, since they run out of streams, so two things are assumed to be faster than
  that (StreamFairness): a stream is opened and accepted in a round trip, and a
  session lasts for minutes. ImportsServed has the clients' part as its premise:
  they also come while the connection they get is alive (ClientsCome).
- Links adds the loops of agent and reconciler and the passing of time, and two
  assumptions of the same kind: an agent that asks every 15 seconds also asks while
  a session of a quarter of an hour is there (AgentMeetsSession), and the
  milliseconds between ObserveLink's Get and its UpdateStatus are not always hit by
  a reconciler that writes every 15 seconds.
- The other failures of GatewaySessions and Links are bounded: SessionRestored,
  ImportsServed and LinkRecovers say what happens again and again once calls,
  restarts and refusals are over, with sessions that still run out. None of them says
  that one session stays. Nothing is assumed of the network beyond the premise of
  each property.
- ControlChannel assumes fairness of a running agent only: CatchesUp holds even
  when the network loses everything, because a refused or unanswered message
  advances the sequence.

### A limit of the imports

ImportsServed for the listener has a premise: the dialer's imports stop using
connections of their own. Without it TLC finds the listener's import
waiting on such a connection: the listener registered it as it does every
connection it accepts, and chooses it when it is the oldest, but the dialer
accepts streams on its session only (`proxyImport` does not start a handler). The
client waits until the dialer's import ends. It takes a fallback endpoint at the
dialer, a moment without a session, and imports on both sides.

### Where documentation and code differ

- `README.md:17`: "A Peer becomes eligible only after both owners confirm the
  other's bundle digest." The confirmation flags are never cleared. After
  spec.remoteIdentityRef is changed, the Peer is Ready on the flags given for the
  former identity (`peering_readme`). ReadyUnlessRepointed, which is proved, says
  that this is the only way.
- `README.md:51`: "Removed labels revoke the advertisement." The sweep that
  revokes comes after the loop over the snapshot, which ends at the first service
  the policy refuses. While one labelled service is refused, nothing is revoked
  (`advertisements_readme`). RemovedServiceStops says what holds instead: the time
  to live ends it.

## 4. Proofs

`tlapm` proves, from the named assumptions on the constants only:

| Module | Theorems |
|---|---|
| `ControlChannelProofs` | TypeCorrect, PersistedBehindHubHolds, RecordedHasEffectHolds, ImplementsGenerationLog, LogIncreasingHolds, AcknowledgedIsRecordedHolds, RecordedNotTakenUpHolds, SequenceAdvancesHolds |
| `OnboardingProofs` | TypeCorrect, OneInvitationPerClaimHolds, RegistrationBackedHolds, FirstRegistrationWinsHolds, UsedSecretsAccountedHolds, ClaimsAreSingleUseHolds, InvitationsAreSingleUseHolds |
| `PeeringProofs` | TypeCorrect, StatusReflectsSpecHolds, ReadyUnlessRepointedHolds, ConfirmationsStayHolds, FlagsGivenHolds, ObservedAdvancesHolds |
| `ManagedAccessProofs` | TypeCorrect, AccessConsentedHolds, UsableIsLiveHolds |
| `AdvertisementsProofs` | TypeCorrect, StatusTruthfulHolds, ImportsFollowHolds |
| `GatewaySessionsProofs` | SessionTypeCorrect, RegistryExactHolds, OldestKeptHolds, ConnectionsOwnedHolds |
| `LinksProofs` | TypeCorrect, SessionsInLinks, RegistryExactInLinks, OldestKeptInLinks, ConnectionsOwnedInLinks, ShownAsObservedHolds |

Each rests on the inductive invariant of its module (InductiveInvariant,
SessionInvariant, LinkInvariant); some need a second one on top of it
(StatusInvHolds, LiveInvHolds, FlagsInvHolds, ImportsInvHolds).

These are proved and belong to no run's configuration: LogIncreasing,
AcknowledgedIsRecorded, RecordedNotTakenUp, SequenceAdvances, FlagsGiven,
ObservedAdvances, UsableIsLive, ImportsFollow. Each can be added to the
configuration of its component as it stands (INVARIANT, or PROPERTY for
RecordedNotTakenUp, SequenceAdvances and ObservedAdvances; LogIncreasing is
defined beside its theorem, follows from the refinement and was not model-checked).
TLC agrees with the others on those instances, where they were checked before they
were proved; the runs keep the properties that only TLC can check and those a
reader asks for first.

- Control channel. The properties alone are not inductive: they say nothing of
  what is under way. IInv adds that an agent which got a positive answer holds a
  generation the Hub has recorded (so persisting it keeps the annotation behind
  the Hub), that a handler past the effect has applied it, and that a handler whose
  resourceVersion is still current carries a generation newer than the last one. A
  successful Update therefore appends to the log: the refinement. That the
  recorded generations strictly increase is then a fact about GenerationLog alone
  (LogIncreasingHolds). What an agent may conclude from an answer rests on
  identifiers: a 200 is sent by RecordUpdate only, with the message it has just
  put into the log, and answers to other messages do not reach the waiting agent
  (OkAnswers). A recorded message is not taken up again, since lastGeneration is
  the newest of the log and Verify compares with it.
- Onboarding. IInv says what a request past each API call knows: whoever is about
  to update an unchanged Secret is its first user, whoever is about to issue is the
  claim's user and nothing was issued from it, whoever is about to register has
  used up the invitation it fits. It also follows the claim into the invitation,
  so RegistrationBacked says whose cluster an onboarding link registers.
- Peering. Every change of the Peer changes its resourceVersion, so a reader whose
  resourceVersion is still the Peer's holds its current status. Writes with an
  outdated resourceVersion have no effect; writes with a current one change only
  what the reader meant to change. A request keeps the side and the digest it read
  (SideStays), and the local member is never re-pointed, so whoever set a flag
  was on that side and trusted another member (FlagsGiven): what is left of the
  README's sentence after a re-pointing. Observed generations advance because a
  reconciler's current copy carries the generation it was computed from.
- Managed access. Generations and consents only grow (ConsentStays), so a stale
  copy of a consented generation is still consented. IInv follows the consent along
  the code: the agent has it once it read the approval, and every role it writes,
  every token it holds, every request with a token still at work and every stored
  token inherits it. Two replicas, late requests and restarts of the broker cannot
  lose it. The Hub's status follows the requests: the agent waits for a request of
  the grant its round is at (RoundInv), reports a grant only after its token was
  stored, and a reconciler says Active only of a grant reported so (StatusInv).
  Revocation is not consent taken back in this sense: that revoked access
  ends is a liveness property (AccessEnds, RevocationCompletes). Its safety half is
  UsableIsLive. LiveInv says of every copy of a good token, at the agent, in a
  request at work or in the broker, that its ServiceAccount exists and its
  generation has not expired: deleting the ServiceAccount and passing the expiry are
  the only steps that take this away, and both end every copy.

- Advertisements. A handler or a reconciler at work has an advertisement left to
  work on. While nobody wrote an advertisement since a reconciler listed it, what
  the reconciler is about to say of its revocation is still so; an outdated copy is
  refused by the resourceVersion. So no step shows a revoked advertisement as Active.
  For the imports every step is one of four (ImportSteps): it writes nothing they
  depend on, publishes an advertisement and goes on to create its imports, creates
  them, or fails. Overlapping snapshots do not disturb each other, since imports are
  only added and each handler keeps the targets it published.
- Gateway sessions. RegistryExact is inductive as it stands, with the type invariant
  and the fact that an import at work has a connection: it holds connection by
  connection and side by side. A connection is registered when it had no end at
  that side yet (dialed under a free name, or just accepted), so it was not
  registered before; who takes one out has closed its end
  before (a handler that returns, an import that cannot open a stream), or takes all
  of them out with their ends (a restart). OldestKept follows: appending to a
  nonempty registry and removing a connection that is not open leave an open first
  in place. ConnectionsOwned is about the dialer's side, where connections are made:
  the loop has one session at a time and dials the next one when it has closed that
  one, an import closes what it dialed before it forgets it, and a restart ends both.
- Links. Every step of Links is a step of GatewaySessions or leaves the sessions
  alone (SessionsInLinks), so its theorems carry over. ShownAsObserved needs that a
  reconciler whose copy is fresh has a status that fits the Link as it is, and that
  what the agent sends is either ready or has a reason (ObservationInv).

Only model-checked: the liveness properties, which are out of the prover's reach.

## 5. Not modelled, and why

- Cryptography, encodings and name handling (signing, envelopes, SPIFFE
  syntax, resourceName, advertisementName, importPort): pure functions. The
  collisions they allow are listed as hazards.
- Loading and verifying certificates in the gateway, and the bytes copied on a
  stream once it is served: an accepted handshake and a served stream stand for them.
- reconcileImports: it sets a state of ImportedServices that nothing reads or
  changes afterwards.
- refreshTLSSecret (SVID rotation): its writes are what makes a persist conflict in
  ControlChannel; when a certificate is renewed is a comparison of two times.
- The memory store: one mutex, tests only. Transport probes (beyond their
  connection), UI, charts and the CRD migration: no state of their own or one-shot.
- Roles left in places of a former scope, and RBAC objects of a grant whose
  advertisement or approval on the Hub is gone: no operation removes them, so there
  is no promise to check beyond AccessEnds.

## 6. Plan

Done: the modules of section 2, in that order, and a proof module for each of the
seven components. What is left:

1. A composition of ControlChannel with the effects (snapshot, confirmation,
   fulfilment): which overlaps of two effects the replay check leaves possible, as
   the two-handler instances assume.
2. SVID rotation as a second writer of the identity Secret in ControlChannel, in
   place of the persist conflicts that stand for it now.
3. Proofs: the safety that SnapshotConverges and RevocationCompletes rest on, as
   action properties (a handler writes an advertisement only with the targets of a
   permitted snapshot; an approved grant loses its role only by a revocation).
