---------------------------- MODULE PeeringProofs ----------------------------
(***************************************************************************)
(* Proofs of the safety properties of Peering for any number of            *)
(* identities, replicas and edits. The argument: every change of the Peer  *)
(* changes its resourceVersion, so a reader whose resourceVersion is still *)
(* the Peer's holds a status that is still the Peer's.                     *)
(*                                                                         *)
(* The second part is about the flags themselves: what every step may do   *)
(* to the Peer (PeerSteps), and that a flag was given by the owner of its  *)
(* side, whatever the Peer has been pointed to since.                      *)
(***************************************************************************)
EXTENDS Peering, TLAPS

\* The flags of a Peer that was never re-pointed stand for the owners' consent.
FlagsBacked ==
    repoints = 0 =>
        /\ peer.local = Local /\ peer.remote = Remote
        /\ peer.status.confirmed["local"] => Remote \in trusts[Local]
        /\ peer.status.confirmed["remote"] => Local \in trusts[Remote]

\* Ready is only ever written with both flags, and flags stay.
ReadyHasFlags == peer.status.state = "Ready" => AllConfirmed

\* The side a confirmation is for belongs to its issuer.
RightSide(i) ==
    repoints = 0 =>
        \/ request[i].side = "local" /\ i = Local /\ request[i].expected = Remote
        \/ request[i].side = "remote" /\ i = Remote /\ request[i].expected = Local

\* A confirmation in progress holds the current status, or an outdated
\* resourceVersion.
RequestOK(i) ==
    request[i].pc # "idle" =>
        /\ request[i].rv <= peer.rv
        /\ request[i].rv = peer.rv => request[i].status = peer.status
        /\ request[i].digest \in trusts[i]
        /\ request[i].pc = "update" => request[i].expected = request[i].digest
        /\ RightSide(i)

\* The same for a reconciler and the status it has computed.
ReconcilerOK(r) ==
    reconciler[r].pc = "update" =>
        /\ reconciler[r].rv <= peer.rv
        /\ reconciler[r].rv = peer.rv =>
              reconciler[r].status = [confirmed |-> peer.status.confirmed,
                                      state |-> PeerState, observed |-> peer.gen]

IInv ==
    /\ TypeOK
    /\ peer.status.observed <= peer.gen
    /\ StatusReflectsSpec
    /\ ReadyHasFlags
    /\ FlagsBacked
    /\ \A i \in Identities : RequestOK(i)
    /\ \A r \in Reconcilers : ReconcilerOK(r)

------------------------------------------------------------------------------
(* Types.                                                                  *)

\* The computed state is one of the states of a Peer.
LEMMA PeerStateType == TypeOK => PeerState \in {"PendingConfirmation", "Ready", "Suspended"}
  BY DEF TypeOK, PeerState

\* A write of the status leaves a Peer.
LEMMA WrittenType ==
  ASSUME TypeOK, NEW status \in PeerStatus
  PROVE  Written(status) \in [local : Identities, remote : Identities, suspended : BOOLEAN,
                              gen : 1..(MaxEdits + 1), status : PeerStatus, rv : Nat]
  BY DEF TypeOK, Written

\* A confirmation sets a flag of the status.
LEMMA ConfirmedType ==
  ASSUME TypeOK, NEW i \in Identities
  PROVE  [request[i].status EXCEPT !.confirmed[request[i].side] = TRUE] \in PeerStatus
  BY DEF TypeOK, PeerStatus

\* The types hold at first.
LEMMA InitType == Init => TypeOK
  BY ConstantsAssumption DEF Init, TypeOK, NoRequest, IdleReconciler, NewStatus, PeerStatus, Sides

\* Every step preserves the types.
LEMMA NextType == TypeOK /\ [Next]_vars => TypeOK'
<1> SUFFICES ASSUME TypeOK, [Next]_vars PROVE TypeOK'
  OBVIOUS
<1> USE ConstantsAssumption
<1>0. NoRequest \in [pc : {"idle", "identity", "update"}, side : Sides,
                     digest : Identities \cup {NoIdentity},
                     expected : Identities \cup {NoIdentity}, status : PeerStatus, rv : Nat]
      /\ IdleReconciler \in [pc : {"idle", "update"}, status : PeerStatus, rv : Nat]
  BY DEF NoRequest, IdleReconciler, NewStatus, PeerStatus, Sides
<1>1. ASSUME NEW i \in Identities, Register(i) PROVE TypeOK'
  BY <1>1 DEF TypeOK, Register
<1>2. ASSUME NEW i \in Identities, NEW j \in Identities, Trust(i, j) PROVE TypeOK'
  BY <1>2 DEF TypeOK, Trust
<1>3. CASE SetSuspended
  BY <1>3 DEF TypeOK, SetSuspended, Edited
<1>4. ASSUME NEW i \in Identities, Repoint(i) PROVE TypeOK'
  BY <1>4 DEF TypeOK, Repoint, Edited
<1>5. ASSUME NEW i \in Identities, NEW j \in Identities, ConfirmGet(i, j) PROVE TypeOK'
  BY <1>5 DEF TypeOK, ConfirmGet, SideOf, OtherMember, Sides
<1>6. ASSUME NEW i \in Identities, ConfirmCompare(i) PROVE TypeOK'
  BY <1>6 DEF TypeOK, ConfirmCompare
<1>7. ASSUME NEW i \in Identities, ConfirmUpdate(i) PROVE TypeOK'
  BY <1>0, <1>7, ConfirmedType, WrittenType DEF TypeOK, ConfirmUpdate
<1>8. ASSUME NEW i \in Identities, ConfirmFails(i) PROVE TypeOK'
  BY <1>0, <1>8 DEF TypeOK, ConfirmFails
<1>9. ASSUME NEW r \in Reconcilers, ReconcileList(r) PROVE TypeOK'
  <2>1. [confirmed |-> peer.status.confirmed, state |-> PeerState, observed |-> peer.gen]
           \in PeerStatus
    BY PeerStateType DEF TypeOK, PeerStatus
  <2> QED
    BY <1>9, <2>1 DEF TypeOK, ReconcileList
<1>10. ASSUME NEW r \in Reconcilers, ReconcileUpdate(r) PROVE TypeOK'
  <2>1. reconciler[r].status \in PeerStatus
    BY DEF TypeOK
  <2> QED
    BY <1>0, <1>10, <2>1, WrittenType DEF TypeOK, ReconcileUpdate
<1>11. ASSUME NEW r \in Reconcilers, ReconcileFails(r) PROVE TypeOK'
  BY <1>0, <1>11 DEF TypeOK, ReconcileFails
<1>12. CASE UNCHANGED vars
  BY <1>12 DEF TypeOK, vars, PeerStatus
<1> QED
  BY <1>1, <1>2, <1>3, <1>4, <1>5, <1>6, <1>7, <1>8, <1>9, <1>10, <1>11, <1>12 DEF Next

------------------------------------------------------------------------------
(* The inductive invariant.                                                *)

PeerInv == peer.status.observed <= peer.gen /\ StatusReflectsSpec /\ ReadyHasFlags /\ FlagsBacked

\* Consent is never withdrawn: what was trusted stays trusted.
LEMMA PeerInvKept ==
  ASSUME TypeOK, PeerInv, UNCHANGED <<peer, repoints>>,
         \A i \in Identities : trusts[i] \subseteq trusts'[i]
  PROVE  PeerInv'
  BY ConstantsAssumption
  DEF PeerInv, StatusReflectsSpec, ReadyHasFlags, FlagsBacked, AllConfirmed

\* A reader that keeps its locals stays sound: the Peer is unchanged, or its
\* resourceVersion has moved past the reader's.
PeerMoves == peer' = peer \/ peer'.rv = peer.rv + 1

\* A request untouched by a step keeps its part of the invariant.
LEMMA RequestKept ==
  ASSUME TypeOK, NEW i \in Identities, RequestOK(i), request'[i] = request[i],
         repoints' = 0 => repoints = 0, PeerMoves, trusts[i] \subseteq trusts'[i]
  PROVE  RequestOK(i)'
<1>1. request[i].rv \in Nat /\ peer.rv \in Nat
  BY DEF TypeOK
<1> QED
  BY <1>1 DEF RequestOK, RightSide, PeerMoves

\* A reconciler untouched by a step keeps its part of the invariant.
LEMMA ReconcilerKept ==
  ASSUME TypeOK, NEW r \in Reconcilers, ReconcilerOK(r), reconciler'[r] = reconciler[r],
         PeerMoves
  PROVE  ReconcilerOK(r)'
<1>1. reconciler[r].rv \in Nat /\ peer.rv \in Nat
  BY DEF TypeOK
<1>2. CASE peer' = peer
  BY <1>2 DEF ReconcilerOK, PeerState, AllConfirmed
<1>3. CASE peer'.rv = peer.rv + 1
  BY <1>1, <1>3 DEF ReconcilerOK
<1> QED
  BY <1>2, <1>3 DEF PeerMoves

\* After a write every earlier resourceVersion is outdated.
LEMMA WrittenMoves ==
  ASSUME TypeOK, NEW status \in PeerStatus
  PROVE  /\ Written(status) = peer \/ Written(status).rv = peer.rv + 1
         /\ Written(status).status = status
         /\ Written(status).local = peer.local
         /\ Written(status).remote = peer.remote
         /\ Written(status).suspended = peer.suspended
         /\ Written(status).gen = peer.gen
  BY DEF TypeOK, Written

\* Every action but a confirmation's or a reconciler's own step keeps the
\* locals of all readers.
LEMMA ReadersKept ==
  ASSUME IInv, UNCHANGED <<request, reconciler>>, repoints' = 0 => repoints = 0, PeerMoves,
         \A i \in Identities : trusts[i] \subseteq trusts'[i]
  PROVE  (\A i \in Identities : RequestOK(i)') /\ (\A r \in Reconcilers : ReconcilerOK(r)')
<1>1. ASSUME NEW i \in Identities PROVE RequestOK(i)'
  BY RequestKept DEF IInv
<1>2. ASSUME NEW r \in Reconcilers PROVE ReconcilerOK(r)'
  BY ReconcilerKept DEF IInv
<1> QED
  BY <1>1, <1>2

\* A step of a confirmation leaves the other confirmations and the reconcilers.
LEMMA OtherReadersOfRequest ==
  ASSUME IInv, NEW i \in Identities, RequestOK(i)', reconciler' = reconciler,
         \A j \in Identities \ {i} : request'[j] = request[j],
         UNCHANGED <<trusts, repoints>>, PeerMoves
  PROVE  (\A j \in Identities : RequestOK(j)') /\ (\A r \in Reconcilers : ReconcilerOK(r)')
<1>1. ASSUME NEW j \in Identities, j # i PROVE RequestOK(j)'
  BY <1>1, RequestKept DEF IInv
<1>2. ASSUME NEW r \in Reconcilers PROVE ReconcilerOK(r)'
  BY ReconcilerKept DEF IInv
<1> QED
  BY <1>1, <1>2

\* A reconciler's step keeps the invariant of every other reader.
LEMMA OtherReadersOfReconciler ==
  ASSUME IInv, NEW r \in Reconcilers, ReconcilerOK(r)', request' = request,
         \A q \in Reconcilers \ {r} : reconciler'[q] = reconciler[q],
         UNCHANGED <<trusts, repoints>>, PeerMoves
  PROVE  (\A j \in Identities : RequestOK(j)') /\ (\A q \in Reconcilers : ReconcilerOK(q)')
<1>1. ASSUME NEW j \in Identities PROVE RequestOK(j)'
  BY <1>1, RequestKept DEF IInv
<1>2. ASSUME NEW q \in Reconcilers, q # r PROVE ReconcilerOK(q)'
  BY <1>2, ReconcilerKept DEF IInv
<1> QED
  BY <1>1, <1>2

\* The invariant holds at first.
LEMMA InitInv == Init => IInv
<1> SUFFICES ASSUME Init PROVE IInv
  OBVIOUS
<1>1. TypeOK
  BY InitType
<1>2. peer.status.observed <= peer.gen /\ StatusReflectsSpec /\ ReadyHasFlags /\ FlagsBacked
  BY DEF Init, NewStatus, StatusReflectsSpec, ReadyHasFlags, FlagsBacked, Sides
<1>3. (\A i \in Identities : RequestOK(i)) /\ (\A r \in Reconcilers : ReconcilerOK(r))
  BY DEF Init, NoRequest, IdleReconciler, RequestOK, ReconcilerOK
<1> QED
  BY <1>1, <1>2, <1>3 DEF IInv

\* Every step preserves the invariant.
LEMMA NextInv == IInv /\ [Next]_vars => IInv'
<1> SUFFICES ASSUME IInv, [Next]_vars PROVE IInv'
  OBVIOUS
<1> USE ConstantsAssumption
<1>a. TypeOK /\ TypeOK' /\ PeerInv
  BY NextType DEF IInv, PeerInv
<1>b. SUFFICES /\ PeerInv'
               /\ \A i \in Identities : RequestOK(i)'
               /\ \A r \in Reconcilers : ReconcilerOK(r)'
  BY <1>a DEF IInv, PeerInv
<1> DEFINE Goal == /\ PeerInv'
                   /\ \A i \in Identities : RequestOK(i)'
                   /\ \A r \in Reconcilers : ReconcilerOK(r)'
<1>1. ASSUME NEW i \in Identities, Register(i) PROVE Goal
  BY <1>1, <1>a, PeerInvKept, ReadersKept DEF Register, PeerMoves
<1>2. ASSUME NEW i \in Identities, NEW j \in Identities, Trust(i, j) PROVE Goal
  <2>1. \A k \in Identities : trusts[k] \subseteq trusts'[k]
    BY <1>2, <1>a DEF Trust, TypeOK
  <2> QED
    BY <1>2, <1>a, <2>1, PeerInvKept, ReadersKept DEF Trust, PeerMoves
<1>3. CASE SetSuspended
  <2>1. PeerMoves
    BY <1>3 DEF SetSuspended, Edited, PeerMoves
  <2>2. PeerInv'
    BY <1>3, <1>a DEF SetSuspended, Edited, PeerInv, StatusReflectsSpec, ReadyHasFlags,
                      FlagsBacked, AllConfirmed, TypeOK, PeerStatus
  <2> QED
    BY <1>3, <2>1, <2>2, ReadersKept DEF SetSuspended
<1>4. ASSUME NEW i \in Identities, Repoint(i) PROVE Goal
  <2>1. PeerMoves /\ repoints' # 0
    BY <1>4, <1>a DEF Repoint, Edited, PeerMoves, TypeOK
  <2>2. PeerInv'
    BY <1>4, <1>a, <2>1 DEF Repoint, Edited, PeerInv, StatusReflectsSpec, ReadyHasFlags,
                            FlagsBacked, AllConfirmed, TypeOK, PeerStatus
  <2> QED
    BY <1>4, <2>1, <2>2, ReadersKept DEF Repoint
<1>5. ASSUME NEW i \in Identities, NEW j \in Identities, ConfirmGet(i, j) PROVE Goal
  <2>1. PeerInv' /\ PeerMoves
    BY <1>5, <1>a, PeerInvKept DEF ConfirmGet, PeerMoves
  <2>2. request'[i] = [pc |-> "identity", side |-> SideOf(i), digest |-> j,
                       expected |-> OtherMember(i), status |-> peer.status, rv |-> peer.rv]
        /\ \A k \in Identities \ {i} : request'[k] = request[k]
    BY <1>5, <1>a DEF ConfirmGet, TypeOK
  <2>3. RequestOK(i)'
    BY <1>5, <1>a, <2>2 DEF ConfirmGet, RequestOK, RightSide, SideOf, OtherMember, PeerInv,
                            FlagsBacked, TypeOK
  <2> QED
    BY <1>5, <2>1, <2>2, <2>3, OtherReadersOfRequest DEF ConfirmGet
<1>6. ASSUME NEW i \in Identities, ConfirmCompare(i) PROVE Goal
  <2>1. PeerInv' /\ PeerMoves
    BY <1>6, <1>a, PeerInvKept DEF ConfirmCompare, PeerMoves
  <2>2. request'[i] = [request[i] EXCEPT !.pc = "update"]
        /\ \A k \in Identities \ {i} : request'[k] = request[k]
    BY <1>6, <1>a DEF ConfirmCompare, TypeOK
  <2>3. /\ request'[i].pc = "update" /\ request'[i].side = request[i].side
        /\ request'[i].digest = request[i].digest /\ request'[i].expected = request[i].expected
        /\ request'[i].status = request[i].status /\ request'[i].rv = request[i].rv
    BY <2>2, <1>a DEF TypeOK
  <2>4. RequestOK(i)'
    BY <1>6, <1>a, <2>3 DEF IInv, ConfirmCompare, DigestMatches, RequestOK, RightSide
  <2> QED
    BY <1>6, <2>1, <2>2, <2>4, OtherReadersOfRequest DEF ConfirmCompare
<1>7. ASSUME NEW i \in Identities, ConfirmUpdate(i) PROVE Goal
  <2> DEFINE status == [request[i].status EXCEPT !.confirmed[request[i].side] = TRUE]
  <2>1. status \in PeerStatus /\ peer' = Written(status)
    BY <1>7, <1>a, ConfirmedType DEF ConfirmUpdate
  <2>2. PeerMoves
    BY <1>a, <2>1, WrittenMoves DEF PeerMoves
  <2>3. RequestOK(i) /\ request[i].status = peer.status /\ request[i].side \in Sides
    BY <1>7, <1>a DEF IInv, RequestOK, ConfirmUpdate, TypeOK
  <2>4. /\ status.state = peer.status.state /\ status.observed = peer.status.observed
        /\ status.confirmed = [peer.status.confirmed EXCEPT ![request[i].side] = TRUE]
    BY <2>3, <1>a DEF TypeOK, PeerStatus
  <2>5. PeerInv'
    <3>1. peer'.status = status /\ peer'.gen = peer.gen /\ peer'.suspended = peer.suspended
          /\ peer'.local = peer.local /\ peer'.remote = peer.remote
      BY <1>a, <2>1, WrittenMoves
    <3>2. peer'.status.observed <= peer'.gen
      BY <1>a, <2>4, <3>1 DEF PeerInv
    <3>3. AllConfirmed => AllConfirmed'
      BY <1>a, <2>3, <2>4, <3>1 DEF AllConfirmed, TypeOK, PeerStatus
    <3>4. StatusReflectsSpec' /\ ReadyHasFlags'
      BY <1>a, <2>4, <3>1, <3>3 DEF PeerInv, StatusReflectsSpec, ReadyHasFlags
    <3>5. FlagsBacked'
      BY <1>7, <1>a, <2>3, <2>4, <3>1
      DEF PeerInv, FlagsBacked, RequestOK, RightSide, ConfirmUpdate, TypeOK, PeerStatus, Sides
    <3> QED
      BY <3>2, <3>4, <3>5 DEF PeerInv
  <2>6. request'[i] = NoRequest /\ \A k \in Identities \ {i} : request'[k] = request[k]
    BY <1>7, <1>a DEF ConfirmUpdate, TypeOK
  <2>7. RequestOK(i)'
    BY <2>6 DEF RequestOK, NoRequest
  <2> QED
    BY <1>7, <2>2, <2>5, <2>6, <2>7, OtherReadersOfRequest DEF ConfirmUpdate
<1>8. ASSUME NEW i \in Identities, ConfirmFails(i) PROVE Goal
  <2>1. PeerInv' /\ PeerMoves
    BY <1>8, <1>a, PeerInvKept DEF ConfirmFails, PeerMoves
  <2>2. request'[i] = NoRequest /\ \A k \in Identities \ {i} : request'[k] = request[k]
    BY <1>8, <1>a DEF ConfirmFails, TypeOK
  <2>3. RequestOK(i)'
    BY <2>2 DEF RequestOK, NoRequest
  <2> QED
    BY <1>8, <2>1, <2>2, <2>3, OtherReadersOfRequest DEF ConfirmFails
<1>9. ASSUME NEW r \in Reconcilers, ReconcileList(r) PROVE Goal
  <2>1. PeerInv' /\ PeerMoves
    BY <1>9, <1>a, PeerInvKept DEF ReconcileList, PeerMoves
  <2>2. reconciler'[r] = [pc |-> "update", rv |-> peer.rv,
                          status |-> [confirmed |-> peer.status.confirmed,
                                      state |-> PeerState, observed |-> peer.gen]]
        /\ \A q \in Reconcilers \ {r} : reconciler'[q] = reconciler[q]
    BY <1>9, <1>a DEF ReconcileList, TypeOK
  <2>3. peer' = peer /\ PeerState' = PeerState
    BY <1>9 DEF ReconcileList, PeerState, AllConfirmed
  <2>4. ReconcilerOK(r)'
    BY <1>a, <2>2, <2>3 DEF ReconcilerOK, TypeOK
  <2> QED
    BY <1>9, <2>1, <2>2, <2>4, OtherReadersOfReconciler DEF ReconcileList
<1>10. ASSUME NEW r \in Reconcilers, ReconcileUpdate(r) PROVE Goal
  <2>1. reconciler[r].status \in PeerStatus /\ peer' = Written(reconciler[r].status)
    BY <1>10, <1>a DEF ReconcileUpdate, TypeOK
  <2>2. PeerMoves
    BY <1>a, <2>1, WrittenMoves DEF PeerMoves
  <2>3. reconciler[r].status = [confirmed |-> peer.status.confirmed,
                                state |-> PeerState, observed |-> peer.gen]
    BY <1>10, <1>a DEF IInv, ReconcilerOK, ReconcileUpdate
  <2>4. peer'.status = reconciler[r].status /\ peer'.gen = peer.gen
        /\ peer'.suspended = peer.suspended
        /\ peer'.local = peer.local /\ peer'.remote = peer.remote
    BY <1>a, <2>1, WrittenMoves
  <2>5. AllConfirmed' <=> AllConfirmed
    BY <2>3, <2>4 DEF AllConfirmed
  <2>6. (PeerState = "Suspended" <=> peer.suspended) /\ (PeerState = "Ready" => AllConfirmed)
    BY <1>a DEF PeerState, TypeOK
  <2>7. PeerInv'
    <3>1. peer'.status.observed <= peer'.gen
      BY <1>a, <2>3, <2>4 DEF TypeOK
    <3>2. StatusReflectsSpec' /\ ReadyHasFlags'
      BY <2>3, <2>4, <2>5, <2>6 DEF StatusReflectsSpec, ReadyHasFlags
    <3>3. FlagsBacked'
      BY <1>10, <1>a, <2>3, <2>4 DEF PeerInv, FlagsBacked, ReconcileUpdate
    <3> QED
      BY <3>1, <3>2, <3>3 DEF PeerInv
  <2>8. reconciler'[r] = IdleReconciler /\ \A q \in Reconcilers \ {r} : reconciler'[q] = reconciler[q]
    BY <1>10, <1>a DEF ReconcileUpdate, TypeOK
  <2>9. ReconcilerOK(r)'
    BY <2>8 DEF ReconcilerOK, IdleReconciler
  <2> QED
    BY <1>10, <2>2, <2>7, <2>8, <2>9, OtherReadersOfReconciler DEF ReconcileUpdate
<1>11. ASSUME NEW r \in Reconcilers, ReconcileFails(r) PROVE Goal
  <2>1. PeerInv' /\ PeerMoves
    BY <1>11, <1>a, PeerInvKept DEF ReconcileFails, PeerMoves
  <2>2. reconciler'[r] = IdleReconciler /\ \A q \in Reconcilers \ {r} : reconciler'[q] = reconciler[q]
    BY <1>11, <1>a DEF ReconcileFails, TypeOK
  <2>3. ReconcilerOK(r)'
    BY <2>2 DEF ReconcilerOK, IdleReconciler
  <2> QED
    BY <1>11, <2>1, <2>2, <2>3, OtherReadersOfReconciler DEF ReconcileFails
<1>12. CASE UNCHANGED vars
  BY <1>12, <1>a, PeerInvKept, ReadersKept DEF vars, PeerMoves
<1> QED
  BY <1>1, <1>2, <1>3, <1>4, <1>5, <1>6, <1>7, <1>8, <1>9, <1>10, <1>11, <1>12 DEF Next

------------------------------------------------------------------------------
(* Theorems.                                                               *)

\* The invariant the other theorems rest on.
THEOREM InductiveInvariant == Spec => []IInv
  BY InitInv, NextInv, PTL DEF Spec

\* Type correctness of Peers, confirmations and reconcilers.
THEOREM TypeCorrect == Spec => []TypeOK
<1>1. IInv => TypeOK
  BY DEF IInv
<1> QED
  BY <1>1, InductiveInvariant, PTL

\* reconcilePeers on any number of replicas: an observed generation's state
\* agrees with the spec and the flags.
THEOREM StatusReflectsSpecHolds == Spec => []StatusReflectsSpec
<1>1. IInv => StatusReflectsSpec
  BY DEF IInv
<1> QED
  BY <1>1, InductiveInvariant, PTL

\* A Peer that was not re-pointed is Ready only when both owners have
\* configured the other's digest.
THEOREM ReadyUnlessRepointedHolds == Spec => []ReadyUnlessRepointed
<1>1. IInv => ReadyUnlessRepointed
  BY DEF IInv, ReadyUnlessRepointed, ReadyMeansBothConfirmed, ReadyHasFlags, FlagsBacked,
         AllConfirmed, Sides
<1> QED
  BY <1>1, InductiveInvariant, PTL

\* ConfirmPeerBundle and reconcilePeers never lose a confirmation.
THEOREM ConfirmationsStayHolds == Spec => ConfirmationsStay
<1>1. IInv /\ [Next]_vars =>
        [\A side \in Sides : peer.status.confirmed[side] => peer'.status.confirmed[side]]_peer
  <2> SUFFICES ASSUME IInv, Next, NEW side \in Sides, peer.status.confirmed[side], peer' # peer
               PROVE  peer'.status.confirmed[side]
    BY DEF vars
  <2>1. TypeOK
    BY DEF IInv
  <2>2. CASE SetSuspended
    BY <2>2 DEF SetSuspended, Edited
  <2>3. ASSUME NEW i \in Identities, Repoint(i) PROVE peer'.status.confirmed[side]
    BY <2>3 DEF Repoint, Edited
  <2>4. ASSUME NEW i \in Identities, ConfirmUpdate(i) PROVE peer'.status.confirmed[side]
    <3> DEFINE status == [request[i].status EXCEPT !.confirmed[request[i].side] = TRUE]
    <3>1. status \in PeerStatus /\ peer' = Written(status)
      BY <2>1, <2>4, ConfirmedType DEF ConfirmUpdate
    <3>2. request[i].status = peer.status
      BY <2>4 DEF IInv, RequestOK, ConfirmUpdate
    <3>3. status.confirmed[side]
      BY <2>1, <3>2 DEF TypeOK, PeerStatus
    <3> QED
      BY <2>1, <3>1, <3>3, WrittenMoves
  <2>5. ASSUME NEW r \in Reconcilers, ReconcileUpdate(r) PROVE peer'.status.confirmed[side]
    <3>1. reconciler[r].status \in PeerStatus
          /\ reconciler[r].status.confirmed = peer.status.confirmed
      BY <2>1, <2>5 DEF IInv, ReconcilerOK, ReconcileUpdate, TypeOK
    <3> QED
      BY <2>1, <2>5, <3>1, WrittenMoves DEF ReconcileUpdate
  <2> QED
    BY <2>2, <2>3, <2>4, <2>5
    DEF Next, Register, Trust, ConfirmGet, ConfirmCompare, ConfirmFails, ReconcileList,
        ReconcileFails
<1> QED
  BY <1>1, InductiveInvariant, PTL DEF Spec, ConfirmationsStay

------------------------------------------------------------------------------
(* The generation observed, and the flags of a Peer that was re-pointed.   *)

\* What a step may do to the Peer: the administrator edits it, an owner's flag
\* is set, or a reconciler writes what it computed from the Peer as it is.
LEMMA PeerSteps ==
  ASSUME IInv, Next, peer' # peer
  PROVE  /\ peer'.local = peer.local
         /\ \/ SetSuspended /\ peer'.remote = peer.remote /\ peer'.status = peer.status
            \/ /\ peer'.remote \in Identities \ {peer.local} /\ repoints' > 0
               /\ peer'.status = peer.status
            \/ \E i \in Identities :
                  /\ ConfirmUpdate(i) /\ peer'.remote = peer.remote
                  /\ peer'.status.observed = peer.status.observed
                  /\ peer'.status.confirmed = [peer.status.confirmed EXCEPT ![request[i].side] = TRUE]
            \/ /\ peer'.remote = peer.remote /\ peer'.status.observed = peer.gen
               /\ peer'.status.confirmed = peer.status.confirmed
<1>0. TypeOK /\ repoints \in Nat
  BY DEF IInv, TypeOK
<1>1. CASE SetSuspended
  BY <1>1 DEF SetSuspended, Edited
<1>2. ASSUME NEW i \in Identities, Repoint(i)
      PROVE  /\ peer'.local = peer.local /\ peer'.remote \in Identities \ {peer.local}
             /\ peer'.status = peer.status /\ repoints' > 0
  BY <1>0, <1>2 DEF Repoint, Edited
<1>3. ASSUME NEW i \in Identities, ConfirmUpdate(i)
      PROVE  /\ peer'.local = peer.local /\ peer'.remote = peer.remote
             /\ peer'.status.observed = peer.status.observed
             /\ peer'.status.confirmed = [peer.status.confirmed EXCEPT ![request[i].side] = TRUE]
  <2> DEFINE status == [request[i].status EXCEPT !.confirmed[request[i].side] = TRUE]
  <2>1. status \in PeerStatus /\ peer' = Written(status)
    BY <1>0, <1>3, ConfirmedType DEF ConfirmUpdate
  <2>2. request[i].status = peer.status
    BY <1>3 DEF IInv, RequestOK, ConfirmUpdate
  <2>3. status.observed = peer.status.observed
        /\ status.confirmed = [peer.status.confirmed EXCEPT ![request[i].side] = TRUE]
    BY <1>0, <2>2 DEF TypeOK, PeerStatus
  <2>. QED
    BY <1>0, <2>1, <2>3, WrittenMoves
<1>4. ASSUME NEW r \in Reconcilers, ReconcileUpdate(r)
      PROVE  /\ peer'.local = peer.local /\ peer'.remote = peer.remote
             /\ peer'.status.observed = peer.gen
             /\ peer'.status.confirmed = peer.status.confirmed
  <2>1. reconciler[r].status \in PeerStatus
        /\ reconciler[r].status.confirmed = peer.status.confirmed
        /\ reconciler[r].status.observed = peer.gen
    BY <1>0, <1>4 DEF IInv, ReconcilerOK, ReconcileUpdate, TypeOK
  <2>. QED
    BY <1>0, <1>4, <2>1, WrittenMoves DEF ReconcileUpdate
<1>. QED
  BY <1>1, <1>2, <1>3, <1>4
  DEF Next, Register, Trust, ConfirmGet, ConfirmCompare, ConfirmFails, ReconcileList,
      ReconcileFails

\* reconcilePeers on any number of replicas: the generation observed never goes
\* back and is never ahead of the spec.
THEOREM ObservedAdvancesHolds == Spec => ObservedAdvances
<1>1. IInv /\ IInv' /\ [Next]_vars =>
        [/\ peer'.status.observed >= peer.status.observed
         /\ peer'.status.observed <= peer'.gen]_peer
  <2> SUFFICES ASSUME IInv, IInv', Next, peer' # peer
               PROVE  /\ peer'.status.observed >= peer.status.observed
                      /\ peer'.status.observed <= peer'.gen
    BY DEF vars
  <2>1. /\ peer.status.observed \in Nat /\ peer.gen \in Nat
        /\ peer.status.observed <= peer.gen /\ peer'.status.observed <= peer'.gen
    BY ConstantsAssumption DEF IInv, TypeOK, PeerStatus
  <2>2. peer'.status.observed \in {peer.status.observed, peer.gen}
    BY PeerSteps
  <2>. QED
    BY <2>1, <2>2
<1>. QED
  BY <1>1, InductiveInvariant, PTL DEF Spec, ObservedAdvances

\* A confirmation is of its issuer for the other member, whatever the Peer
\* names now: the local member is never re-pointed.
OtherSide(i) ==
  \/ request[i].side = "local" /\ i = Local /\ request[i].expected # Local
  \/ request[i].side = "remote" /\ i # Local /\ request[i].expected = Local

\* Every flag was set for the digest of another member.
FlagsInv ==
  /\ peer.local = Local /\ peer.remote # Local
  /\ peer.status.confirmed["local"] => \E j \in Identities \ {Local} : j \in trusts[Local]
  /\ peer.status.confirmed["remote"] => \E i \in Identities \ {Local} : Local \in trusts[i]
  /\ \A i \in Identities : request[i].pc # "idle" => OtherSide(i)

\* A confirmation gets its side and the other member when it reads the Peer.
LEMMA SideStays ==
  ASSUME IInv, FlagsInv, [Next]_vars, NEW i \in Identities, request'[i].pc # "idle"
  PROVE  OtherSide(i)'
<1>1. CASE request'[i].side = request[i].side /\ request'[i].expected = request[i].expected
           /\ request[i].pc # "idle"
  BY <1>1 DEF FlagsInv, OtherSide
<1>2. ASSUME NEW k \in Identities, NEW j \in Identities, ConfirmGet(k, j) PROVE OtherSide(i)'
  <2>1. CASE k = i
    <3>1. request'[i].side = SideOf(i) /\ request'[i].expected = OtherMember(i)
      BY <1>2, <2>1 DEF ConfirmGet, IInv, TypeOK
    <3>. QED
      BY <3>1 DEF FlagsInv, OtherSide, SideOf, OtherMember
  <2>2. CASE k # i
    BY <1>1, <1>2, <2>2 DEF ConfirmGet, IInv, TypeOK
  <2>. QED
    BY <2>1, <2>2
<1>3. ASSUME NEW k \in Identities, ConfirmCompare(k) PROVE OtherSide(i)'
  BY <1>1, <1>3 DEF ConfirmCompare, IInv, TypeOK
<1>4. ASSUME NEW k \in Identities, ConfirmUpdate(k) \/ ConfirmFails(k) PROVE OtherSide(i)'
  <2>1. request'[i] \in {NoRequest, request[i]}
    BY <1>4 DEF ConfirmUpdate, ConfirmFails, IInv, TypeOK
  <2>. QED
    BY <1>1, <2>1 DEF NoRequest
<1>5. CASE UNCHANGED request
  BY <1>1, <1>5
<1>. QED
  BY <1>2, <1>3, <1>4, <1>5
  DEF Next, Register, Trust, SetSuspended, Repoint, ReconcileList, ReconcileUpdate,
      ReconcileFails, vars

\* The flags hold what they stand for in every state.
THEOREM FlagsInvHolds == Spec => []FlagsInv
<1>1. Init => FlagsInv
  BY ConstantsAssumption DEF Init, FlagsInv, NewStatus, NoRequest, Sides
<1>2. IInv /\ FlagsInv /\ [Next]_vars => FlagsInv'
  <2> SUFFICES ASSUME IInv, FlagsInv, [Next]_vars PROVE FlagsInv'
    OBVIOUS
  <2>1. \A i \in Identities : trusts[i] \subseteq trusts'[i]
    <3>1. ASSUME NEW i \in Identities, NEW j \in Identities, Trust(i, j)
          PROVE  \A k \in Identities : trusts[k] \subseteq trusts'[k]
      BY <3>1 DEF Trust, IInv, TypeOK
    <3>2. ASSUME UNCHANGED trusts
          PROVE  \A k \in Identities : trusts[k] \subseteq trusts'[k]
      BY <3>2
    <3>. QED
      BY <3>1, <3>2
      DEF Next, Register, SetSuspended, Repoint, ConfirmGet, ConfirmCompare, ConfirmUpdate,
          ConfirmFails, ReconcileList, ReconcileUpdate, ReconcileFails, vars
  <2>2. ASSUME NEW i \in Identities, ConfirmUpdate(i)
        PROVE  request[i].expected \in trusts[i] /\ request[i].expected \in Identities /\ OtherSide(i)
    BY <2>2 DEF ConfirmUpdate, IInv, TypeOK, RequestOK, FlagsInv
  <2>3. peer.status.confirmed \in [Sides -> BOOLEAN]
    BY DEF IInv, TypeOK, PeerStatus
  <2>4. peer'.local = Local /\ peer'.remote # Local
    <3>1. CASE peer' = peer
      BY <3>1 DEF FlagsInv
    <3>2. CASE Next /\ peer' # peer
      BY <3>2, PeerSteps DEF FlagsInv
    <3>. QED
      BY <3>1, <3>2 DEF vars
  <2>5. ASSUME peer'.status.confirmed["local"]
        PROVE  \E j \in Identities \ {Local} : j \in trusts'[Local]
    <3>1. CASE peer.status.confirmed["local"]
      BY <2>1, <3>1, ConstantsAssumption DEF FlagsInv
    <3>2. CASE ~peer.status.confirmed["local"]
      <4>1. PICK i \in Identities :
              ConfirmUpdate(i) /\ peer'.status.confirmed
                                   = [peer.status.confirmed EXCEPT ![request[i].side] = TRUE]
        BY <2>5, <3>2, PeerSteps DEF vars
      <4>2. request[i].side = "local"
        BY <2>3, <2>5, <3>2, <4>1 DEF Sides
      <4>. QED
        BY <2>1, <2>2, <4>1, <4>2 DEF OtherSide
    <3>. QED
      BY <3>1, <3>2
  <2>6. ASSUME peer'.status.confirmed["remote"]
        PROVE  \E i \in Identities \ {Local} : Local \in trusts'[i]
    <3>1. CASE peer.status.confirmed["remote"]
      BY <2>1, <3>1 DEF FlagsInv
    <3>2. CASE ~peer.status.confirmed["remote"]
      <4>1. PICK i \in Identities :
              ConfirmUpdate(i) /\ peer'.status.confirmed
                                   = [peer.status.confirmed EXCEPT ![request[i].side] = TRUE]
        BY <2>6, <3>2, PeerSteps DEF vars
      <4>2. request[i].side = "remote"
        BY <2>3, <2>6, <3>2, <4>1 DEF Sides
      <4>. QED
        BY <2>1, <2>2, <4>1, <4>2 DEF OtherSide
    <3>. QED
      BY <3>1, <3>2
  <2>. QED
    BY <2>4, <2>5, <2>6, SideStays DEF FlagsInv
<1>. QED
  BY <1>1, <1>2, InductiveInvariant, PTL DEF Spec

\* Whatever was re-pointed, a flag stands for a confirmation of two different
\* members, one of them the local one.
THEOREM FlagsGivenHolds == Spec => []FlagsGiven
<1>1. IInv /\ FlagsInv => FlagsGiven
  <2> SUFFICES ASSUME IInv, FlagsInv PROVE FlagsGiven
    OBVIOUS
  <2>1. CASE repoints = 0
    BY <2>1, ConstantsAssumption DEF IInv, FlagsBacked, FlagsGiven
  <2>2. CASE repoints # 0
    BY <2>2 DEF FlagsInv, FlagsGiven
  <2>. QED
    BY <2>1, <2>2
<1>. QED
  BY <1>1, InductiveInvariant, FlagsInvHolds, PTL
==============================================================================
