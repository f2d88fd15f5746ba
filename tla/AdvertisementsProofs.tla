------------------------ MODULE AdvertisementsProofs ------------------------
(***************************************************************************)
(* Proofs about Advertisements for any number of services, peers,          *)
(* concurrent snapshots and hub replicas. The argument: a handler or a     *)
(* reconciler at work has an advertisement left to work on; and while      *)
(* nobody has written an advertisement since a reconciler listed it, what  *)
(* the reconciler is about to say of its revocation is still so.           *)
(*                                                                         *)
(* The second part is about imports. Seen from them every step does one    *)
(* of four things (ImportSteps): it leaves them alone, publishes an        *)
(* advertisement in a handler that creates its imports next, creates       *)
(* imports, or is a failing call.                                          *)
(***************************************************************************)
EXTENDS Advertisements, TLAPS, WellFoundedInduction

Ads == [exists : BOOLEAN, revoked : BOOLEAN, age : 0..TTL,
        targets : SUBSET Peers, state : AdStates, shown : BOOLEAN]
HandlerRecords == [pc : HandlerStates, snapshot : SUBSET Services,
                   todo : SUBSET Services, targets : SUBSET Peers,
                   age : 0..TTL, fresh : SUBSET Services]
ReconcilerRecords == [pc : {"idle", "update"}, todo : SUBSET Services,
                      state : [Services -> AdStates], fresh : SUBSET Services]

\* Positions of SyncAdvertisements at which it works on an advertisement.
AtItem == {"sweep"} \cup ItemStates

HandlerInv == \A h \in Handlers : handler[h].pc \in AtItem => handler[h].todo # {}

ReconcilerBusy == \A r \in Reconcilers : reconciler[r].pc = "update" => reconciler[r].todo # {}

\* What a reconciler says of the revocation of what it has read and nobody wrote.
ReconcilerRight ==
    \A r \in Reconcilers : \A s \in reconciler[r].fresh :
        reconciler[r].state[s] = "Revoked" <=> ad[s].revoked

IInv ==
    /\ TypeOK
    /\ HandlerInv
    /\ ReconcilerBusy
    /\ ReconcilerRight

\* What StatusTruthful says of a step.
TruthStep ==
    \A s \in Services : ad'[s].state # ad[s].state =>
        (ad'[s].state = "Revoked" <=> ad[s].revoked)

------------------------------------------------------------------------------
(* Lemmas about the operators.                                             *)

\* A nonempty set of numbers has its minimum among its elements.
LEMMA MinInSet ==
    ASSUME NEW S \in SUBSET Nat, S # {}
    PROVE  Min(S) \in S
<1> DEFINE Less == {ss \in Nat \X Nat : ss[1] < ss[2]}
<1>1. IsWellFoundedOn(Less, Nat)
    BY NatLessThanWellFounded DEF OpToRel
<1>2. PICK x \in S : \A y \in S : <<y, x>> \notin Less
  <2> HIDE DEF Less
  <2>. QED
    BY <1>1, WFMin, Zenon
<1>3. ASSUME NEW y \in S PROVE x =< y
  <2>1. x \in Nat /\ y \in Nat /\ <<y, x>> \notin Less
    BY <1>2
  <2>. QED
    BY <2>1
<1>. QED
    BY <1>3 DEF Min

\* An age grows up to the time to live.
LEMMA OlderAge ==
    ASSUME NEW age \in 0..TTL
    PROVE  Older(age) \in 0..TTL
<1>1. {age + 1, TTL} \in SUBSET Nat /\ {age + 1, TTL} # {} /\ TTL \in Nat
    BY ConstantsAssumption
<1>2. Older(age) \in {age + 1, TTL}
    BY <1>1, MinInSet DEF Older
<1>3. CASE age = TTL
  <2>1. {age + 1, TTL} = {TTL + 1, TTL} /\ Min({TTL + 1, TTL}) =< TTL
    <3>1. \E x \in {TTL + 1, TTL} : \A y \in {TTL + 1, TTL} : x =< y
      BY <1>1
    <3>2. \A y \in {TTL + 1, TTL} : Min({TTL + 1, TTL}) =< y
      BY <3>1 DEF Min
    <3>. QED
      BY <1>3, <3>2
  <2>. QED
    BY <1>1, <1>2, <2>1 DEF Older
<1>4. CASE age # TTL
    BY <1>1, <1>2, <1>4
<1>. QED
    BY <1>3, <1>4

\* A handler or a reconciler at work is at an advertisement.
LEMMA ItemInServices ==
    ASSUME NEW todo \in SUBSET Services, todo # {}
    PROVE  Min(todo) \in todo /\ Min(todo) \in Services
<1>1. Services \in SUBSET Nat
    BY ConstantsAssumption DEF Services
<1>. QED
    BY <1>1, MinInSet

\* Making readings stale changes nothing else.
LEMMA StaleHandlers ==
    ASSUME NEW s, handler \in [Handlers -> HandlerRecords]
    PROVE  /\ Stale(handler, s) \in [Handlers -> HandlerRecords]
           /\ \A h \in Handlers : /\ Stale(handler, s)[h].pc = handler[h].pc
                                  /\ Stale(handler, s)[h].todo = handler[h].todo
    BY DEF Stale, HandlerRecords

LEMMA StaleReconcilers ==
    ASSUME NEW s, reconciler \in [Reconcilers -> ReconcilerRecords]
    PROVE  /\ Stale(reconciler, s) \in [Reconcilers -> ReconcilerRecords]
           /\ \A r \in Reconcilers : /\ Stale(reconciler, s)[r].pc = reconciler[r].pc
                                     /\ Stale(reconciler, s)[r].todo = reconciler[r].todo
                                     /\ Stale(reconciler, s)[r].state = reconciler[r].state
                                     /\ Stale(reconciler, s)[r].fresh = reconciler[r].fresh \ {s}
    BY DEF Stale, ReconcilerRecords

\* TypeOK by the names used here.
LEMMA TypeParts ==
    /\ TypeOK => /\ ad \in [Services -> Ads]
                 /\ handler \in [Handlers -> HandlerRecords]
                 /\ reconciler \in [Reconcilers -> ReconcilerRecords]
    /\ IdleHandler \in HandlerRecords /\ IdleHandler.pc = "idle"
    /\ IdleReconciler \in ReconcilerRecords /\ IdleReconciler.pc = "idle"
    /\ IdleReconciler.fresh = {}
<1>1. TypeOK => /\ ad \in [Services -> Ads]
                /\ handler \in [Handlers -> HandlerRecords]
                /\ reconciler \in [Reconcilers -> ReconcilerRecords]
    BY DEF TypeOK, Ads, HandlerRecords, ReconcilerRecords
<1>2. IdleHandler \in HandlerRecords /\ IdleHandler.pc = "idle"
    BY ConstantsAssumption DEF IdleHandler, HandlerRecords, HandlerStates
<1>3. /\ IdleReconciler \in ReconcilerRecords /\ IdleReconciler.pc = "idle"
      /\ IdleReconciler.fresh = {}
    BY DEF IdleReconciler, ReconcilerRecords, AdStates
<1>. QED
    BY <1>1, <1>2, <1>3

\* AdState is a state, and Revoked exactly for what is revoked.
LEMMA AdStateFollows ==
    ASSUME NEW s
    PROVE  AdState(s) \in AdStates /\ (AdState(s) = "Revoked" <=> ad[s].revoked)
<1>1. CASE ad[s].revoked
    BY <1>1 DEF AdState, AdStates
<1>2. CASE ~ad[s].revoked /\ ad[s].age >= TTL
    BY <1>2 DEF AdState, AdStates
<1>3. CASE ~ad[s].revoked /\ ~(ad[s].age >= TTL)
    BY <1>3 DEF AdState, AdStates
<1>. QED
    BY <1>1, <1>2, <1>3

------------------------------------------------------------------------------
(* Every action keeps the invariant, and what StatusTruthful says.         *)

\* Labels, policy and peers change; nobody who is at work is touched.
LEMMA EditStep ==
    ASSUME IInv,
           \/ \E s \in Services : EditLabels(s)
           \/ \E allowed \in SUBSET Services, max \in 0..NumServices : EditPolicy(allowed, max)
           \/ \E p \in Peers : EditPeer(p)
    PROVE  IInv' /\ TruthStep
<1>1. TypeOK
    BY DEF IInv
<1>2. Edit
    BY DEF EditLabels, EditPolicy, EditPeer
<1>3. UNCHANGED <<routes, ad, imports, handler, reconciler, failures>> /\ edits' \in 0..MaxEdits
    BY <1>1, <1>2, ConstantsAssumption DEF TypeOK, Edit
<1>4. /\ labelled' \subseteq Services
      /\ policy' \in [allowed : SUBSET Services, max : 0..NumServices]
      /\ ready' \subseteq Peers
  <2>1. CASE \E s \in Services : EditLabels(s)
    BY <1>1, <2>1 DEF TypeOK, EditLabels
  <2>2. CASE \E allowed \in SUBSET Services, max \in 0..NumServices : EditPolicy(allowed, max)
    BY <1>1, <2>2 DEF TypeOK, EditPolicy
  <2>3. CASE \E p \in Peers : EditPeer(p)
    BY <1>1, <2>3 DEF TypeOK, EditPeer
  <2>. QED
    BY <2>1, <2>2, <2>3
<1>5. TypeOK'
    BY <1>1, <1>3, <1>4 DEF TypeOK
<1>. QED
    BY <1>3, <1>5 DEF IInv, HandlerInv, ReconcilerBusy, ReconcilerRight, TruthStep

\* Time passes: what is revoked stays revoked.
LEMMA TickStep ==
    ASSUME IInv, Tick
    PROVE  IInv' /\ TruthStep
<1>1. /\ TypeOK
      /\ ad \in [Services -> Ads]
      /\ handler \in [Handlers -> HandlerRecords]
    BY TypeParts DEF IInv
<1>2. 0 \in 0..TTL
    BY ConstantsAssumption
<1>3. /\ ad' \in [Services -> Ads]
      /\ \A s \in Services : ad'[s].state = ad[s].state /\ ad'[s].revoked = ad[s].revoked
  <2> DEFINE age(s) == IF ad[s].exists THEN Older(ad[s].age) ELSE ad[s].age
  <2>1. \A s \in Services : age(s) \in 0..TTL
    BY <1>1, OlderAge DEF Ads
  <2>2. ad' = [s \in Services |-> [ad[s] EXCEPT !.age = age(s)]]
    BY DEF Tick
  <2> HIDE DEF age
  <2>. QED
    BY <1>1, <2>1, <2>2 DEF Ads
<1>4. /\ handler' \in [Handlers -> HandlerRecords]
      /\ \A h \in Handlers : handler'[h].pc = handler[h].pc /\ handler'[h].todo = handler[h].todo
  <2> DEFINE age(h) == IF handler[h].pc \in ItemStates THEN Older(handler[h].age) ELSE 0
  <2>1. \A h \in Handlers : age(h) \in 0..TTL
    BY <1>1, <1>2, OlderAge DEF HandlerRecords
  <2>2. handler' = [h \in Handlers |-> [handler[h] EXCEPT !.age = age(h)]]
    BY DEF Tick
  <2> HIDE DEF age
  <2>. QED
    BY <1>1, <2>1, <2>2 DEF HandlerRecords
<1>5. UNCHANGED <<labelled, policy, ready, edits, routes, imports, reconciler, failures>>
    BY DEF Tick, world
<1>6. TypeOK'
    BY <1>1, <1>3, <1>4, <1>5 DEF TypeOK, Ads, HandlerRecords
<1>7. HandlerInv' /\ ReconcilerBusy'
    BY <1>4, <1>5 DEF IInv, HandlerInv, ReconcilerBusy
<1>8. ReconcilerRight' /\ TruthStep
  <2>1. \A r \in Reconcilers : reconciler[r].fresh \subseteq Services
    BY <1>1 DEF TypeOK
  <2>. QED
    BY <1>3, <1>5, <2>1 DEF IInv, ReconcilerRight, TruthStep
<1>. QED
    BY <1>6, <1>7, <1>8 DEF IInv

\* A handler goes on with its own record, and writes no advertisement.
LEMMA HandlerMoves ==
    ASSUME IInv, NEW h \in Handlers, NEW next \in HandlerRecords,
           next.pc \in AtItem => next.todo # {},
           handler' = [handler EXCEPT ![h] = next],
           UNCHANGED <<world, ad, reconciler>>,
           routes' \subseteq Services, imports' \subseteq Services \X Peers,
           failures' \in 0..MaxFailures
    PROVE  IInv' /\ TruthStep
<1>1. TypeOK /\ handler \in [Handlers -> HandlerRecords]
    BY TypeParts DEF IInv
<1>2. handler' \in [Handlers -> HandlerRecords]
    BY <1>1
<1>3. HandlerInv'
    BY <1>1 DEF IInv, HandlerInv
<1>4. UNCHANGED <<labelled, policy, ready, edits, ad, reconciler>>
    BY DEF world
<1>5. TypeOK'
    BY <1>1, <1>2, <1>4 DEF TypeOK, HandlerRecords
<1>. QED
    BY <1>3, <1>4, <1>5 DEF IInv, ReconcilerBusy, ReconcilerRight, TruthStep

\* A handler writes an advertisement, and leaves its status alone: readings
\* that the write makes wrong are stale.
LEMMA HandlerWrites ==
    ASSUME IInv, NEW h \in Handlers, NEW s \in Services, NEW new \in Ads, new.state = ad[s].state,
           NEW next \in HandlerRecords, next.pc \in AtItem => next.todo # {},
           WriteBy(h, s, new, next),
           UNCHANGED <<world, routes, imports, failures>>
    PROVE  IInv' /\ TruthStep
<1>1. /\ TypeOK
      /\ ad \in [Services -> Ads]
      /\ handler \in [Handlers -> HandlerRecords]
      /\ reconciler \in [Reconcilers -> ReconcilerRecords]
    BY TypeParts DEF IInv
<1>2. /\ ad' \in [Services -> Ads]
      /\ ad'[s] = new
      /\ \A t \in Services \ {s} : ad'[t] = ad[t]
    BY <1>1 DEF WriteBy
<1>3. handler' \in [Handlers -> HandlerRecords] /\ HandlerInv'
  <2> DEFINE others == IF new = ad[s] THEN handler ELSE Stale(handler, s)
  <2>1. /\ others \in [Handlers -> HandlerRecords]
        /\ \A g \in Handlers : others[g].pc = handler[g].pc /\ others[g].todo = handler[g].todo
    BY <1>1, StaleHandlers
  <2>2. handler' = [others EXCEPT ![h] = next]
    BY DEF WriteBy
  <2> HIDE DEF others
  <2>. QED
    BY <2>1, <2>2 DEF IInv, HandlerInv
<1>4. /\ reconciler' \in [Reconcilers -> ReconcilerRecords]
      /\ \A r \in Reconcilers :
            /\ reconciler'[r].pc = reconciler[r].pc
            /\ reconciler'[r].todo = reconciler[r].todo
            /\ reconciler'[r].state = reconciler[r].state
            /\ reconciler'[r].fresh \subseteq reconciler[r].fresh
            /\ new # ad[s] => s \notin reconciler'[r].fresh
  <2>1. CASE new = ad[s]
    BY <1>1, <2>1 DEF WriteBy
  <2>2. CASE new # ad[s]
    BY <1>1, <2>2, StaleReconcilers DEF WriteBy
  <2>. QED
    BY <2>1, <2>2
<1>5. UNCHANGED <<labelled, policy, ready, edits, routes, imports, failures>>
    BY DEF world
<1>6. TypeOK'
    BY <1>1, <1>2, <1>3, <1>4, <1>5 DEF TypeOK, Ads, HandlerRecords, ReconcilerRecords
<1>7. ReconcilerBusy'
    BY <1>4 DEF IInv, ReconcilerBusy
<1>8. ReconcilerRight'
  <2> SUFFICES ASSUME NEW r \in Reconcilers, NEW t \in reconciler'[r].fresh
               PROVE  reconciler'[r].state[t] = "Revoked" <=> ad'[t].revoked
    BY DEF ReconcilerRight
  <2>1. t \in reconciler[r].fresh /\ t \in Services /\ ad'[t] = ad[t]
    BY <1>1, <1>2, <1>4 DEF ReconcilerRecords
  <2>. QED
    BY <1>4, <2>1 DEF IInv, ReconcilerRight
<1>9. TruthStep
    BY <1>2 DEF TruthStep
<1>. QED
    BY <1>3, <1>6, <1>7, <1>8, <1>9 DEF IInv

\* publishServices and SyncAdvertisements up to its next write.
LEMMA HandlerStep ==
    ASSUME IInv, NEW h \in Handlers,
           \/ PublishServices(h) \/ SyncStart(h) \/ SyncCheck(h) \/ SyncGet(h)
           \/ SyncImports(h) \/ SyncList(h) \/ SyncFails(h)
    PROVE  IInv' /\ TruthStep
<1>1. /\ TypeOK
      /\ handler[h] \in HandlerRecords
      /\ handler[h].pc \in AtItem => /\ handler[h].todo # {}
                                     /\ NextItem(h) \in handler[h].todo
                                     /\ NextItem(h) \in Services
  <2>1. TypeOK /\ handler[h] \in HandlerRecords
    BY TypeParts DEF IInv
  <2>2. handler[h].pc \in AtItem => handler[h].todo # {}
    BY DEF IInv, HandlerInv
  <2>3. handler[h].todo \in SUBSET Services
    BY <2>1 DEF HandlerRecords
  <2>. QED
    BY <2>1, <2>2, <2>3, ItemInServices DEF NextItem
<1>2. 0 \in 0..TTL /\ 0 \in 0..MaxFailures /\ MaxFailures \in Nat
    BY ConstantsAssumption
<1>3. UNCHANGED <<world, ad, reconciler>>
    BY DEF PublishServices, SyncStart, SyncCheck, SyncGet, SyncImports, SyncList, SyncFails
<1>4. failures' \in 0..MaxFailures
    BY <1>1, <1>2
       DEF TypeOK, PublishServices, SyncStart, SyncCheck, SyncGet, SyncImports, SyncList, SyncFails
<1>5. routes' \subseteq Services
    BY <1>1
       DEF TypeOK, PublishServices, SyncStart, SyncCheck, SyncGet, SyncImports, SyncList, SyncFails
<1>6. imports' \subseteq Services \X Peers
  <2>1. CASE SyncImports(h)
    <3>1. handler[h].targets \subseteq Peers /\ NextItem(h) \in Services
      BY <1>1, <2>1 DEF SyncImports, HandlerRecords, AtItem, ItemStates
    <3>. QED
      BY <1>1, <2>1, <3>1 DEF SyncImports, TypeOK
  <2>2. CASE imports' = imports
    BY <1>1, <2>2 DEF TypeOK
  <2>. QED
    BY <2>1, <2>2 DEF PublishServices, SyncStart, SyncCheck, SyncGet, SyncList, SyncFails
<1> DEFINE Good(next) == next \in HandlerRecords /\ (next.pc \in AtItem => next.todo # {})
           Goes(next) == handler' = [handler EXCEPT ![h] = next]
<1>7. \E next : Good(next) /\ Goes(next)
  <2>1. Good(IdleHandler)
    BY TypeParts DEF AtItem, ItemStates
  <2>2. CASE PublishServices(h)
    <3> DEFINE next == [IdleHandler EXCEPT !.pc = "sent", !.snapshot = labelled]
    <3>1. Goes(next)
      BY <2>2 DEF PublishServices
    <3>2. next.pc = "sent" /\ next \in HandlerRecords
      BY <1>1, <1>2 DEF IdleHandler, HandlerRecords, HandlerStates, TypeOK
    <3>. QED
      BY <3>1, <3>2 DEF AtItem, ItemStates
  <2>3. CASE SyncStart(h)
    <3> DEFINE snapshot == handler[h].snapshot
               pc == IF snapshot = {} THEN "list" ELSE "check"
               next == [handler[h] EXCEPT !.age = 0, !.todo = snapshot, !.pc = pc]
    <3>1. handler' = [handler EXCEPT ![h].age = 0, ![h].todo = snapshot, ![h].pc = pc]
      BY <2>3 DEF SyncStart
    <3>2. pc \in HandlerStates /\ (pc \in AtItem => snapshot # {})
      BY DEF HandlerStates, AtItem, ItemStates
    <3>3. snapshot \in SUBSET Services
      BY <1>1 DEF HandlerRecords
    <3> HIDE DEF snapshot, pc
    <3>4. Goes(next)
      BY <3>1, TypeParts DEF IInv
    <3>5. Good(next)
      BY <1>1, <1>2, <3>2, <3>3 DEF HandlerRecords
    <3>. QED
      BY <3>4, <3>5
  <2>4. CASE SyncCheck(h)
    <3> DEFINE next == [handler[h] EXCEPT !.pc = "get", !.targets = Targets(NextItem(h))]
    <3>1. Goes(next) \/ Goes(IdleHandler)
      BY <2>4 DEF SyncCheck
    <3>2. Targets(NextItem(h)) \in SUBSET Peers
      BY <1>1 DEF Targets, TypeOK
    <3>3. handler[h].todo # {}
      BY <1>1, <2>4 DEF SyncCheck, AtItem, ItemStates
    <3>4. Good(next)
      BY <1>1, <3>2, <3>3 DEF HandlerRecords, HandlerStates, ItemStates
    <3>. QED
      BY <2>1, <3>1, <3>4
  <2>5. CASE SyncGet(h)
    <3> DEFINE next == [handler[h] EXCEPT !.pc = "write", !.fresh = @ \cup {NextItem(h)}]
    <3>1. Goes(next)
      BY <2>5, TypeParts DEF SyncGet, IInv
    <3>2. handler[h].todo # {} /\ NextItem(h) \in Services
      BY <1>1, <2>5 DEF SyncGet, AtItem, ItemStates
    <3>3. Good(next)
      BY <1>1, <3>2 DEF HandlerRecords, HandlerStates, ItemStates
    <3>. QED
      BY <3>1, <3>3
  <2>6. CASE SyncImports(h)
    <3> DEFINE todo == Remaining(h)
               pc == IF todo = {} THEN "list" ELSE "check"
               next == [handler[h] EXCEPT !.todo = todo, !.targets = {}, !.pc = pc]
    <3>1. handler' = [handler EXCEPT ![h].todo = todo, ![h].targets = {}, ![h].pc = pc]
      BY <2>6 DEF SyncImports
    <3>2. pc \in HandlerStates /\ (pc \in AtItem => todo # {})
      BY DEF HandlerStates, AtItem, ItemStates
    <3>3. todo \in SUBSET Services
      BY <1>1 DEF HandlerRecords, Remaining
    <3> HIDE DEF todo, pc
    <3>4. Goes(next)
      BY <3>1, TypeParts DEF IInv
    <3>5. Good(next)
      BY <1>1, <3>2, <3>3 DEF HandlerRecords
    <3>. QED
      BY <3>4, <3>5
  <2>7. CASE SyncList(h)
    <3> DEFINE others == {s \in Services : ad[s].exists} \ handler[h].snapshot
               next == [IdleHandler EXCEPT !.pc = "sweep", !.todo = others, !.fresh = others]
    <3>1. (others # {} /\ Goes(next)) \/ Goes(IdleHandler)
      BY <2>7 DEF SyncList
    <3>2. others \in SUBSET Services
      OBVIOUS
    <3> HIDE DEF others
    <3>3. others # {} => Good(next)
      BY <3>2, TypeParts DEF HandlerRecords, HandlerStates
    <3>. QED
      BY <2>1, <3>1, <3>3
  <2>8. CASE SyncFails(h)
    BY <2>1, <2>8 DEF SyncFails
  <2>. QED
    BY <2>2, <2>3, <2>4, <2>5, <2>6, <2>7, <2>8
<1>. QED
    BY <1>3, <1>4, <1>5, <1>6, <1>7, HandlerMoves

\* SyncAdvertisements writes the next advertisement, or ends with a conflict.
LEMMA SyncWriteStep ==
    ASSUME IInv, NEW h \in Handlers, SyncWrite(h)
    PROVE  IInv' /\ TruthStep
<1> DEFINE s == NextItem(h)
           next == [handler[h] EXCEPT !.pc = "imports"]
<1>1. /\ TypeOK
      /\ ad \in [Services -> Ads]
      /\ handler[h] \in HandlerRecords
    BY TypeParts DEF IInv
<1>2. handler[h].todo # {}
    BY DEF IInv, HandlerInv, SyncWrite, AtItem, ItemStates
<1>3. s \in Services
    BY <1>1, <1>2, ItemInServices DEF NextItem, HandlerRecords
<1>4. UNCHANGED <<world, routes, imports, failures>>
    BY DEF SyncWrite
<1>5. CASE s \in handler[h].fresh
  <2>1. WriteBy(h, s, Published(h, s), next)
    BY <1>5 DEF SyncWrite
  <2>2. Published(h, s) \in Ads /\ Published(h, s).state = ad[s].state
    BY <1>1, <1>3 DEF Published, Ads, HandlerRecords
  <2>3. next \in HandlerRecords /\ next.todo # {}
    BY <1>1, <1>2 DEF HandlerRecords, HandlerStates, ItemStates
  <2> HIDE DEF next, s
  <2>. QED
    BY <1>3, <1>4, <2>1, <2>2, <2>3, HandlerWrites
<1>6. CASE s \notin handler[h].fresh
  <2>1. handler' = [handler EXCEPT ![h] = IdleHandler] /\ UNCHANGED <<ad, reconciler>>
    BY <1>6 DEF SyncWrite
  <2>2. routes' \subseteq Services /\ imports' \subseteq Services \X Peers
        /\ failures' \in 0..MaxFailures
    BY <1>1, <1>4 DEF TypeOK
  <2>. QED
    BY <1>4, <2>1, <2>2, HandlerMoves, TypeParts DEF AtItem, ItemStates
<1>. QED
    BY <1>5, <1>6

\* The sweep marks the next advertisement revoked; a failure is ignored.
LEMMA SyncRevokeStep ==
    ASSUME IInv, NEW h \in Handlers, SyncRevoke(h)
    PROVE  IInv' /\ TruthStep
<1> DEFINE s == NextItem(h)
           new == [ad[s] EXCEPT !.revoked = TRUE]
           next == IF Remaining(h) = {} THEN IdleHandler
                   ELSE [handler[h] EXCEPT !.todo = Remaining(h)]
<1>1. /\ TypeOK
      /\ ad \in [Services -> Ads]
      /\ handler[h] \in HandlerRecords
    BY TypeParts DEF IInv
<1>2. handler[h].todo # {}
    BY DEF IInv, HandlerInv, SyncRevoke, AtItem
<1>3. s \in Services
    BY <1>1, <1>2, ItemInServices DEF NextItem, HandlerRecords
<1>4. UNCHANGED <<world, routes, imports, failures>>
    BY DEF SyncRevoke
<1>5. next \in HandlerRecords /\ (next.pc \in AtItem => next.todo # {})
  <2>1. CASE Remaining(h) = {}
    BY <2>1, TypeParts DEF AtItem, ItemStates
  <2>2. CASE Remaining(h) # {}
    <3>1. Remaining(h) \in SUBSET Services
      BY <1>1 DEF HandlerRecords, Remaining
    <3>2. [handler[h] EXCEPT !.todo = Remaining(h)] \in HandlerRecords
      BY <1>1, <3>1 DEF HandlerRecords
    <3>3. [handler[h] EXCEPT !.todo = Remaining(h)].todo = Remaining(h)
      BY <1>1 DEF HandlerRecords
    <3>. QED
      BY <2>2, <3>2, <3>3
  <2>. QED
    BY <2>1, <2>2
<1>6. new \in Ads /\ new.state = ad[s].state
    BY <1>1, <1>3 DEF Ads
<1>7. CASE s \in handler[h].fresh
  <2>1. WriteBy(h, s, new, next)
    BY <1>7 DEF SyncRevoke
  <2> HIDE DEF next, s, new
  <2>2. new.state = ad[s].state
    BY <1>6
  <2>. QED
    BY <1>3, <1>4, <1>5, <1>6, <2>1, <2>2, HandlerWrites
<1>8. CASE s \notin handler[h].fresh
  <2>1. handler' = [handler EXCEPT ![h] = next] /\ UNCHANGED <<ad, reconciler>>
    BY <1>8 DEF SyncRevoke
  <2>2. routes' \subseteq Services /\ imports' \subseteq Services \X Peers
        /\ failures' \in 0..MaxFailures
    BY <1>1, <1>4 DEF TypeOK
  <2> HIDE DEF next
  <2>. QED
    BY <1>4, <1>5, <2>1, <2>2, HandlerMoves
<1>. QED
    BY <1>7, <1>8

\* A reconciler's record changes; the other variables are as before.
LEMMA ReconcilerMoves ==
    ASSUME IInv, NEW r \in Reconcilers, NEW next \in ReconcilerRecords,
           next.pc = "update" => next.todo # {},
           \A s \in next.fresh : next.state[s] = "Revoked" <=> ad[s].revoked,
           reconciler' = [reconciler EXCEPT ![r] = next],
           UNCHANGED <<world, routes, ad, imports, handler>>, failures' \in 0..MaxFailures
    PROVE  IInv' /\ TruthStep
<1>1. TypeOK /\ reconciler \in [Reconcilers -> ReconcilerRecords]
    BY TypeParts DEF IInv
<1>2. /\ reconciler' \in [Reconcilers -> ReconcilerRecords]
      /\ \A q \in Reconcilers : reconciler'[q] = IF q = r THEN next ELSE reconciler[q]
    BY <1>1
<1>3. UNCHANGED <<labelled, policy, ready, edits, routes, ad, imports, handler>>
    BY DEF world
<1>4. TypeOK'
    BY <1>1, <1>2, <1>3 DEF TypeOK, ReconcilerRecords
<1>5. HandlerInv' /\ ReconcilerBusy'
    BY <1>2, <1>3 DEF IInv, HandlerInv, ReconcilerBusy
<1>6. ReconcilerRight'
    BY <1>2, <1>3 DEF IInv, ReconcilerRight
<1>7. TruthStep
    BY <1>3 DEF TruthStep
<1>. QED
    BY <1>4, <1>5, <1>6, <1>7 DEF IInv

\* reconcileAdvertisements lists, or its replica stops.
LEMMA ReconcileListStep ==
    ASSUME IInv, NEW r \in Reconcilers, ReconcileList(r) \/ ReconcileStops(r)
    PROVE  IInv' /\ TruthStep
<1>1. TypeOK
    BY DEF IInv
<1>2. UNCHANGED <<world, routes, ad, imports, handler>>
    BY DEF ReconcileList, ReconcileStops
<1>3. failures' \in 0..MaxFailures
    BY <1>1, ConstantsAssumption DEF TypeOK, ReconcileList, ReconcileStops
<1>4. CASE ReconcileStops(r)
    BY <1>2, <1>3, <1>4, ReconcilerMoves, TypeParts DEF ReconcileStops
<1>5. CASE ReconcileList(r)
  <2> DEFINE listed == {s \in Services : ad[s].exists}
             state == [s \in Services |-> IF s \in listed THEN AdState(s) ELSE "none"]
             next == [pc |-> "update", todo |-> listed, fresh |-> listed, state |-> state]
  <2>1. listed # {} /\ reconciler' = [reconciler EXCEPT ![r] = next]
    BY <1>5 DEF ReconcileList
  <2>2. listed \in SUBSET Services
    OBVIOUS
  <2>3. state \in [Services -> AdStates] /\ \A s \in listed : state[s] = AdState(s)
    BY AdStateFollows DEF AdStates
  <2> HIDE DEF listed, state
  <2>4. next \in ReconcilerRecords /\ next.todo # {}
    BY <2>1, <2>2, <2>3 DEF ReconcilerRecords
  <2>5. \A s \in next.fresh : next.state[s] = "Revoked" <=> ad[s].revoked
    BY <2>3, AdStateFollows
  <2> HIDE DEF next
  <2>. QED
    BY <1>2, <1>3, <2>1, <2>4, <2>5, ReconcilerMoves
<1>. QED
    BY <1>4, <1>5

\* reconcileAdvertisements writes the next status, if nobody has written the
\* advertisement since the List.
LEMMA ReconcileUpdateStep ==
    ASSUME IInv, NEW r \in Reconcilers, ReconcileUpdate(r)
    PROVE  IInv' /\ TruthStep
<1> DEFINE s == Min(reconciler[r].todo)
           new == [ad[s] EXCEPT !.state = reconciler[r].state[s], !.shown = TRUE]
           next == IF reconciler[r].todo = {s} THEN IdleReconciler
                   ELSE [reconciler[r] EXCEPT !.todo = @ \ {s}]
           others == IF ad' = ad THEN reconciler ELSE Stale(reconciler, s)
<1>1. /\ TypeOK
      /\ ad \in [Services -> Ads]
      /\ handler \in [Handlers -> HandlerRecords]
      /\ reconciler \in [Reconcilers -> ReconcilerRecords]
    BY TypeParts DEF IInv
<1>2. reconciler[r].todo # {} /\ reconciler[r].todo \in SUBSET Services
    BY <1>1 DEF IInv, ReconcilerBusy, ReconcileUpdate, ReconcilerRecords
<1>3. s \in Services /\ s \in reconciler[r].todo
    BY <1>2, ItemInServices
<1>4. /\ UNCHANGED <<labelled, policy, ready, edits, routes, imports, failures>>
      /\ reconciler' = [others EXCEPT ![r] = next]
    BY DEF ReconcileUpdate, ReconcileAdvance, world
<1>5. \/ /\ s \in reconciler[r].fresh
         /\ ad' = [ad EXCEPT ![s] = new]
         /\ handler' = IF new = ad[s] THEN handler ELSE Stale(handler, s)
      \/ UNCHANGED <<ad, handler>>
    BY DEF ReconcileUpdate, StatusWrite
<1>6. new \in Ads /\ new.revoked = ad[s].revoked /\ new.state = reconciler[r].state[s]
  <2> DEFINE state == reconciler[r].state[s]
  <2>1. state \in AdStates /\ ad[s] \in Ads
    BY <1>1, <1>3 DEF ReconcilerRecords
  <2>2. new = [ad[s] EXCEPT !.state = state, !.shown = TRUE]
    OBVIOUS
  <2> HIDE DEF state, new, s
  <2>3. new \in Ads /\ new.revoked = ad[s].revoked /\ new.state = state
    BY <2>1, <2>2 DEF Ads
  <2>. QED
    BY <2>3 DEF state
<1>7. /\ next \in ReconcilerRecords
      /\ next.pc = "update" => next.todo # {}
      /\ next.fresh \subseteq reconciler[r].fresh
      /\ next.fresh # {} => next.state = reconciler[r].state
  <2>1. CASE reconciler[r].todo = {s}
    BY <2>1, TypeParts
  <2>2. CASE reconciler[r].todo # {s}
    <3>1. reconciler[r].todo \ {s} # {}
      BY <1>3, <2>2
    <3>2. reconciler[r] \in ReconcilerRecords
      BY <1>1
    <3>. QED
      BY <2>2, <3>1, <3>2 DEF ReconcilerRecords
  <2>. QED
    BY <2>1, <2>2
<1> HIDE DEF s, new, next
<1>8. /\ others \in [Reconcilers -> ReconcilerRecords]
      /\ \A q \in Reconcilers :
            /\ others[q].pc = reconciler[q].pc
            /\ others[q].todo = reconciler[q].todo
            /\ others[q].state = reconciler[q].state
            /\ others[q].fresh \subseteq reconciler[q].fresh
    BY <1>1, StaleReconcilers
<1> HIDE DEF others
<1>9. /\ reconciler' \in [Reconcilers -> ReconcilerRecords]
      /\ reconciler'[r] = next
      /\ \A q \in Reconcilers \ {r} : reconciler'[q] = others[q]
  <2>1. reconciler' = [others EXCEPT ![r] = next]
    BY <1>4
  <2>2. others \in [Reconcilers -> ReconcilerRecords] /\ next \in ReconcilerRecords
    BY <1>7, <1>8
  <2>. QED
    BY <2>1, <2>2
<1>10. /\ handler' \in [Handlers -> HandlerRecords]
       /\ \A h \in Handlers : handler'[h].pc = handler[h].pc /\ handler'[h].todo = handler[h].todo
    BY <1>1, <1>5, StaleHandlers
<1>11. /\ ad' \in [Services -> Ads]
       /\ \A t \in Services : ad'[t].revoked = ad[t].revoked
    BY <1>1, <1>3, <1>5, <1>6
<1>12. TypeOK'
    BY <1>1, <1>4, <1>9, <1>10, <1>11 DEF TypeOK, Ads, HandlerRecords, ReconcilerRecords
<1>13. HandlerInv' /\ ReconcilerBusy'
  <2>1. HandlerInv'
    BY <1>10 DEF IInv, HandlerInv
  <2>2. ASSUME NEW q \in Reconcilers, reconciler'[q].pc = "update" PROVE reconciler'[q].todo # {}
    <3>1. CASE q = r
      BY <1>7, <1>9, <2>2, <3>1
    <3>2. CASE q # r
      BY <1>8, <1>9, <2>2, <3>2 DEF IInv, ReconcilerBusy
    <3>. QED
      BY <3>1, <3>2
  <2>. QED
    BY <2>1, <2>2 DEF ReconcilerBusy
<1>14. ReconcilerRight'
  <2> SUFFICES ASSUME NEW q \in Reconcilers, NEW t \in reconciler'[q].fresh
               PROVE  reconciler'[q].state[t] = "Revoked" <=> ad'[t].revoked
    BY DEF ReconcilerRight
  <2>1. t \in reconciler[q].fresh /\ reconciler'[q].state = reconciler[q].state
    <3>1. CASE q = r
      BY <1>7, <1>9, <3>1
    <3>2. CASE q # r
      BY <1>8, <1>9, <3>2
    <3>. QED
      BY <3>1, <3>2
  <2>2. t \in Services
    BY <1>1, <2>1 DEF ReconcilerRecords
  <2>. QED
    BY <1>11, <2>1, <2>2 DEF IInv, ReconcilerRight
<1>15. TruthStep
  <2> SUFFICES ASSUME NEW t \in Services, ad'[t].state # ad[t].state
               PROVE  ad'[t].state = "Revoked" <=> ad[t].revoked
    BY DEF TruthStep
  <2>1. t = s /\ s \in reconciler[r].fresh /\ ad'[s] = new
    BY <1>1, <1>3, <1>5
  <2>. QED
    BY <1>6, <2>1 DEF IInv, ReconcilerRight
<1>. QED
    BY <1>12, <1>13, <1>14, <1>15 DEF IInv

------------------------------------------------------------------------------
(* Theorems.                                                               *)

\* Nothing is published yet, and nobody is at work.
LEMMA InitInv == Init => IInv
<1> SUFFICES ASSUME Init PROVE IInv
    OBVIOUS
<1>1. /\ labelled \subseteq Services /\ ready \subseteq Peers
      /\ routes \subseteq Services /\ imports \subseteq Services \X Peers
    BY DEF Init
<1>2. policy \in [allowed : SUBSET Services, max : 0..NumServices]
    BY ConstantsAssumption DEF Init
<1>3. NoAd \in Ads
    BY ConstantsAssumption DEF NoAd, Ads, AdStates
<1>4. ad \in [Services -> Ads]
    BY <1>3 DEF Init
<1>5. handler \in [Handlers -> HandlerRecords] /\ HandlerInv
    BY TypeParts DEF Init, HandlerInv, AtItem, ItemStates
<1>6. reconciler \in [Reconcilers -> ReconcilerRecords] /\ ReconcilerBusy /\ ReconcilerRight
    BY TypeParts DEF Init, ReconcilerBusy, ReconcilerRight
<1>7. edits \in 0..MaxEdits /\ failures \in 0..MaxFailures
    BY ConstantsAssumption DEF Init
<1>8. TypeOK
    BY <1>1, <1>2, <1>4, <1>5, <1>6, <1>7 DEF TypeOK, Ads, HandlerRecords, ReconcilerRecords
<1>. QED
    BY <1>5, <1>6, <1>8 DEF IInv

\* One action at a time.
LEMMA NextInv == IInv /\ [Next]_vars => IInv' /\ TruthStep
<1> SUFFICES ASSUME IInv, [Next]_vars PROVE IInv' /\ TruthStep
    OBVIOUS
<1> DEFINE Goal == IInv' /\ TruthStep
<1>1. CASE Tick
    BY <1>1, TickStep
<1>2. CASE \/ \E s \in Services : EditLabels(s)
           \/ \E allowed \in SUBSET Services, max \in 0..NumServices : EditPolicy(allowed, max)
           \/ \E p \in Peers : EditPeer(p)
    BY <1>2, EditStep
<1>3. ASSUME NEW h \in Handlers,
             \/ PublishServices(h) \/ SyncStart(h) \/ SyncCheck(h) \/ SyncGet(h)
             \/ SyncImports(h) \/ SyncList(h) \/ SyncFails(h)
      PROVE  Goal
    BY <1>3, HandlerStep
<1>4. ASSUME NEW h \in Handlers, SyncWrite(h) PROVE Goal
    BY <1>4, SyncWriteStep
<1>5. ASSUME NEW h \in Handlers, SyncRevoke(h) PROVE Goal
    BY <1>5, SyncRevokeStep
<1>6. ASSUME NEW r \in Reconcilers, ReconcileList(r) \/ ReconcileStops(r) PROVE Goal
    BY <1>6, ReconcileListStep
<1>7. ASSUME NEW r \in Reconcilers, ReconcileUpdate(r) PROVE Goal
    BY <1>7, ReconcileUpdateStep
<1>8. CASE UNCHANGED vars
  <2>1. UNCHANGED <<labelled, policy, ready, routes, ad, imports, handler, reconciler, edits,
                    failures>>
    BY <1>8 DEF vars
  <2>. QED
    BY <2>1 DEF IInv, TypeOK, HandlerInv, ReconcilerBusy, ReconcilerRight, TruthStep
<1> HIDE DEF Goal
<1>9. Goal
    BY <1>1, <1>2, <1>3, <1>4, <1>5, <1>6, <1>7, <1>8 DEF Next, Goal
<1>. QED
    BY <1>9 DEF Goal

\* The inductive invariant.
THEOREM InductiveInvariant == Spec => []IInv
<1>1. IInv /\ [Next]_vars => IInv'
    BY NextInv
<1>. QED
    BY InitInv, <1>1, PTL DEF Spec

\* Type correctness of advertisements, handlers and reconcilers.
THEOREM TypeCorrect == Spec => []TypeOK
<1>1. IInv => TypeOK
    BY DEF IInv
<1>. QED
    BY <1>1, InductiveInvariant, PTL

\* reconcileAdvertisements shows Revoked exactly for what is revoked when it
\* writes, however many snapshots and replicas are at work.
THEOREM StatusTruthfulHolds == Spec => StatusTruthful
<1>1. IInv /\ [Next]_vars => [TruthStep]_ad
    BY NextInv
<1>. QED
    BY <1>1, InductiveInvariant, PTL DEF Spec, StatusTruthful, TruthStep

------------------------------------------------------------------------------
(* Imports.                                                                *)

\* A handler that creates imports, before and after a step.
Creating(h, s, p) == handler[h].pc = "imports" /\ NextItem(h) = s /\ p \in handler[h].targets

SameHandler(h) == /\ handler'[h].pc = "imports" <=> handler[h].pc = "imports"
                  /\ handler[h].pc = "imports" => /\ handler'[h].todo = handler[h].todo
                                                  /\ handler'[h].targets = handler[h].targets

SameAd(s) == ad'[s].exists = ad[s].exists /\ ad'[s].targets = ad[s].targets

\* The invariant: imports, present or about to be created, have their
\* advertisement, and while no call failed every target has its import.
ImportsInv ==
    /\ \A x \in imports : ad[x[1]].exists
    /\ \A h \in Handlers : handler[h].pc = "imports" => ad[NextItem(h)].exists
    /\ failures = 0 =>
          \A s \in Services : \A p \in ad[s].targets :
              <<s, p>> \in imports \/ \E h \in Handlers : Creating(h, s, p)

\* What a step may do: nothing to advertisements and imports; publish an
\* advertisement, with the imports to come; create them; or fail.
NothingWritten ==
    /\ imports' = imports /\ failures' = failures
    /\ \A s \in Services : SameAd(s)
    /\ \A h \in Handlers : SameHandler(h)
AdWritten(h) ==
    /\ imports' = imports /\ failures' = failures
    /\ NextItem(h) \in Services
    /\ ad'[NextItem(h)].exists /\ ad'[NextItem(h)].targets = handler[h].targets
    /\ \A s \in Services \ {NextItem(h)} : SameAd(s)
    /\ handler[h].pc = "write" /\ handler'[h].pc = "imports"
    /\ handler'[h].todo = handler[h].todo /\ handler'[h].targets = handler[h].targets
    /\ \A g \in Handlers \ {h} : SameHandler(g)
ImportsCreated(h) ==
    /\ imports' = imports \cup ({NextItem(h)} \X handler[h].targets) /\ failures' = failures
    /\ NextItem(h) \in Services
    /\ \A s \in Services : SameAd(s)
    /\ handler[h].pc = "imports" /\ handler'[h].pc # "imports"
    /\ \A g \in Handlers \ {h} : SameHandler(g)
CallFailed ==
    /\ imports' = imports /\ failures' # 0
    /\ \A s \in Services : SameAd(s)
    /\ \A h \in Handlers : handler'[h].pc = "imports" => SameHandler(h)

\* Every step is one of them.
LEMMA ImportSteps ==
    ASSUME IInv, [Next]_vars
    PROVE  \/ NothingWritten \/ CallFailed
           \/ \E h \in Handlers : AdWritten(h) \/ ImportsCreated(h)
<1> DEFINE Goal == \/ NothingWritten \/ CallFailed
                   \/ \E h \in Handlers : AdWritten(h) \/ ImportsCreated(h)
<1>1. /\ ad \in [Services -> Ads] /\ handler \in [Handlers -> HandlerRecords]
      /\ failures \in Nat
      /\ \A h \in Handlers : handler[h].pc \in AtItem => NextItem(h) \in Services
  <2>1. /\ ad \in [Services -> Ads] /\ handler \in [Handlers -> HandlerRecords]
        /\ failures \in Nat
    BY TypeParts DEF IInv, TypeOK
  <2>2. ASSUME NEW h \in Handlers, handler[h].pc \in AtItem PROVE NextItem(h) \in Services
    BY <2>1, <2>2, ItemInServices DEF IInv, HandlerInv, NextItem, HandlerRecords
  <2>. QED
    BY <2>1, <2>2
<1>2. \A s : /\ Stale(handler, s) \in [Handlers -> HandlerRecords]
             /\ \A h \in Handlers : /\ Stale(handler, s)[h].pc = handler[h].pc
                                    /\ Stale(handler, s)[h].todo = handler[h].todo
                                    /\ Stale(handler, s)[h].targets = handler[h].targets
    BY <1>1 DEF Stale, HandlerRecords
<1>3. CASE Tick
  <2>1. \A s \in Services : SameAd(s)
    <3> DEFINE age(s) == IF ad[s].exists THEN Older(ad[s].age) ELSE ad[s].age
    <3>1. ad' = [s \in Services |-> [ad[s] EXCEPT !.age = age(s)]]
      BY <1>3 DEF Tick
    <3> HIDE DEF age
    <3>. QED
      BY <1>1, <3>1 DEF Ads, SameAd
  <2>2. \A h \in Handlers : SameHandler(h)
    <3> DEFINE age(h) == IF handler[h].pc \in ItemStates THEN Older(handler[h].age) ELSE 0
    <3>1. handler' = [h \in Handlers |-> [handler[h] EXCEPT !.age = age(h)]]
      BY <1>3 DEF Tick
    <3> HIDE DEF age
    <3>. QED
      BY <1>1, <3>1 DEF HandlerRecords, SameHandler
  <2>. QED
    BY <1>3, <2>1, <2>2 DEF Tick, NothingWritten
<1>4. ASSUME NEW h \in Handlers, NEW next, next.pc # "imports", handler[h].pc # "imports",
             handler' = [handler EXCEPT ![h] = next], UNCHANGED <<ad, imports, failures>>
      PROVE  NothingWritten
    BY <1>1, <1>4 DEF NothingWritten, SameAd, SameHandler
<1>5. ASSUME NEW h \in Handlers,
             PublishServices(h) \/ SyncStart(h) \/ SyncCheck(h) \/ SyncGet(h) \/ SyncList(h)
      PROVE  NothingWritten
  <2>1. handler[h].pc # "imports" /\ UNCHANGED <<ad, imports, failures>>
    BY <1>5 DEF PublishServices, SyncStart, SyncCheck, SyncGet, SyncList
  <2>2. \A g \in Handlers \ {h} : handler'[g] = handler[g]
    BY <1>1, <1>5 DEF PublishServices, SyncStart, SyncCheck, SyncGet, SyncList
  <2>3. handler'[h].pc # "imports"
    <3>1. CASE PublishServices(h)
      BY <1>1, <3>1 DEF PublishServices, IdleHandler
    <3>2. CASE SyncStart(h)
      BY <1>1, <3>2 DEF SyncStart, HandlerRecords
    <3>3. CASE SyncCheck(h)
      <4> DEFINE targets == Targets(NextItem(h))
                 next == [handler[h] EXCEPT !.pc = "get", !.targets = targets]
      <4>1. handler'[h] = IdleHandler \/ handler'[h] = next
        BY <1>1, <3>3 DEF SyncCheck
      <4> HIDE DEF targets
      <4>2. next.pc = "get"
        BY <1>1 DEF HandlerRecords
      <4> HIDE DEF next
      <4>. QED
        BY <4>1, <4>2, TypeParts
    <3>4. CASE SyncGet(h)
      BY <1>1, <3>4 DEF SyncGet, HandlerRecords
    <3>5. CASE SyncList(h)
      <4> DEFINE others == {s \in Services : ad[s].exists} \ handler[h].snapshot
                 next == [IdleHandler EXCEPT !.pc = "sweep", !.todo = others, !.fresh = others]
      <4>1. handler'[h] = IdleHandler \/ handler'[h] = next
        BY <1>1, <3>5 DEF SyncList
      <4> HIDE DEF others
      <4>2. next.pc = "sweep"
        BY TypeParts DEF HandlerRecords
      <4> HIDE DEF next
      <4>. QED
        BY <4>1, <4>2, TypeParts
    <3>. QED
      BY <1>5, <3>1, <3>2, <3>3, <3>4, <3>5
  <2>. QED
    BY <2>1, <2>2, <2>3 DEF NothingWritten, SameAd, SameHandler
<1>6. ASSUME NEW h \in Handlers, SyncImports(h) PROVE ImportsCreated(h)
  <2>1. /\ handler[h].pc = "imports" /\ UNCHANGED <<ad, failures>>
        /\ imports' = imports \cup ({NextItem(h)} \X handler[h].targets)
        /\ \A g \in Handlers \ {h} : handler'[g] = handler[g]
    BY <1>1, <1>6 DEF SyncImports
  <2>2. handler'[h].pc # "imports"
    BY <1>1, <1>6 DEF SyncImports, HandlerRecords
  <2>3. NextItem(h) \in Services
    BY <1>1, <2>1 DEF AtItem, ItemStates
  <2>. QED
    BY <2>1, <2>2, <2>3 DEF ImportsCreated, SameAd, SameHandler
<1>7. ASSUME NEW h \in Handlers, NEW s \in Services, NEW new \in Ads, NEW next,
             WriteBy(h, s, new, next)
      PROVE  /\ handler'[h] = next /\ \A g \in Handlers \ {h} : SameHandler(g)
             /\ ad'[s] = new /\ \A t \in Services \ {s} : ad'[t] = ad[t]
  <2> DEFINE others == IF new = ad[s] THEN handler ELSE Stale(handler, s)
  <2>1. others \in [Handlers -> HandlerRecords] /\ handler' = [others EXCEPT ![h] = next]
    BY <1>1, <1>2, <1>7 DEF WriteBy
  <2>2. \A g \in Handlers : /\ others[g].pc = handler[g].pc /\ others[g].todo = handler[g].todo
                            /\ others[g].targets = handler[g].targets
    BY <1>2
  <2> HIDE DEF others
  <2>3. handler'[h] = next /\ \A g \in Handlers \ {h} : handler'[g] = others[g]
    BY <2>1
  <2>. QED
    BY <1>1, <1>7, <2>2, <2>3 DEF WriteBy, SameHandler
<1>8. ASSUME NEW h \in Handlers, SyncWrite(h) PROVE Goal
  <2> DEFINE s == NextItem(h)
             next == [handler[h] EXCEPT !.pc = "imports"]
  <2>1. /\ handler[h].pc = "write" /\ s \in Services /\ UNCHANGED <<imports, failures>>
        /\ handler[h] \in HandlerRecords
    BY <1>1, <1>8 DEF SyncWrite, AtItem, ItemStates
  <2>2. CASE s \in handler[h].fresh
    <3>1. WriteBy(h, s, Published(h, s), next)
      BY <1>8, <2>2 DEF SyncWrite
    <3>2. /\ Published(h, s) \in Ads /\ Published(h, s).exists
          /\ Published(h, s).targets = handler[h].targets
      BY <1>1, <2>1 DEF Published, Ads, HandlerRecords
    <3>3. next.pc = "imports" /\ next.todo = handler[h].todo /\ next.targets = handler[h].targets
      BY <2>1 DEF HandlerRecords
    <3> HIDE DEF next
    <3>4. AdWritten(h)
      BY <1>7, <2>1, <3>1, <3>2, <3>3 DEF AdWritten, SameAd
    <3>. QED
      BY <3>4
  <2>3. CASE s \notin handler[h].fresh
    <3>1. handler' = [handler EXCEPT ![h] = IdleHandler] /\ UNCHANGED ad
      BY <1>8, <2>3 DEF SyncWrite
    <3>2. NothingWritten
      BY <1>4, <2>1, <3>1, TypeParts
    <3>. QED
      BY <3>2
  <2>. QED
    BY <2>2, <2>3
<1>9. ASSUME NEW h \in Handlers, SyncRevoke(h) PROVE NothingWritten
  <2> DEFINE s == NextItem(h)
             new == [ad[s] EXCEPT !.revoked = TRUE]
             next == IF Remaining(h) = {} THEN IdleHandler
                     ELSE [handler[h] EXCEPT !.todo = Remaining(h)]
  <2>1. /\ handler[h].pc = "sweep" /\ s \in Services /\ UNCHANGED <<imports, failures>>
        /\ handler[h] \in HandlerRecords
    BY <1>1, <1>9 DEF SyncRevoke, AtItem, ItemStates
  <2>2. next.pc # "imports"
    BY <2>1, TypeParts DEF HandlerRecords
  <2>3. new \in Ads /\ new.exists = ad[s].exists /\ new.targets = ad[s].targets
    BY <1>1, <2>1 DEF Ads
  <2>4. \/ WriteBy(h, s, new, next)
        \/ handler' = [handler EXCEPT ![h] = next] /\ UNCHANGED ad
    BY <1>9 DEF SyncRevoke
  <2> HIDE DEF new, next, s
  <2>5. CASE WriteBy(h, s, new, next)
    <3>1. /\ handler'[h] = next /\ \A g \in Handlers \ {h} : SameHandler(g)
          /\ ad'[s] = new /\ \A t \in Services \ {s} : ad'[t] = ad[t]
      BY <1>7, <2>1, <2>3, <2>5
    <3>. QED
      BY <2>1, <2>2, <2>3, <3>1 DEF NothingWritten, SameAd, SameHandler
  <2>6. CASE handler' = [handler EXCEPT ![h] = next] /\ UNCHANGED ad
    BY <1>4, <2>1, <2>2, <2>6
  <2>. QED
    BY <2>4, <2>5, <2>6
<1>10. ASSUME NEW h \in Handlers, SyncFails(h) PROVE CallFailed
  <2>1. /\ handler' = [handler EXCEPT ![h] = IdleHandler] /\ UNCHANGED <<ad, imports>>
        /\ failures' = failures + 1
    BY <1>10 DEF SyncFails
  <2>. QED
    BY <1>1, <2>1, TypeParts DEF CallFailed, SameAd, SameHandler
<1>11. ASSUME NEW r \in Reconcilers, ReconcileUpdate(r) PROVE NothingWritten
  <2> DEFINE s == Min(reconciler[r].todo)
             new == [ad[s] EXCEPT !.state = reconciler[r].state[s], !.shown = TRUE]
  <2>1. s \in Services /\ UNCHANGED <<imports, failures>>
    BY <1>11, TypeParts, ItemInServices
    DEF IInv, ReconcilerBusy, ReconcileUpdate, ReconcilerRecords
  <2>2. \/ /\ ad' = [ad EXCEPT ![s] = new]
           /\ handler' = IF new = ad[s] THEN handler ELSE Stale(handler, s)
        \/ UNCHANGED <<ad, handler>>
    BY <1>11 DEF ReconcileUpdate, StatusWrite
  <2>3. new.exists = ad[s].exists /\ new.targets = ad[s].targets
    BY <1>1, <2>1 DEF Ads
  <2> HIDE DEF new, s
  <2>. QED
    BY <1>1, <1>2, <2>1, <2>2, <2>3 DEF NothingWritten, SameAd, SameHandler
<1>12. ASSUME NEW r \in Reconcilers, ReconcileStops(r) PROVE CallFailed
  <2>1. UNCHANGED <<ad, imports, handler>> /\ failures' = failures + 1
    BY <1>12 DEF ReconcileStops
  <2>. QED
    BY <1>1, <2>1 DEF CallFailed, SameAd, SameHandler
<1>13. ASSUME \/ \E s \in Services : EditLabels(s)
              \/ \E allowed \in SUBSET Services, max \in 0..NumServices : EditPolicy(allowed, max)
              \/ \E p \in Peers : EditPeer(p)
              \/ \E r \in Reconcilers : ReconcileList(r)
              \/ UNCHANGED vars
       PROVE  NothingWritten
  <2>1. UNCHANGED <<ad, imports, handler, failures>>
    BY <1>13 DEF EditLabels, EditPolicy, EditPeer, Edit, ReconcileList, vars
  <2>. QED
    BY <2>1 DEF NothingWritten, SameAd, SameHandler
<1> HIDE DEF Goal
<1>14. Goal
  <2>1. NothingWritten \/ CallFailed => Goal
    BY DEF Goal
  <2>2. \A h \in Handlers : AdWritten(h) \/ ImportsCreated(h) => Goal
    BY DEF Goal
  <2>. QED
    BY <1>3, <1>5, <1>6, <1>8, <1>9, <1>10, <1>11, <1>12, <1>13, <2>1, <2>2 DEF Next
<1>. QED
    BY <1>14 DEF Goal

\* A handler whose services stay is at the same service.
LEMMA SameItem ==
    ASSUME NEW h \in Handlers, handler'[h].todo = handler[h].todo
    PROVE  NextItem(h)' = NextItem(h)
    BY DEF NextItem

\* A handler that stays where it is goes on creating the same imports.
LEMMA SameCreating ==
    ASSUME NEW h \in Handlers, SameHandler(h)
    PROVE  /\ handler'[h].pc = "imports" => handler[h].pc = "imports" /\ NextItem(h)' = NextItem(h)
           /\ \A s, p : Creating(h, s, p) => Creating(h, s, p)'
<1>1. ASSUME handler[h].pc = "imports"
      PROVE  /\ handler'[h].pc = "imports" /\ NextItem(h)' = NextItem(h)
             /\ handler'[h].targets = handler[h].targets
    BY <1>1, SameItem DEF SameHandler
<1>2. handler'[h].pc = "imports" => handler[h].pc = "imports"
    BY DEF SameHandler
<1>3. ASSUME NEW s, NEW p, Creating(h, s, p) PROVE Creating(h, s, p)'
    BY <1>1, <1>3 DEF Creating
<1>. QED
    BY <1>1, <1>2, <1>3

\* What the invariant needs to know of the types.
LEMMA ImportTypes ==
    ASSUME IInv
    PROVE  /\ \A x \in imports : x[1] \in Services
           /\ failures \in Nat
           /\ \A h \in Handlers : handler[h].pc = "imports" => NextItem(h) \in Services
<1>1. imports \subseteq Services \X Peers /\ failures \in Nat
    BY DEF IInv, TypeOK
<1>2. ASSUME NEW h \in Handlers, handler[h].pc = "imports" PROVE NextItem(h) \in Services
  <2>1. handler[h] \in HandlerRecords
    BY TypeParts DEF IInv
  <2>2. handler[h].todo \in SUBSET Services
    BY <2>1 DEF HandlerRecords
  <2>3. handler[h].todo # {}
    BY <1>2 DEF IInv, HandlerInv, AtItem, ItemStates
  <2>. QED
    BY <2>2, <2>3, ItemInServices DEF NextItem
<1>. QED
    BY <1>1, <1>2

\* No step loses an import that is due.
LEMMA NextImports ==
    ASSUME IInv, ImportsInv, [Next]_vars
    PROVE  ImportsInv'
<1>1. CASE NothingWritten
  <2>1. \A x \in imports' : ad'[x[1]].exists
    BY <1>1, ImportTypes DEF NothingWritten, SameAd, ImportsInv
  <2>2. ASSUME NEW h \in Handlers, handler'[h].pc = "imports" PROVE ad'[NextItem(h)'].exists
    <3>1. handler[h].pc = "imports" /\ NextItem(h)' = NextItem(h)
      BY <1>1, <2>2, SameCreating DEF NothingWritten
    <3>2. NextItem(h) \in Services /\ ad[NextItem(h)].exists
      BY <3>1, ImportTypes DEF ImportsInv
    <3>. QED
      BY <1>1, <3>1, <3>2 DEF NothingWritten, SameAd
  <2>3. ASSUME failures' = 0, NEW s \in Services, NEW p \in ad'[s].targets
        PROVE  <<s, p>> \in imports' \/ \E h \in Handlers : Creating(h, s, p)'
    <3>1. failures = 0 /\ p \in ad[s].targets /\ imports' = imports
      BY <1>1, <2>3 DEF NothingWritten, SameAd
    <3>2. <<s, p>> \in imports \/ \E h \in Handlers : Creating(h, s, p)
      BY <3>1 DEF ImportsInv
    <3>3. \A h \in Handlers : Creating(h, s, p) => Creating(h, s, p)'
      BY <1>1, SameCreating DEF NothingWritten
    <3>. QED
      BY <3>1, <3>2, <3>3
  <2>. QED
    BY <2>1, <2>2, <2>3 DEF ImportsInv
<1>2. CASE CallFailed
  <2>1. \A x \in imports' : ad'[x[1]].exists
    BY <1>2, ImportTypes DEF CallFailed, SameAd, ImportsInv
  <2>2. ASSUME NEW h \in Handlers, handler'[h].pc = "imports" PROVE ad'[NextItem(h)'].exists
    <3>1. handler[h].pc = "imports" /\ NextItem(h)' = NextItem(h)
      BY <1>2, <2>2, SameCreating DEF CallFailed
    <3>2. NextItem(h) \in Services /\ ad[NextItem(h)].exists
      BY <3>1, ImportTypes DEF ImportsInv
    <3>. QED
      BY <1>2, <3>1, <3>2 DEF CallFailed, SameAd
  <2>3. failures' # 0
    BY <1>2 DEF CallFailed
  <2>. QED
    BY <2>1, <2>2, <2>3 DEF ImportsInv
<1>3. ASSUME NEW h \in Handlers, AdWritten(h) PROVE ImportsInv'
  <2> DEFINE item == NextItem(h)
  <2>1. /\ item \in Services /\ ad'[item].exists /\ ad'[item].targets = handler[h].targets
        /\ \A s \in Services \ {item} : SameAd(s)
        /\ imports' = imports /\ failures' = failures
        /\ handler[h].pc = "write" /\ handler'[h].pc = "imports"
        /\ handler'[h].targets = handler[h].targets /\ NextItem(h)' = item
        /\ \A g \in Handlers \ {h} : SameHandler(g)
    BY <1>3, SameItem DEF AdWritten
  <2> HIDE DEF item
  <2>2. \A s \in Services : ad[s].exists => ad'[s].exists
    BY <2>1 DEF SameAd
  <2>3. \A x \in imports' : ad'[x[1]].exists
    BY <2>1, <2>2, ImportTypes DEF ImportsInv
  <2>4. ASSUME NEW g \in Handlers, handler'[g].pc = "imports" PROVE ad'[NextItem(g)'].exists
    <3>1. CASE g = h
      BY <2>1, <3>1
    <3>2. CASE g # h
      <4>1. handler[g].pc = "imports" /\ NextItem(g)' = NextItem(g)
        BY <2>1, <2>4, <3>2, SameCreating
      <4>2. NextItem(g) \in Services /\ ad[NextItem(g)].exists
        BY <4>1, ImportTypes DEF ImportsInv
      <4>. QED
        BY <2>2, <4>1, <4>2
    <3>. QED
      BY <3>1, <3>2
  <2>5. ASSUME failures' = 0, NEW s \in Services, NEW p \in ad'[s].targets
        PROVE  <<s, p>> \in imports' \/ \E g \in Handlers : Creating(g, s, p)'
    <3>1. CASE s = item
      <4>1. Creating(h, s, p)'
        BY <2>1, <2>5, <3>1 DEF Creating
      <4>. QED
        BY <4>1
    <3>2. CASE s # item
      <4>1. failures = 0 /\ p \in ad[s].targets
        BY <2>1, <2>5, <3>2 DEF SameAd
      <4>2. <<s, p>> \in imports \/ \E g \in Handlers : Creating(g, s, p)
        BY <4>1 DEF ImportsInv
      <4>3. ~Creating(h, s, p)
        BY <2>1 DEF Creating
      <4>4. \A g \in Handlers \ {h} : Creating(g, s, p) => Creating(g, s, p)'
        BY <2>1, SameCreating
      <4>. QED
        BY <2>1, <4>2, <4>3, <4>4
    <3>. QED
      BY <3>1, <3>2
  <2>. QED
    BY <2>3, <2>4, <2>5 DEF ImportsInv
<1>4. ASSUME NEW h \in Handlers, ImportsCreated(h) PROVE ImportsInv'
  <2> DEFINE item == NextItem(h)
  <2>1. /\ item \in Services /\ imports' = imports \cup ({item} \X handler[h].targets)
        /\ failures' = failures /\ \A s \in Services : SameAd(s)
        /\ handler[h].pc = "imports" /\ handler'[h].pc # "imports"
        /\ \A g \in Handlers \ {h} : SameHandler(g)
    BY <1>4 DEF ImportsCreated
  <2>2. ad[item].exists
    BY <2>1 DEF ImportsInv
  <2>3. \A s, p : Creating(h, s, p) => s = item /\ p \in handler[h].targets
    BY DEF Creating
  <2> HIDE DEF item
  <2>4. \A x \in imports' : ad'[x[1]].exists
    <3>1. \A x \in imports : ad'[x[1]].exists
      BY <2>1, ImportTypes DEF ImportsInv, SameAd
    <3>2. \A x \in {item} \X handler[h].targets : ad'[x[1]].exists
      BY <2>1, <2>2 DEF SameAd
    <3>. QED
      BY <2>1, <3>1, <3>2
  <2>5. ASSUME NEW g \in Handlers, handler'[g].pc = "imports" PROVE ad'[NextItem(g)'].exists
    <3>1. handler[g].pc = "imports" /\ NextItem(g)' = NextItem(g)
      BY <2>1, <2>5, SameCreating
    <3>2. NextItem(g) \in Services /\ ad[NextItem(g)].exists
      BY <3>1, ImportTypes DEF ImportsInv
    <3>. QED
      BY <2>1, <3>1, <3>2 DEF SameAd
  <2>6. ASSUME failures' = 0, NEW s \in Services, NEW p \in ad'[s].targets
        PROVE  <<s, p>> \in imports' \/ \E g \in Handlers : Creating(g, s, p)'
    <3>1. failures = 0 /\ p \in ad[s].targets
      BY <2>1, <2>6 DEF SameAd
    <3>2. <<s, p>> \in imports \/ \E g \in Handlers : Creating(g, s, p)
      BY <3>1 DEF ImportsInv
    <3>3. Creating(h, s, p) => <<s, p>> \in imports'
      BY <2>1, <2>3
    <3>4. \A g \in Handlers \ {h} : Creating(g, s, p) => Creating(g, s, p)'
      BY <2>1, SameCreating
    <3>. QED
      BY <2>1, <3>2, <3>3, <3>4
  <2>. QED
    BY <2>4, <2>5, <2>6 DEF ImportsInv
<1>. QED
    BY <1>1, <1>2, <1>3, <1>4, ImportSteps

\* The invariant holds throughout.
THEOREM ImportsInvHolds == Spec => []ImportsInv
<1>1. Init => ImportsInv
  <2> SUFFICES ASSUME Init PROVE ImportsInv
      OBVIOUS
  <2>1. imports = {} /\ \A s \in Services : ad[s].targets = {}
    BY DEF Init, NoAd
  <2>2. \A h \in Handlers : handler[h].pc = "idle"
    BY TypeParts DEF Init
  <2>. QED
    BY <2>1, <2>2 DEF ImportsInv
<1>2. IInv /\ ImportsInv /\ [Next]_vars => ImportsInv'
    BY NextImports
<1>. QED
    BY <1>1, <1>2, InductiveInvariant, PTL DEF Spec

\* Imports follow their advertisements (SyncAdvertisements): none without one,
\* and unless a call failed every target has its import or a handler about to
\* create it, whichever snapshots overtake each other.
THEOREM ImportsFollowHolds == Spec => []ImportsFollow
<1>1. ImportsInv => ImportsFollow
    BY DEF ImportsInv, ImportsFollow, Creating
<1>. QED
    BY <1>1, ImportsInvHolds, PTL
==============================================================================
