------------------------ MODULE GatewaySessionsProofs ------------------------
(***************************************************************************)
(* Proofs about GatewaySessions for any number of connections and          *)
(* failures. The argument: an end is registered exactly while its handler  *)
(* runs, a connection is dialed only when neither end of it is left, and   *)
(* whatever takes a connection out of a registry has closed its end.       *)
(***************************************************************************)
EXTENDS GatewaySessions, SequenceTheorems, WellFoundedInduction, TLAPS

Elements(seq) == {seq[i] : i \in DOMAIN seq}

\* An import at work has chosen a connection.
ImportInv == \A s \in Sides : import[s].pc # "idle" => import[s].conn \in Conns

SessionInv ==
    /\ SessionTypeOK
    /\ ImportInv
    /\ RegistryExact

\* Every connection at the dialer has an owner, and an idle import none.
OwnedInv ==
    /\ ConnectionsOwned
    /\ \A s \in Sides : import[s].pc = "idle" => import[s].conn = NoConn

\* What OldestKept says of a step.
HeadsKept ==
    \A s \in Sides :
        LET c == Head(registry[s]) IN
        registry[s] # <<>> /\ end[c][s] = "open" /\ end'[c][s] = "open"
          => registry'[s] # <<>> /\ Head(registry'[s]) = c

\* RegistryExact of a registry and of its end of each connection.
SideExact(s, connections, end_) ==
    /\ IsInjective(connections)
    /\ \A c \in Conns :
          LET registered == \E i \in DOMAIN connections : connections[i] = c IN
          /\ registered => Handled(c, s) /\ end_[c][s] \in {"open", "closed"}
          /\ Handled(c, s) /\ end_[c][s] = "open" => registered

\* A step that leaves the registries alone.
SameRegistry == registry' = registry

------------------------------------------------------------------------------
(* Lemmas about sequences without duplicates.                              *)

\* The first element to be removed is at some position of the sequence.
LEMMA SelectedPosition ==
    ASSUME NEW S, NEW seq \in Seq(S), NEW c, \E i \in 1..Len(seq) : seq[i] = c
    PROVE  \E k \in 1..Len(seq) : seq[k] = c /\ RemoveFirst(seq, c) = RemoveAt(seq, k)
<1> DEFINE I == {i \in 1..Len(seq) : seq[i] = c}
           Less == {ss \in Nat \X Nat : ss[1] < ss[2]}
<1>1. I \in SUBSET Nat /\ I # {}
    OBVIOUS
<1>2. IsWellFoundedOn(Less, Nat)
    BY NatLessThanWellFounded DEF OpToRel
<1>3. PICK x \in I : \A y \in I : <<y, x>> \notin Less
  <2> HIDE DEF Less, I
  <2>. QED
    BY <1>1, <1>2, WFMin, Zenon
<1>4. ASSUME NEW y \in I PROVE x =< y
  <2>1. x \in Nat /\ y \in Nat /\ <<y, x>> \notin Less
    BY <1>1, <1>3
  <2>. QED
    BY <2>1
<1>5. Min(I) \in I
    BY <1>3, <1>4 DEF Min
<1>6. RemoveFirst(seq, c) = RemoveAt(seq, Min(I))
    BY <1>1 DEF RemoveFirst, SelectInSeq
<1>. QED
    BY <1>5, <1>6

\* Where the elements are once position k is removed.
LEMMA RemovedAt ==
    ASSUME NEW S, NEW seq \in Seq(S), NEW k \in 1..Len(seq)
    PROVE  /\ RemoveAt(seq, k) \in Seq(S)
           /\ Len(RemoveAt(seq, k)) = Len(seq) - 1
           /\ \A i \in 1..Len(seq) - 1 :
                 RemoveAt(seq, k)[i] = IF i < k THEN seq[i] ELSE seq[i + 1]
<1> DEFINE a == SubSeq(seq, 1, k - 1)
           b == SubSeq(seq, k + 1, Len(seq))
<1>1. Len(seq) \in Nat /\ k \in Int /\ 1 =< k /\ k =< Len(seq)
    BY LenProperties
<1>2. \A i \in 1..Len(seq) : seq[i] \in S
    BY ElementOfSeq
<1>3. a \in Seq(S) /\ Len(a) = k - 1 /\ \A i \in 1..k - 1 : a[i] = seq[i]
  <2>1. \A i \in 1..(k - 1) : seq[i] \in S
    BY <1>1, <1>2
  <2>. QED
    BY <1>1, <2>1, SubSeqProperties
<1>4. /\ b \in Seq(S)
      /\ Len(b) = Len(seq) - k
      /\ \A i \in 1..Len(seq) - k : b[i] = seq[k + i]
  <2>1. \A i \in (k + 1)..Len(seq) : seq[i] \in S
    BY <1>1, <1>2
  <2>. QED
    BY <1>1, <2>1, SubSeqProperties
<1> HIDE DEF a, b
<1>5. /\ a \o b \in Seq(S)
      /\ Len(a \o b) = Len(a) + Len(b)
      /\ \A i \in 1..Len(a) + Len(b) : (a \o b)[i] = IF i <= Len(a) THEN a[i] ELSE b[i - Len(a)]
    BY <1>3, <1>4, ConcatProperties
<1>6. RemoveAt(seq, k) = a \o b
    BY DEF RemoveAt, a, b
<1>7. ASSUME NEW i \in 1..Len(seq) - 1
      PROVE  (a \o b)[i] = IF i < k THEN seq[i] ELSE seq[i + 1]
  <2>1. CASE i < k
    BY <1>1, <1>3, <1>4, <1>5, <2>1
  <2>2. CASE ~(i < k)
    <3>1. i \in 1..Len(a) + Len(b) /\ ~(i =< Len(a)) /\ i - Len(a) = i + 1 - k
      BY <1>1, <1>3, <1>4, <2>2
    <3>2. i + 1 - k \in 1..Len(seq) - k /\ k + (i + 1 - k) = i + 1
      BY <1>1, <2>2
    <3>3. b[i + 1 - k] = seq[i + 1]
      BY <1>4, <3>2
    <3>. QED
      BY <1>5, <2>2, <3>1, <3>3
  <2>. QED
    BY <2>1, <2>2
<1>. QED
    BY <1>1, <1>3, <1>4, <1>5, <1>6, <1>7

\* Removing an element takes it away, keeps the others and the first of them.
LEMMA RemoveFirstProperties ==
    ASSUME NEW S, NEW seq \in Seq(S), NEW c, IsInjective(seq)
    PROVE  /\ RemoveFirst(seq, c) \in Seq(S)
           /\ IsInjective(RemoveFirst(seq, c))
           /\ Elements(RemoveFirst(seq, c)) = Elements(seq) \ {c}
           /\ seq # <<>> /\ Head(seq) # c =>
                RemoveFirst(seq, c) # <<>> /\ Head(RemoveFirst(seq, c)) = Head(seq)
<1>0. Len(seq) \in Nat /\ DOMAIN seq = 1..Len(seq)
    BY LenProperties
<1>1. CASE ~\E i \in 1..Len(seq) : seq[i] = c
  <2>1. RemoveFirst(seq, c) = seq
    BY <1>1 DEF RemoveFirst
  <2>. QED
    BY <1>0, <1>1, <2>1 DEF Elements
<1>2. CASE \E i \in 1..Len(seq) : seq[i] = c
  <2>1. PICK k \in 1..Len(seq) : seq[k] = c /\ RemoveFirst(seq, c) = RemoveAt(seq, k)
    BY <1>2, SelectedPosition
  <2> DEFINE r == RemoveFirst(seq, c)
  <2>2. /\ r \in Seq(S)
        /\ Len(r) = Len(seq) - 1
        /\ \A i \in 1..Len(seq) - 1 : r[i] = IF i < k THEN seq[i] ELSE seq[i + 1]
    BY <2>1, RemovedAt
  <2> HIDE DEF r
  <2>3. DOMAIN r = 1..Len(seq) - 1
    BY <2>2, LenProperties
  <2>4. \A i, j \in 1..Len(seq) : seq[i] = seq[j] => i = j
    BY <1>0 DEF IsInjective
  <2>5. ASSUME NEW i \in 1..Len(seq) - 1, NEW j \in 1..Len(seq) - 1, r[i] = r[j]
        PROVE  i = j
    <3>1. /\ i \in 1..Len(seq) /\ i + 1 \in 1..Len(seq)
          /\ j \in 1..Len(seq) /\ j + 1 \in 1..Len(seq)
      BY <1>0
    <3>2. r[i] = IF i < k THEN seq[i] ELSE seq[i + 1]
      BY <2>2
    <3>3. r[j] = IF j < k THEN seq[j] ELSE seq[j + 1]
      BY <2>2
    <3>4. CASE i < k /\ j < k
      BY <2>4, <2>5, <3>1, <3>2, <3>3, <3>4
    <3>5. CASE ~(i < k) /\ ~(j < k)
      <4>1. i + 1 = j + 1
        BY <2>4, <2>5, <3>1, <3>2, <3>3, <3>5
      <4>. QED
        BY <4>1
    <3>6. CASE i < k /\ ~(j < k)
      <4>1. i = j + 1
        BY <2>4, <2>5, <3>1, <3>2, <3>3, <3>6
      <4>. QED
        BY <1>0, <3>6, <4>1
    <3>7. CASE ~(i < k) /\ j < k
      <4>1. i + 1 = j
        BY <2>4, <2>5, <3>1, <3>2, <3>3, <3>7
      <4>. QED
        BY <1>0, <3>7, <4>1
    <3>. QED
      BY <3>4, <3>5, <3>6, <3>7
  <2>6. IsInjective(r)
    BY <2>3, <2>5 DEF IsInjective
  <2>7. ASSUME NEW i \in 1..Len(seq) - 1 PROVE r[i] \in Elements(seq) \ {c}
    <3>1. i \in 1..Len(seq) /\ i + 1 \in 1..Len(seq)
      BY <1>0
    <3>2. r[i] = IF i < k THEN seq[i] ELSE seq[i + 1]
      BY <2>2
    <3>. QED
      BY <1>0, <2>1, <2>4, <3>1, <3>2 DEF Elements
  <2>8. ASSUME NEW i \in 1..Len(seq), seq[i] # c PROVE seq[i] \in Elements(r)
    <3>1. CASE i < k
      BY <1>0, <2>1, <2>2, <2>3, <3>1 DEF Elements
    <3>2. CASE k < i
      <4>1. i - 1 \in 1..Len(seq) - 1 /\ ~(i - 1 < k) /\ (i - 1) + 1 = i
        BY <1>0, <3>2
      <4>2. r[i - 1] = seq[i]
        BY <2>2, <4>1
      <4>. QED
        BY <2>3, <4>1, <4>2 DEF Elements
    <3>. QED
      BY <1>0, <2>1, <2>8, <3>1, <3>2
  <2>9. Elements(r) = Elements(seq) \ {c}
    BY <1>0, <2>3, <2>7, <2>8 DEF Elements
  <2>10. ASSUME seq # <<>>, Head(seq) # c PROVE r # <<>> /\ Head(r) = Head(seq)
    <3>1. seq[1] # c /\ Head(seq) = seq[1]
      BY <2>10, HeadTailProperties
    <3>2. k # 1 /\ 1 \in 1..Len(seq) - 1 /\ 1 < k
      BY <1>0, <2>1, <3>1
    <3>3. r[1] = seq[1] /\ Len(r) # 0
      BY <1>0, <2>2, <3>2
    <3>. QED
      BY <2>2, <3>1, <3>3
  <2>. QED
    BY <2>2, <2>6, <2>9, <2>10 DEF r
<1>. QED
    BY <1>1, <1>2

\* Appending an element adds it and keeps the first one.
LEMMA AppendElement ==
    ASSUME NEW S, NEW seq \in Seq(S), NEW c \in S, IsInjective(seq), c \notin Elements(seq)
    PROVE  /\ Append(seq, c) \in Seq(S)
           /\ IsInjective(Append(seq, c))
           /\ Elements(Append(seq, c)) = Elements(seq) \cup {c}
           /\ Append(seq, c) # <<>>
           /\ seq # <<>> => Head(Append(seq, c)) = Head(seq)
<1>0. Len(seq) \in Nat /\ DOMAIN seq = 1..Len(seq)
    BY LenProperties
<1> DEFINE r == Append(seq, c)
<1>1. /\ r \in Seq(S)
      /\ Len(r) = Len(seq) + 1
      /\ \A i \in 1..Len(seq) : r[i] = seq[i]
      /\ r[Len(seq) + 1] = c
    BY AppendProperties
<1> HIDE DEF r
<1>2. DOMAIN r = 1..Len(seq) + 1
    BY <1>1, LenProperties
<1>3. \A i \in 1..Len(seq) + 1 : i \in 1..Len(seq) \/ i = Len(seq) + 1
    BY <1>0
<1>4. \A i \in 1..Len(seq) : r[i] # c
    BY <1>0, <1>1 DEF Elements
<1>5. IsInjective(r)
    BY <1>0, <1>1, <1>2, <1>3, <1>4 DEF IsInjective
<1>6. Elements(r) = Elements(seq) \cup {c}
    BY <1>0, <1>1, <1>2, <1>3 DEF Elements
<1>7. r # <<>> /\ (seq # <<>> => r[1] = seq[1])
    BY <1>0, <1>1
<1>. QED
    BY <1>1, <1>5, <1>6, <1>7 DEF r

------------------------------------------------------------------------------
(* Lemmas about the registries.                                            *)

\* RegistryExact, before and after a step, side by side.
LEMMA ExactBySides ==
    /\ RegistryExact <=> \A s \in Sides : SideExact(s, registry[s], end)
    /\ RegistryExact' <=> \A s \in Sides : SideExact(s, registry'[s], end')
<1>1. RegistryExact <=> \A s \in Sides : SideExact(s, registry[s], end)
    BY DEF RegistryExact, SideExact, Registered, Handled, IsInjective
<1>2. RegistryExact' <=> \A s \in Sides : SideExact(s, registry'[s], end')
    BY DEF RegistryExact, SideExact, Registered, Handled, IsInjective
<1>. QED
    BY <1>1, <1>2

\* RegistryExact after a step, from what is registered then.
LEMMA ExactAfter ==
    ASSUME \A s \in Sides :
              /\ IsInjective(registry'[s])
              /\ \A c \in Conns :
                    /\ c \in Registered(s)' => Handled(c, s) /\ end'[c][s] \in {"open", "closed"}
                    /\ Handled(c, s) /\ end'[c][s] = "open" => c \in Registered(s)'
    PROVE  RegistryExact'
<1>1. \A s \in Sides : SideExact(s, registry'[s], end')
    BY DEF SideExact, Registered, IsInjective
<1>. QED
    BY <1>1, ExactBySides

\* put: an end that is not registered comes last.
LEMMA PutProperties ==
    ASSUME SessionTypeOK, RegistryExact, NEW s \in Sides, NEW c \in Conns, c \notin Registered(s),
           registry' = Put(s, c)
    PROVE  /\ registry' \in [Sides -> Seq(Conns)]
           /\ \A t \in Sides :
                 /\ IsInjective(registry'[t])
                 /\ Registered(t)' = IF t = s THEN Registered(t) \cup {c} ELSE Registered(t)
           /\ HeadsKept
<1>1. /\ registry \in [Sides -> Seq(Conns)]
      /\ registry' = [registry EXCEPT ![s] = Append(registry[s], c)]
      /\ \A t \in Sides : IsInjective(registry[t])
    BY DEF SessionTypeOK, RegistryExact, Put
<1>2. c \notin Elements(registry[s])
    BY DEF Elements, Registered
<1>3. /\ Append(registry[s], c) \in Seq(Conns)
      /\ IsInjective(Append(registry[s], c))
      /\ Elements(Append(registry[s], c)) = Elements(registry[s]) \cup {c}
      /\ Append(registry[s], c) # <<>>
      /\ registry[s] # <<>> => Head(Append(registry[s], c)) = Head(registry[s])
    BY <1>1, <1>2, AppendElement
<1>4. \A t \in Sides : /\ registry'[t] = IF t = s THEN Append(registry[s], c) ELSE registry[t]
                       /\ Registered(t) = Elements(registry[t])
                       /\ Registered(t)' = Elements(registry'[t])
    BY <1>1 DEF Elements, Registered
<1>5. registry' \in [Sides -> Seq(Conns)]
    BY <1>1, <1>3
<1>6. HeadsKept
    BY <1>3, <1>4 DEF HeadsKept
<1>. QED
    BY <1>1, <1>3, <1>4, <1>5, <1>6

\* remove: the end is gone, and the oldest one stays unless it is this one.
LEMMA ForgetProperties ==
    ASSUME SessionTypeOK, RegistryExact, NEW s \in Sides, NEW c, registry' = Forget(s, c),
           end'[c][s] # "open"
    PROVE  /\ registry' \in [Sides -> Seq(Conns)]
           /\ \A t \in Sides :
                 /\ IsInjective(registry'[t])
                 /\ Registered(t)' = IF t = s THEN Registered(t) \ {c} ELSE Registered(t)
           /\ HeadsKept
<1>1. /\ registry \in [Sides -> Seq(Conns)]
      /\ registry' = [registry EXCEPT ![s] = RemoveFirst(registry[s], c)]
      /\ \A t \in Sides : IsInjective(registry[t])
    BY DEF SessionTypeOK, RegistryExact, Forget
<1>2. /\ RemoveFirst(registry[s], c) \in Seq(Conns)
      /\ IsInjective(RemoveFirst(registry[s], c))
      /\ Elements(RemoveFirst(registry[s], c)) = Elements(registry[s]) \ {c}
      /\ registry[s] # <<>> /\ Head(registry[s]) # c =>
           /\ RemoveFirst(registry[s], c) # <<>>
           /\ Head(RemoveFirst(registry[s], c)) = Head(registry[s])
    BY <1>1, RemoveFirstProperties
<1>3. \A t \in Sides : /\ registry'[t] = IF t = s THEN RemoveFirst(registry[s], c) ELSE registry[t]
                       /\ Registered(t) = Elements(registry[t])
                       /\ Registered(t)' = Elements(registry'[t])
    BY <1>1 DEF Elements, Registered
<1>4. registry' \in [Sides -> Seq(Conns)]
    BY <1>1, <1>2
<1>5. HeadsKept
    BY <1>2, <1>3 DEF HeadsKept
<1>. QED
    BY <1>1, <1>2, <1>3, <1>4, <1>5

\* A step that leaves the registries alone keeps every oldest connection, and
\* RegistryExact, as long as no end opens or ends unregistered.
LEMMA SameRegistryProperties ==
    ASSUME RegistryExact, SameRegistry,
           \A s \in Sides, c \in Conns : Handled(c, s) =>
              \/ end'[c][s] = end[c][s]
              \/ end[c][s] = "open" /\ end'[c][s] = "closed"
              \/ end[c][s] \notin {"open", "closed"} /\ end'[c][s] # "open"
    PROVE  RegistryExact' /\ HeadsKept
<1>1. \A s \in Sides : registry'[s] = registry[s] /\ Registered(s)' = Registered(s)
    BY DEF SameRegistry, Registered
<1>2. HeadsKept
    BY <1>1 DEF HeadsKept
<1>3. \A s \in Sides : SideExact(s, registry[s], end')
    BY ExactBySides DEF SideExact, SameRegistry
<1>4. RegistryExact'
    BY <1>1, <1>3, ExactBySides
<1>. QED
    BY <1>2, <1>4

------------------------------------------------------------------------------
(* Every action keeps the invariant and the oldest connections.            *)

\* maintainSession dials: neither end of the connection was left.
LEMMA DialSessionStep ==
    ASSUME SessionInv, NEW c \in Conns, DialSession(c)
    PROVE  SessionInv' /\ HeadsKept
<1>1. SessionTypeOK /\ RegistryExact /\ ImportInv
    BY DEF SessionInv
<1>2. /\ c \in SessionConns
      /\ end[c] = NoEnds
      /\ end' = [end EXCEPT ![c] = Dialed]
      /\ registry' = Put("dialer", c)
      /\ session' = c
      /\ UNCHANGED <<deployment, up, import, failures>>
    BY <1>1, ConnectionsAssumption DEF SessionTypeOK, DialSession, Free
<1>3. c \notin Registered("dialer") /\ c \notin Registered("listener")
    BY <1>1, <1>2 DEF RegistryExact, NoEnds, Sides
<1>4. /\ registry' \in [Sides -> Seq(Conns)]
      /\ \A t \in Sides :
            /\ IsInjective(registry'[t])
            /\ Registered(t)' = IF t = "dialer" THEN Registered(t) \cup {c} ELSE Registered(t)
      /\ HeadsKept
    BY <1>1, <1>2, <1>3, PutProperties DEF Sides
<1>5. end' \in [Conns -> EndStates] /\ \A d \in Conns : end'[d] = IF d = c THEN Dialed ELSE end[d]
    BY <1>1, <1>2 DEF SessionTypeOK, EndStates, Dialed
<1>6. RegistryExact'
    BY <1>1, <1>2, <1>3, <1>4, <1>5, ExactAfter DEF RegistryExact, Handled, Dialed, Sides
<1>7. SessionTypeOK'
    BY <1>1, <1>2, <1>4, <1>5 DEF SessionTypeOK
<1>8. ImportInv'
    BY <1>1, <1>2 DEF ImportInv
<1>. QED
    BY <1>4, <1>6, <1>7, <1>8 DEF SessionInv

\* serveQUIC accepts: the listener's end was not registered yet.
LEMMA AcceptStep ==
    ASSUME SessionInv, NEW c \in Conns, Accept(c)
    PROVE  SessionInv' /\ HeadsKept
<1>1. SessionTypeOK /\ RegistryExact /\ ImportInv
    BY DEF SessionInv
<1>2. c \notin Registered("listener")
    BY <1>1 DEF RegistryExact, Accept, Sides
<1>3. /\ registry' \in [Sides -> Seq(Conns)]
      /\ \A t \in Sides :
            /\ IsInjective(registry'[t])
            /\ Registered(t)' = IF t = "listener" THEN Registered(t) \cup {c} ELSE Registered(t)
      /\ HeadsKept
    BY <1>1, <1>2, PutProperties DEF Accept, Sides
<1>4. /\ end' \in [Conns -> EndStates]
      /\ \A d \in Conns, s \in Sides :
            end'[d][s] = IF d = c /\ s = "listener" THEN "open" ELSE end[d][s]
    BY <1>1 DEF SessionTypeOK, EndStates, Accept, Sides
<1>5. RegistryExact'
    BY <1>1, <1>2, <1>3, <1>4, ExactAfter DEF RegistryExact, Handled
<1>6. SessionTypeOK' /\ ImportInv'
    BY <1>1, <1>3, <1>4 DEF SessionTypeOK, ImportInv, Accept
<1>. QED
    BY <1>3, <1>5, <1>6 DEF SessionInv

\* handleConnection returns: the end was closed, and is taken out.
LEMMA HandlerReturnsStep ==
    ASSUME SessionInv, NEW c \in Conns, NEW s \in Sides, HandlerReturns(c, s)
    PROVE  SessionInv' /\ HeadsKept
<1>1. SessionTypeOK /\ RegistryExact /\ ImportInv
    BY DEF SessionInv
<1>2. /\ end' \in [Conns -> EndStates]
      /\ \A d \in Conns, t \in Sides :
            end'[d][t] = IF d = c /\ t = s THEN "none" ELSE end[d][t]
    BY <1>1 DEF SessionTypeOK, EndStates, HandlerReturns, Sides
<1>3. /\ registry' \in [Sides -> Seq(Conns)]
      /\ \A t \in Sides :
            /\ IsInjective(registry'[t])
            /\ Registered(t)' = IF t = s THEN Registered(t) \ {c} ELSE Registered(t)
      /\ HeadsKept
  <2>1. registry' = Forget(s, c) /\ end'[c][s] # "open"
    BY <1>2 DEF HandlerReturns
  <2>. QED
    BY <1>1, <2>1, ForgetProperties
<1>4. RegistryExact'
    BY <1>1, <1>2, <1>3, ExactAfter DEF RegistryExact, Handled
<1>5. SessionTypeOK' /\ ImportInv'
    BY <1>1, <1>2, <1>3 DEF SessionTypeOK, ImportInv, HandlerReturns
<1>. QED
    BY <1>3, <1>4, <1>5 DEF SessionInv

\* An import gives up on a connection: it is closed, and taken out.
LEMMA OpenFailsStep ==
    ASSUME SessionInv, NEW s \in Sides, OpenFails(s)
    PROVE  SessionInv' /\ HeadsKept
<1> DEFINE c == import[s].conn
<1>1. SessionTypeOK /\ RegistryExact /\ ImportInv
    BY DEF SessionInv
<1>2. c \in Conns
    BY <1>1 DEF ImportInv, OpenFails
<1>3. PICK e \in {"none", "open", "closed", "pending"} :
        /\ end' = [end EXCEPT ![c][s] = e]
        /\ e # "open"
        /\ e = "pending" => s = "listener"
        /\ Handled(c, s) => e = end[c][s] \/ end[c][s] = "open"
    BY <1>1, <1>2, ConnectionsAssumption
       DEF OpenFails, Owns, Handled, SessionTypeOK, EndStates, Sides
<1> HIDE DEF c
<1>4. /\ end' \in [Conns -> EndStates]
      /\ \A d \in Conns, t \in Sides :
            end'[d][t] = IF d = c /\ t = s THEN e ELSE end[d][t]
    BY <1>1, <1>2, <1>3 DEF SessionTypeOK, EndStates, Sides
<1>5. /\ registry' \in [Sides -> Seq(Conns)]
      /\ \A t \in Sides :
            /\ IsInjective(registry'[t])
            /\ Registered(t)' = IF t = s THEN Registered(t) \ {c} ELSE Registered(t)
      /\ HeadsKept
  <2>1. registry' = Forget(s, c) /\ end'[c][s] # "open"
    BY <1>2, <1>3, <1>4 DEF OpenFails, c
  <2>. QED
    BY <1>1, <2>1, ForgetProperties
<1>6. RegistryExact'
    BY <1>1, <1>2, <1>3, <1>4, <1>5, ExactAfter DEF RegistryExact
<1>7. SessionTypeOK' /\ ImportInv'
    BY <1>1, <1>4, <1>5, ConnectionsAssumption
       DEF SessionTypeOK, ImportInv, OpenFails, IdleImport, Fail
<1>. QED
    BY <1>5, <1>6, <1>7 DEF SessionInv

\* A gateway restarts: nothing is left of its ends.
LEMMA RestartStep ==
    ASSUME SessionInv, NEW s \in Sides, Restart(s)
    PROVE  SessionInv' /\ HeadsKept
<1>1. SessionTypeOK /\ RegistryExact /\ ImportInv
    BY DEF SessionInv
<1>2. /\ end' \in [Conns -> EndStates]
      /\ \A d \in Conns, t \in Sides : end'[d][t] = IF t = s THEN "none" ELSE end[d][t]
    BY <1>1 DEF SessionTypeOK, EndStates, Restart, Sides
<1>3. registry' \in [Sides -> Seq(Conns)]
      /\ \A t \in Sides : registry'[t] = IF t = s THEN <<>> ELSE registry[t]
    BY <1>1 DEF SessionTypeOK, Restart
<1>4. ASSUME NEW t \in Sides
      PROVE  /\ IsInjective(registry'[t])
             /\ Registered(t)' = IF t = s THEN {} ELSE Registered(t)
    BY <1>1, <1>3 DEF RegistryExact, Registered, IsInjective
<1>5. RegistryExact'
    BY <1>1, <1>2, <1>4, ExactAfter DEF RegistryExact
<1>6. HeadsKept
  <2> SUFFICES ASSUME NEW t \in Sides, registry[t] # <<>>,
                      end[Head(registry[t])][t] = "open", end'[Head(registry[t])][t] = "open"
               PROVE  registry'[t] # <<>> /\ Head(registry'[t]) = Head(registry[t])
    BY DEF HeadsKept
  <2>1. Head(registry[t]) \in Conns
    BY <1>1, HeadTailProperties DEF SessionTypeOK
  <2>. QED
    BY <1>2, <1>3, <2>1
<1>7. SessionTypeOK' /\ ImportInv'
    BY <1>1, <1>2, <1>3, ConnectionsAssumption
       DEF SessionTypeOK, ImportInv, Restart, IdleImport, Fail
<1>. QED
    BY <1>5, <1>6, <1>7 DEF SessionInv

\* A connection is dialed by a probe or an import, to be accepted later; it is
\* not one the dialer registers.
LEMMA DialStep ==
    ASSUME SessionInv, NEW c \in Conns, ProbeDial(c) \/ ImportDial(c)
    PROVE  SessionInv' /\ HeadsKept
<1>1. SessionTypeOK /\ RegistryExact /\ ImportInv
    BY DEF SessionInv
<1>2. c \notin SessionConns
    BY ConnectionsAssumption DEF ProbeDial, ImportDial
<1>3. PICK e \in {"none", "open"} :
        end[c] = NoEnds /\ end' = [end EXCEPT ![c] = [dialer |-> e, listener |-> "pending"]]
  <2>1. CASE ProbeDial(c)
    <3>1. end[c] = NoEnds /\ end' = [end EXCEPT ![c] = [NoEnds EXCEPT !.listener = "pending"]]
      BY <2>1 DEF ProbeDial, Free
    <3>2. [NoEnds EXCEPT !.listener = "pending"] = [dialer |-> "none", listener |-> "pending"]
      BY DEF NoEnds
    <3>. QED
      BY <3>1, <3>2
  <2>2. CASE ImportDial(c)
    BY <2>2 DEF ImportDial, Free, Dialed
  <2>. QED
    BY <2>1, <2>2
<1>4. /\ end' \in [Conns -> EndStates]
      /\ \A d \in Conns \ {c} : end'[d] = end[d]
      /\ end'[c] = [dialer |-> e, listener |-> "pending"]
    BY <1>1, <1>3 DEF SessionTypeOK, EndStates
<1>5. ASSUME NEW s \in Sides, NEW d \in Conns, Handled(d, s)
      PROVE  \/ end'[d][s] = end[d][s]
             \/ end[d][s] \notin {"open", "closed"} /\ end'[d][s] # "open"
    BY <1>2, <1>3, <1>4, <1>5 DEF Handled, Sides, NoEnds
<1>6. SameRegistry
    BY DEF SameRegistry, ProbeDial, ImportDial
<1>7. RegistryExact' /\ HeadsKept
    BY <1>1, <1>5, <1>6, SameRegistryProperties
<1>8. SessionTypeOK' /\ ImportInv'
  <2>1. CASE ProbeDial(c)
    BY <1>1, <1>4, <2>1 DEF SessionTypeOK, ImportInv, ProbeDial
  <2>2. CASE ImportDial(c)
    BY <1>1, <1>4, <2>2 DEF SessionTypeOK, ImportInv, ImportDial, Sides
  <2>. QED
    BY <2>1, <2>2
<1>. QED
    BY <1>7, <1>8 DEF SessionInv

\* An end is closed, or a connection is refused: nothing is registered or
\* forgotten yet.
LEMMA CloseStep ==
    ASSUME SessionInv, NEW c \in Conns,
           Refuse(c) \/ HeartbeatFails(c) \/ \E s \in Sides : EndCloses(c, s)
    PROVE  SessionInv' /\ HeadsKept
<1>1. SessionTypeOK /\ RegistryExact /\ ImportInv
    BY DEF SessionInv
<1>2. PICK s \in Sides, e \in {"none", "closed"} :
        /\ end' = [end EXCEPT ![c][s] = e]
        /\ \/ end[c][s] = "open" /\ e = "closed"
           \/ end[c][s] = "pending" /\ e = "none"
  <2>1. CASE Refuse(c)
    BY <2>1 DEF Refuse, Sides
  <2>2. CASE HeartbeatFails(c)
    BY <2>2 DEF HeartbeatFails, Sides
  <2>3. CASE \E s \in Sides : EndCloses(c, s)
    BY <2>3 DEF EndCloses
  <2>. QED
    BY <2>1, <2>2, <2>3
<1>3. /\ end' \in [Conns -> EndStates]
      /\ \A d \in Conns, t \in Sides :
            end'[d][t] = IF d = c /\ t = s THEN e ELSE end[d][t]
    BY <1>1, <1>2 DEF SessionTypeOK, EndStates, Sides
<1>4. SameRegistry /\ UNCHANGED <<deployment, up, registry, session, import>>
    BY DEF SameRegistry, Refuse, HeartbeatFails, EndCloses
<1>5. RegistryExact' /\ HeadsKept
    BY <1>1, <1>2, <1>3, <1>4, SameRegistryProperties
<1>6. failures' \in 0..MaxFailures
    BY <1>1, ConnectionsAssumption DEF SessionTypeOK, Refuse, HeartbeatFails, EndCloses, Fail
<1>7. SessionTypeOK' /\ ImportInv'
    BY <1>1, <1>3, <1>4, <1>6 DEF SessionTypeOK, ImportInv
<1>. QED
    BY <1>5, <1>7 DEF SessionInv

\* An import goes on: it touches at most the end of a connection it dialed,
\* which its own gateway does not register.
LEMMA ImportStep ==
    ASSUME SessionInv, NEW s \in Sides,
           ImportChoose(s) \/ OpenStream(s) \/ StreamAccepted(s) \/ ImportEnds(s)
    PROVE  SessionInv' /\ HeadsKept
<1>1. SessionTypeOK /\ RegistryExact /\ ImportInv
    BY DEF SessionInv
<1>2. SameRegistry /\ UNCHANGED <<deployment, up, registry, session>>
    BY DEF SameRegistry, ImportChoose, OpenStream, StreamAccepted, ImportEnds
<1>3. /\ end' \in [Conns -> EndStates]
      /\ \A d \in Conns, t \in Sides : Handled(d, t) => end'[d][t] = end[d][t]
  <2>1. CASE ImportEnds(s)
    BY <1>1, <2>1, ConnectionsAssumption
       DEF SessionTypeOK, EndStates, ImportEnds, Owns, Handled, Sides
  <2>2. CASE ImportChoose(s) \/ OpenStream(s) \/ StreamAccepted(s)
    BY <1>1, <2>2 DEF SessionTypeOK, ImportChoose, OpenStream, StreamAccepted
  <2>. QED
    BY <2>1, <2>2
<1>4. RegistryExact' /\ HeadsKept
    BY <1>1, <1>2, <1>3, SameRegistryProperties
<1>5. failures' \in 0..MaxFailures
    BY <1>1, ConnectionsAssumption
       DEF SessionTypeOK, ImportChoose, OpenStream, StreamAccepted, ImportEnds, Fail
<1>6. /\ import' \in [Sides -> [pc : {"idle", "open", "sent", "served"}, conn : Conns \cup {NoConn}]]
      /\ ImportInv'
  <2>1. CASE ImportChoose(s)
    <3>1. Head(registry[s]) \in Conns
      BY <1>1, <2>1, HeadTailProperties DEF SessionTypeOK, ImportChoose
    <3>. QED
      BY <1>1, <2>1, <3>1 DEF SessionTypeOK, ImportInv, ImportChoose
  <2>2. CASE OpenStream(s) \/ StreamAccepted(s)
    BY <1>1, <2>2 DEF SessionTypeOK, ImportInv, OpenStream, StreamAccepted
  <2>3. CASE ImportEnds(s)
    BY <1>1, <2>3 DEF SessionTypeOK, ImportInv, ImportEnds, IdleImport
  <2>. QED
    BY <2>1, <2>2, <2>3
<1>7. SessionTypeOK'
    BY <1>1, <1>2, <1>3, <1>5, <1>6 DEF SessionTypeOK
<1>. QED
    BY <1>4, <1>6, <1>7 DEF SessionInv

\* The network changes, a call fails elsewhere, or nothing happens here.
LEMMA OtherStep ==
    ASSUME SessionInv, NetworkChanges \/ CallFails \/ UNCHANGED sessionVars
    PROVE  SessionInv' /\ HeadsKept
<1>1. SessionTypeOK /\ RegistryExact /\ ImportInv
    BY DEF SessionInv
<1>2. SameRegistry /\ UNCHANGED <<deployment, end, registry, session, import>>
    BY DEF SameRegistry, NetworkChanges, CallFails, sessionVars
<1>3. RegistryExact' /\ HeadsKept
    BY <1>1, <1>2, SameRegistryProperties
<1>4. up' \in BOOLEAN /\ failures' \in 0..MaxFailures
  <2>1. CASE NetworkChanges
    BY <1>1, <2>1 DEF SessionTypeOK, NetworkChanges
  <2>2. CASE CallFails
    BY <1>1, <2>2, ConnectionsAssumption DEF SessionTypeOK, CallFails, Fail
  <2>3. CASE UNCHANGED sessionVars
    BY <1>1, <2>3 DEF SessionTypeOK, sessionVars
  <2>. QED
    BY <2>1, <2>2, <2>3
<1>5. SessionTypeOK' /\ ImportInv'
    BY <1>1, <1>2, <1>4 DEF SessionTypeOK, ImportInv
<1>. QED
    BY <1>3, <1>5 DEF SessionInv

------------------------------------------------------------------------------
(* Owners of the connections at the dialer's gateway.                      *)

\* The registry follows from the session: it has only what is handled.
LEMMA OwnedAfter ==
    ASSUME SessionInv',
           \A c \in SessionConns : end'[c].dialer # "none" <=> session' = c,
           \A c \in ImportConns : end'[c].dialer # "none" <=> import'["dialer"].conn = c,
           \A c \in ProbeConns : end'[c].dialer = "none",
           \A s \in Sides : import'[s].pc = "idle" => import'[s].conn = NoConn
    PROVE  OwnedInv'
<1>1. SessionTypeOK' /\ RegistryExact'
    BY DEF SessionInv
<1>2. Registered("dialer")' \subseteq Conns
    BY <1>1, ElementOfSeq, LenProperties DEF SessionTypeOK, Registered, Sides
<1>3. ASSUME NEW c \in Registered("dialer")' PROVE c = session'
  <2>1. Handled(c, "dialer") /\ end'[c].dialer # "none"
    BY <1>1, <1>2, <1>3 DEF RegistryExact, Handled, Sides
  <2>. QED
    BY <2>1 DEF Handled
<1>. QED
    BY <1>3 DEF OwnedInv, ConnectionsOwned

\* A step that neither makes nor ends a connection at the dialer's gateway, and
\* leaves both owners theirs.
LEMMA OwnersKept ==
    ASSUME OwnedInv, SessionInv', session' = session,
           import'["dialer"].conn = import["dialer"].conn,
           \A c \in Conns : end'[c].dialer = "none" <=> end[c].dialer = "none",
           \A s \in Sides : import'[s].pc = "idle" => import'[s].conn = NoConn
    PROVE  OwnedInv'
<1>1. /\ \A c \in SessionConns : end[c].dialer # "none" <=> session = c
      /\ \A c \in ImportConns : end[c].dialer # "none" <=> import["dialer"].conn = c
      /\ \A c \in ProbeConns : end[c].dialer = "none"
    BY DEF OwnedInv, ConnectionsOwned
<1>2. SessionConns \subseteq Conns /\ ImportConns \subseteq Conns /\ ProbeConns \subseteq Conns
    BY DEF Conns
<1>. QED
    BY <1>1, <1>2, OwnedAfter

\* The session is dialed, handled and closed by its loop alone.
LEMMA OwnedSession ==
    ASSUME SessionInv, OwnedInv, SessionInv', NEW c \in Conns,
           DialSession(c) \/ \E s \in Sides : HandlerReturns(c, s)
    PROVE  OwnedInv'
<1>1. /\ \A d \in SessionConns : end[d].dialer # "none" <=> session = d
      /\ \A d \in ImportConns : end[d].dialer # "none" <=> import["dialer"].conn = d
      /\ \A d \in ProbeConns : end[d].dialer = "none"
      /\ \A s \in Sides : import[s].pc = "idle" => import[s].conn = NoConn
    BY DEF OwnedInv, ConnectionsOwned
<1>2. end \in [Conns -> EndStates]
    BY DEF SessionInv, SessionTypeOK
<1>3. /\ SessionConns \subseteq Conns /\ ImportConns \subseteq Conns /\ ProbeConns \subseteq Conns
      /\ SessionConns \cap ImportConns = {} /\ SessionConns \cap ProbeConns = {}
      /\ NoConn \notin Conns
    BY ConnectionsAssumption DEF Conns
<1>4. CASE DialSession(c)
  <2>1. c \in SessionConns
    BY <1>4, ConnectionsAssumption DEF DialSession, SessionInv, SessionTypeOK
  <2>2. session = NoConn /\ session' = c /\ UNCHANGED import
    BY <1>4 DEF DialSession
  <2>3. \A d \in Conns : end'[d].dialer = IF d = c THEN "open" ELSE end[d].dialer
    BY <1>2, <1>4 DEF DialSession, Dialed
  <2>. QED
    BY <1>1, <1>3, <2>1, <2>2, <2>3, OwnedAfter
<1>5. ASSUME NEW s \in Sides, HandlerReturns(c, s) PROVE OwnedInv'
  <2>1. UNCHANGED import
    BY <1>5 DEF HandlerReturns
  <2>2. CASE s = "dialer"
    <3>1. c \in SessionConns /\ end[c].dialer # "none" /\ session' = NoConn
      BY <1>5, <2>2 DEF HandlerReturns, Handled
    <3>2. \A d \in Conns : end'[d].dialer = IF d = c THEN "none" ELSE end[d].dialer
      BY <1>2, <1>5, <2>2 DEF HandlerReturns, EndStates
    <3>. QED
      BY <1>1, <1>3, <2>1, <3>1, <3>2, OwnedAfter
  <2>3. CASE s # "dialer"
    <3>1. session' = session /\ \A d \in Conns : end'[d].dialer = end[d].dialer
      BY <1>2, <1>5, <2>3 DEF HandlerReturns, EndStates
    <3>. QED
      BY <1>1, <2>1, <3>1, OwnersKept
  <2>. QED
    BY <2>2, <2>3
<1>. QED
    BY <1>4, <1>5

\* An import dials a connection for itself, gives up on one, or is done.
LEMMA OwnedImport ==
    ASSUME SessionInv, OwnedInv, SessionInv',
           \/ \E c \in Conns : ImportDial(c)
           \/ \E s \in Sides : ImportChoose(s) \/ OpenFails(s) \/ ImportEnds(s)
    PROVE  OwnedInv'
<1>1. /\ \A d \in SessionConns : end[d].dialer # "none" <=> session = d
      /\ \A d \in ImportConns : end[d].dialer # "none" <=> import["dialer"].conn = d
      /\ \A d \in ProbeConns : end[d].dialer = "none"
      /\ \A s \in Sides : import[s].pc = "idle" => import[s].conn = NoConn
      /\ Registered("dialer") \subseteq {session}
    BY DEF OwnedInv, ConnectionsOwned
<1>2. /\ end \in [Conns -> EndStates]
      /\ import \in [Sides -> [pc : {"idle", "open", "sent", "served"}, conn : Conns \cup {NoConn}]]
      /\ registry \in [Sides -> Seq(Conns)]
      /\ session \in SessionConns \cup {NoConn}
    BY DEF SessionInv, SessionTypeOK
<1>3. /\ SessionConns \subseteq Conns /\ ImportConns \subseteq Conns /\ ProbeConns \subseteq Conns
      /\ SessionConns \cap ImportConns = {} /\ ImportConns \cap ProbeConns = {}
      /\ NoConn \notin Conns
    BY ConnectionsAssumption DEF Conns
<1>4. ASSUME NEW c \in Conns, ImportDial(c) PROVE OwnedInv'
  <2>1. c \in ImportConns /\ import["dialer"].conn = NoConn /\ UNCHANGED session
    BY <1>1, <1>4 DEF ImportDial, Sides
  <2>2. import' = [import EXCEPT !["dialer"] = [pc |-> "open", conn |-> c]]
    BY <1>4 DEF ImportDial
  <2>3. \A d \in Conns : end'[d].dialer = IF d = c THEN "open" ELSE end[d].dialer
    BY <1>2, <1>4 DEF ImportDial, Dialed
  <2>4. \A s \in Sides : import'[s].pc = "idle" => import'[s].conn = NoConn
    BY <1>1, <1>2, <2>2
  <2>5. import'["dialer"].conn = c
    BY <1>2, <2>2 DEF Sides
  <2>. QED
    BY <1>1, <1>3, <2>1, <2>3, <2>4, <2>5, OwnedAfter
<1>5. ASSUME NEW s \in Sides, ImportChoose(s) PROVE OwnedInv'
  <2>1. /\ import[s].conn = NoConn /\ registry[s] # <<>>
        /\ import' = [import EXCEPT ![s] = [pc |-> "open", conn |-> Head(registry[s])]]
        /\ UNCHANGED <<end, session>>
    BY <1>1, <1>5 DEF ImportChoose
  <2>2. \A t \in Sides : import'[t].pc = "idle" => import'[t].conn = NoConn
    BY <1>1, <1>2, <2>1
  <2>3. CASE s = "dialer"
    <3>1. Head(registry["dialer"]) \in Registered("dialer")
      <4>1. registry["dialer"] \in Seq(Conns) /\ registry["dialer"] # <<>>
        BY <1>2, <2>1, <2>3
      <4>2. 1 \in DOMAIN registry["dialer"] /\ Head(registry["dialer"]) = registry["dialer"][1]
        BY <4>1, HeadTailProperties, LenProperties, EmptySeq
      <4>. QED
        BY <4>2 DEF Registered
    <3>2. Head(registry["dialer"]) \notin ImportConns /\ import'["dialer"].conn = Head(registry["dialer"])
      BY <1>1, <1>2, <1>3, <2>1, <2>3, <3>1
    <3>. QED
      BY <1>1, <1>3, <2>1, <2>2, <2>3, <3>2, OwnedAfter
  <2>4. CASE s # "dialer"
    BY <1>2, <2>1, <2>2, <2>4, OwnersKept
  <2>. QED
    BY <2>3, <2>4
<1>6. ASSUME NEW s \in Sides, OpenFails(s) \/ ImportEnds(s) PROVE OwnedInv'
  <2>1. /\ import' = [import EXCEPT ![s] = IdleImport]
        /\ UNCHANGED session
    BY <1>6 DEF OpenFails, ImportEnds
  <2>2. \A t \in Sides : import'[t].pc = "idle" => import'[t].conn = NoConn
    BY <1>1, <1>2, <2>1 DEF IdleImport
  <2>3. import[s].conn \in Conns
    BY <1>6 DEF SessionInv, ImportInv, OpenFails, ImportEnds
  <2>4. PICK e : /\ end' = [end EXCEPT ![import[s].conn][s] = e]
                 /\ e = "none" <=> Owns(s) \/ end[import[s].conn][s] = "none"
    <3>1. CASE OpenFails(s)
      <4>1. CASE Owns(s)
        BY <3>1, <4>1 DEF OpenFails
      <4>2. CASE ~Owns(s) /\ end[import[s].conn][s] = "open"
        <5>1. end' = [end EXCEPT ![import[s].conn][s] = "closed"]
          BY <3>1, <4>2 DEF OpenFails
        <5>2. "closed" = "none" <=> Owns(s) \/ end[import[s].conn][s] = "none"
          BY <4>2
        <5>. QED
          BY <5>1, <5>2, Zenon
      <4>3. CASE ~Owns(s) /\ end[import[s].conn][s] # "open"
        BY <3>1, <4>3 DEF OpenFails
      <4>. QED
        BY <4>1, <4>2, <4>3
    <3>2. CASE ImportEnds(s) /\ Owns(s)
      BY <3>2 DEF ImportEnds
    <3>3. CASE ImportEnds(s) /\ ~Owns(s)
      <4>1. end' = end
        BY <3>3 DEF ImportEnds
      <4>2. end = [end EXCEPT ![import[s].conn][s] = end[import[s].conn][s]]
        BY <1>2, <2>3 DEF EndStates, Sides
      <4>. QED
        BY <3>3, <4>1, <4>2
    <3>. QED
      BY <1>6, <3>1, <3>2, <3>3
  <2>5. CASE s = "dialer"
    <3>1. \A d \in Conns : end'[d].dialer = IF d = import[s].conn THEN e ELSE end[d].dialer
      BY <1>2, <2>3, <2>4, <2>5 DEF EndStates
    <3>2. import'["dialer"].conn = NoConn
      BY <1>2, <2>1, <2>5 DEF IdleImport
    <3>3. \A d \in SessionConns \cup ProbeConns : end'[d].dialer = "none" <=> end[d].dialer = "none"
      BY <1>3, <2>4, <2>5, <3>1 DEF Owns
    <3>4. \A d \in ImportConns : end'[d].dialer = "none"
      BY <1>1, <1>3, <2>4, <2>5, <3>1 DEF Owns
    <3>. QED
      BY <1>1, <1>3, <2>1, <2>2, <3>2, <3>3, <3>4, OwnedAfter
  <2>6. CASE s # "dialer"
    <3>1. \A d \in Conns : end'[d].dialer = end[d].dialer
      BY <1>2, <2>3, <2>4, <2>6 DEF EndStates
    <3>. QED
      BY <1>2, <2>1, <2>2, <2>6, <3>1, OwnersKept
  <2>. QED
    BY <2>5, <2>6
<1>. QED
    BY <1>4, <1>5, <1>6

\* The other steps: a restart of the dialer ends all at once, and what happens
\* to an end that stays, or at the listener, changes no owner.
LEMMA OwnedOther ==
    ASSUME SessionInv, OwnedInv, SessionInv',
           \/ \E c \in Conns : \/ ProbeDial(c) \/ Accept(c) \/ Refuse(c) \/ HeartbeatFails(c)
                              \/ \E s \in Sides : EndCloses(c, s)
           \/ \E s \in Sides : OpenStream(s) \/ StreamAccepted(s) \/ Restart(s)
           \/ NetworkChanges \/ CallFails \/ UNCHANGED sessionVars
    PROVE  OwnedInv'
<1>1. \A s \in Sides : import[s].pc = "idle" => import[s].conn = NoConn
    BY DEF OwnedInv
<1>2. /\ end \in [Conns -> EndStates]
      /\ import \in [Sides -> [pc : {"idle", "open", "sent", "served"}, conn : Conns \cup {NoConn}]]
    BY DEF SessionInv, SessionTypeOK
<1>3. ASSUME NEW c \in Conns,
             \/ ProbeDial(c) \/ Accept(c) \/ Refuse(c) \/ HeartbeatFails(c)
             \/ \E s \in Sides : EndCloses(c, s)
      PROVE  OwnedInv'
  <2>1. PICK s \in Sides, e \in {"pending", "open", "closed", "none"} :
          /\ end' = [end EXCEPT ![c][s] = e]
          /\ s = "dialer" => e = "closed" /\ end[c].dialer = "open"
    <3>1. CASE ProbeDial(c) \/ Accept(c) \/ Refuse(c)
      BY <3>1 DEF ProbeDial, Accept, Refuse, Sides
    <3>2. CASE HeartbeatFails(c)
      BY <3>2 DEF HeartbeatFails, Sides
    <3>3. CASE \E s \in Sides : EndCloses(c, s)
      BY <3>3 DEF EndCloses
    <3>. QED
      BY <1>3, <3>1, <3>2, <3>3
  <2>2. \A d \in Conns : end'[d].dialer = "none" <=> end[d].dialer = "none"
    BY <1>2, <2>1 DEF EndStates
  <2>3. UNCHANGED <<session, import>>
    BY <1>3 DEF ProbeDial, Accept, Refuse, HeartbeatFails, EndCloses
  <2>. QED
    BY <1>1, <2>2, <2>3, OwnersKept
<1>4. ASSUME NEW s \in Sides, OpenStream(s) \/ StreamAccepted(s) PROVE OwnedInv'
  <2>1. PICK pc : pc # "idle" /\ import' = [import EXCEPT ![s].pc = pc]
    BY <1>4 DEF OpenStream, StreamAccepted
  <2>2. UNCHANGED <<end, session>>
    BY <1>4 DEF OpenStream, StreamAccepted
  <2>3. /\ import'["dialer"].conn = import["dialer"].conn
        /\ \A t \in Sides : import'[t].pc = "idle" => import'[t].conn = NoConn
    BY <1>1, <1>2, <2>1 DEF Sides
  <2>. QED
    BY <2>2, <2>3, OwnersKept
<1>5. ASSUME NEW s \in Sides, Restart(s) PROVE OwnedInv'
  <2>1. /\ \A c \in Conns : end'[c].dialer = IF s = "dialer" THEN "none" ELSE end[c].dialer
        /\ session' = IF s = "dialer" THEN NoConn ELSE session
        /\ import' = [import EXCEPT ![s] = IdleImport]
    BY <1>2, <1>5 DEF Restart, EndStates, Sides
  <2>2. \A t \in Sides : import'[t].pc = "idle" => import'[t].conn = NoConn
    BY <1>1, <1>2, <2>1 DEF IdleImport
  <2>3. CASE s = "dialer"
    <3>1. import'["dialer"].conn = NoConn
      BY <1>2, <2>1, <2>3 DEF IdleImport
    <3>2. NoConn \notin SessionConns /\ NoConn \notin ImportConns
      BY ConnectionsAssumption DEF Conns
    <3>. QED
      BY <2>1, <2>2, <2>3, <3>1, <3>2, OwnedAfter DEF Conns
  <2>4. CASE s # "dialer"
    BY <1>2, <2>1, <2>2, <2>4, OwnersKept
  <2>. QED
    BY <2>3, <2>4
<1>6. CASE NetworkChanges \/ CallFails \/ UNCHANGED sessionVars
  <2>1. UNCHANGED <<end, session, import>>
    BY <1>6 DEF NetworkChanges, CallFails, sessionVars
  <2>. QED
    BY <1>1, <2>1, OwnersKept
<1>. QED
    BY <1>3, <1>4, <1>5, <1>6

------------------------------------------------------------------------------
(* Theorems.                                                               *)

\* No connection at first.
LEMMA InitSession == SessionInit => SessionInv
<1> SUFFICES ASSUME SessionInit PROVE SessionInv
    OBVIOUS
<1>1. SessionTypeOK
  <2>1. NoEnds \in EndStates
    BY DEF NoEnds, EndStates
  <2>2. <<>> \in Seq(Conns)
    BY EmptySeq
  <2>. QED
    BY <2>1, <2>2, ConnectionsAssumption DEF SessionInit, SessionTypeOK, IdleImport
<1>2. RegistryExact
    BY DEF SessionInit, RegistryExact, Registered, IsInjective, NoEnds, Sides
<1>3. ImportInv
    BY DEF SessionInit, ImportInv, IdleImport
<1>. QED
    BY <1>1, <1>2, <1>3 DEF SessionInv

\* One action at a time.
LEMMA NextSession == SessionInv /\ [SessionNext]_sessionVars => SessionInv' /\ HeadsKept
<1> SUFFICES ASSUME SessionInv, [SessionNext]_sessionVars PROVE SessionInv' /\ HeadsKept
    OBVIOUS
<1> DEFINE Goal == SessionInv' /\ HeadsKept
<1>1. ASSUME NEW c \in Conns, DialSession(c) PROVE Goal
    BY <1>1, DialSessionStep
<1>2. ASSUME NEW c \in Conns, Accept(c) PROVE Goal
    BY <1>2, AcceptStep
<1>3. ASSUME NEW c \in Conns, ProbeDial(c) \/ ImportDial(c) PROVE Goal
    BY <1>3, DialStep
<1>4. ASSUME NEW c \in Conns,
             Refuse(c) \/ HeartbeatFails(c) \/ \E s \in Sides : EndCloses(c, s)
      PROVE  Goal
    BY <1>4, CloseStep
<1>5. ASSUME NEW c \in Conns, NEW s \in Sides, HandlerReturns(c, s) PROVE Goal
    BY <1>5, HandlerReturnsStep
<1>6. ASSUME NEW s \in Sides,
             ImportChoose(s) \/ OpenStream(s) \/ StreamAccepted(s) \/ ImportEnds(s)
      PROVE  Goal
    BY <1>6, ImportStep
<1>7. ASSUME NEW s \in Sides, OpenFails(s) PROVE Goal
    BY <1>7, OpenFailsStep
<1>8. ASSUME NEW s \in Sides, Restart(s) PROVE Goal
    BY <1>8, RestartStep
<1>9. ASSUME NetworkChanges \/ CallFails \/ UNCHANGED sessionVars PROVE Goal
    BY <1>9, OtherStep
<1> HIDE DEF Goal
<1>10. Goal
    BY <1>1, <1>2, <1>3, <1>4, <1>5, <1>6, <1>7, <1>8, <1>9 DEF SessionNext, SessionStep
<1>. QED
    BY <1>10 DEF Goal

\* The inductive invariant of the gateways.
THEOREM SessionInvariant == SessionSpec => []SessionInv
<1>1. SessionInv /\ [SessionNext]_sessionVars => SessionInv'
    BY NextSession
<1>. QED
    BY InitSession, <1>1, PTL DEF SessionSpec

\* Type correctness of the gateways and their connections.
THEOREM SessionTypeCorrect == SessionSpec => []SessionTypeOK
<1>1. SessionInv => SessionTypeOK
    BY DEF SessionInv
<1>. QED
    BY <1>1, SessionInvariant, PTL

\* handleConnection, registry.put and registry.remove: a registry has exactly
\* what its gateway handles, whatever else takes connections out of it.
THEOREM RegistryExactHolds == SessionSpec => []RegistryExact
<1>1. SessionInv => RegistryExact
    BY DEF SessionInv
<1>. QED
    BY <1>1, SessionInvariant, PTL

\* registry.get: what imports use is not displaced while it is open.
THEOREM OldestKeptHolds == SessionSpec => OldestKept
<1>1. SessionInv /\ [SessionNext]_sessionVars => [HeadsKept]_sessionVars
    BY NextSession
<1>. QED
    BY <1>1, SessionInvariant, PTL DEF SessionSpec, OldestKept, HeadsKept

\* maintainSession, proxyImport and the agent's probe: every connection that the
\* dialer's gateway has is its loop's or an import's, which will close it.
THEOREM ConnectionsOwnedHolds == SessionSpec => []ConnectionsOwned
<1>1. SessionInit => OwnedInv
  <2> SUFFICES ASSUME SessionInit PROVE OwnedInv
    OBVIOUS
  <2>1. NoConn \notin SessionConns /\ NoConn \notin ImportConns
    BY ConnectionsAssumption DEF Conns
  <2>2. \A c \in Conns : end[c].dialer = "none"
    BY DEF SessionInit, NoEnds
  <2>3. /\ import = [s \in Sides |-> IdleImport] /\ session = NoConn
        /\ registry = [s \in Sides |-> <<>>]
    BY DEF SessionInit
  <2>4. Registered("dialer") = {}
    BY <2>3 DEF Registered, Sides
  <2>. QED
    BY <2>1, <2>2, <2>3, <2>4 DEF OwnedInv, ConnectionsOwned, IdleImport, Conns, Sides
<1>2. SessionInv /\ SessionInv' /\ OwnedInv /\ [SessionNext]_sessionVars => OwnedInv'
    BY OwnedSession, OwnedImport, OwnedOther DEF SessionNext, SessionStep
<1>3. OwnedInv => ConnectionsOwned
    BY DEF OwnedInv
<1>. QED
    BY <1>1, <1>2, <1>3, SessionInvariant, PTL DEF SessionSpec
==============================================================================
