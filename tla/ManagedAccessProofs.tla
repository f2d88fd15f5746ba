------------------------- MODULE ManagedAccessProofs -------------------------
(***************************************************************************)
(* Proofs about ManagedAccess for any number of grants, places, concurrent *)
(* requests and hub replicas. The argument: generations and the owner's    *)
(* consents are only ever added, so what was consented stays consented on  *)
(* every stale copy; and whatever the agent carries from step to step, a   *)
(* role or a token, in its round or in a request that is still at work,    *)
(* belongs to a generation that both sides approved.                       *)
(* What the agent waits for is a request of its round, so a request to     *)
(* report a grant, and a status that shows it, are about a grant both      *)
(* agreed to. A token that can be used has its ServiceAccount: the two     *)
(* steps that take access away reach every copy of the token.              *)
(***************************************************************************)
EXTENDS ManagedAccess, TLAPS, WellFoundedInduction

\* The owner can only have approved a generation there is.
ConsentInv ==
    /\ \A g \in Grants : Len(spec[g]) \in 1..(edits + 1)
    /\ \A g \in Grants : consented[g] \subseteq 1..Len(spec[g])
    /\ \A g \in Grants : approval[g] # 0 => approval[g] \in consented[g]

\* The agent works on generations the administrator approved; once it has read
\* the owner's approval, on a generation both approved.
AgentInv ==
    /\ agent.pc # "idle" => agent.todo # {}
    /\ \A h \in agent.todo : agent.gens[h] \in 1..Len(spec[h]) /\ spec[h][agent.gens[h]].approved
    /\ agent.pc \in {"sa", "rbac", "token"} => Consented(Grant, Gen)
    /\ agent.pc = "rbac" => agent.places \subseteq Scope(Instruction)
    /\ agent.token.gen # 0 => agent.pc = "store" /\ Consented(Grant, agent.token.gen)
    /\ agent.request # NoRequest => agent.pc = "wait"

\* So does every request that carries a token.
RequestInv ==
    \A q \in Requests : request[q].token.gen # 0 =>
        /\ request[q].grant \in Grants
        /\ Consented(request[q].grant, request[q].token.gen)

\* So does every role and every stored token.
AccessInv ==
    \A g \in Grants :
        /\ \A p \in Places : rbac[g].role[p] # 0 =>
              Consented(g, rbac[g].role[p]) /\ p \in Scope(spec[g][rbac[g].role[p]])
        /\ stored[g].gen # 0 => Consented(g, stored[g].gen)

IInv ==
    /\ TypeOK
    /\ ConsentInv
    /\ AgentInv
    /\ RequestInv
    /\ AccessInv

------------------------------------------------------------------------------
(* Lemmas about the operators.                                             *)

\* A nonempty set of numbers has its minimum among its elements.
LEMMA MinInSet ==
    ASSUME NEW S \in SUBSET Nat, S # {}
    PROVE  Min(S) \in S
<1> DEFINE Less == {ss \in Nat \X Nat : ss[1] < ss[2]}
<1>1. IsWellFoundedOn(Less, Nat)
    BY NatLessThanWellFounded DEF OpToRel
<1>2. PICK x \in S : \A y \in S : <<y, x>> \notin Less
  <2> HIDE DEF Less
  <2>. QED
    BY <1>1, WFMin, Zenon
<1>3. ASSUME NEW y \in S PROVE x =< y
  <2>1. x \in Nat /\ y \in Nat
    OBVIOUS
  <2>2. <<y, x>> \notin Less
    BY <1>2
  <2>3. ~(y < x)
    BY <2>1, <2>2
  <2>. QED
    BY <2>1, <2>3
<1>4. \E z \in S : \A y \in S : z =< y
    BY <1>3
<1>. QED
    BY <1>4 DEF Min

\* The grant the agent works on is one of its round.
LEMMA GrantInTodo ==
    ASSUME TypeOK, agent.todo # {}
    PROVE  Grant \in agent.todo /\ Grant \in Grants
<1>1. agent.todo \in SUBSET Nat /\ agent.todo \in SUBSET Grants
    BY ConstantsAssumption DEF TypeOK, AgentRound, Grants
<1>. QED
    BY <1>1, MinInSet DEF Grant

\* Making readings stale changes no grant and no token.
LEMMA StaleRequestsType ==
    ASSUME NEW kind, NEW g, request \in [Requests -> Request]
    PROVE  /\ StaleRequests(kind, g) \in [Requests -> Request]
           /\ \A q \in Requests : /\ StaleRequests(kind, g)[q].grant = request[q].grant
                                  /\ StaleRequests(kind, g)[q].token = request[q].token
<1> DEFINE Fresh(q) == request[q].fresh /\ ~(request[q].kind = kind /\ request[q].grant = g)
<1>1. \A q \in Requests : Fresh(q) \in BOOLEAN
    OBVIOUS
<1>2. StaleRequests(kind, g) = [q \in Requests |-> [request[q] EXCEPT !.fresh = Fresh(q)]]
    BY DEF StaleRequests
<1> HIDE DEF Fresh
<1>. QED
    BY <1>1, <1>2 DEF Request

\* A request that is not refused any more keeps everything else.
LEMMA AcceptedType ==
    ASSUME NEW r \in Request
    PROVE  LET a == [r EXCEPT !.refused = FALSE] IN
           a \in Request /\ a.kind = r.kind /\ a.grant = r.grant /\ a.token = r.token
<1> DEFINE no == FALSE
<1>1. no \in BOOLEAN
    OBVIOUS
<1> HIDE DEF no
<1>2. LET a == [r EXCEPT !.refused = no] IN
      a \in Request /\ a.kind = r.kind /\ a.grant = r.grant /\ a.token = r.token
    BY <1>1 DEF Request
<1>. QED
    BY <1>2 DEF no

\* Answering requests frees them and leaves the grants and tokens of the others.
LEMMA WithoutType ==
    ASSUME NEW requests \in [Requests -> Request], NEW done
    PROVE  /\ Without(requests, done) \in [Requests -> Request]
           /\ \A q \in Requests :
                 Without(requests, done)[q].token.gen # 0 =>
                    /\ Without(requests, done)[q].grant = requests[q].grant
                    /\ Without(requests, done)[q].token = requests[q].token
<1>1. FreeRequest \in Request /\ FreeRequest.token.gen = 0
    BY DEF FreeRequest, Request, Token, NoToken, TokenStates
<1>2. ASSUME NEW q \in Requests
      PROVE  /\ [requests[q] EXCEPT !.older = @ \ done] \in Request
             /\ [requests[q] EXCEPT !.older = @ \ done].grant = requests[q].grant
             /\ [requests[q] EXCEPT !.older = @ \ done].token = requests[q].token
    BY DEF Request
<1>. QED
    BY <1>1, <1>2 DEF Without

\* The end of a token changes its state only.
LEMMA TokenEnds ==
    ASSUME NEW token \in Token
    PROVE  /\ Dead(token) \in Token /\ Dead(token).gen = token.gen
           /\ Expired(token) \in Token /\ Expired(token).gen = token.gen
           /\ \A g, e : AtEnd(g, e, token) \in Token /\ AtEnd(g, e, token).gen = token.gen
<1>1. Dead(token) \in Token /\ Dead(token).gen = token.gen
    BY DEF Token, TokenStates, Dead
<1>2. Expired(token) \in Token /\ Expired(token).gen = token.gen
    BY DEF Token, TokenStates, Expired
<1>. QED
    BY <1>1, <1>2 DEF AtEnd

\* A token that can be used after an end has not ended.
LEMMA GoodToken ==
    ASSUME NEW token \in Token
    PROVE  /\ Dead(token).state # "good"
           /\ \A g, e : AtEnd(g, e, token).state = "good" =>
                 AtEnd(g, e, token) = token /\ (token.gen = 0 \/ spec[g][token.gen].expiresAt # e)
<1>1. Dead(token).state # "good"
    BY DEF Token, TokenStates, Dead
<1>2. token.gen # 0 => Expired(token).state # "good"
    BY DEF Token, TokenStates, Expired
<1>. QED
    BY <1>1, <1>2 DEF AtEnd, Expired

------------------------------------------------------------------------------
(* Grants and consents only grow.                                          *)

\* Only the administrator and the owner change grants and approvals.
LEMMA WorldSteps ==
    ASSUME [Next]_vars
    PROVE  \/ \E g \in Grants, s \in GrantSpec : EditGrant(g, s)
           \/ \E g \in Grants : Approve(g) \/ WithdrawApproval(g)
           \/ UNCHANGED <<spec, edits, approval, consented>>
<1> USE DEF world
<1>1. CASE \E g \in Grants : (\E s \in GrantSpec : EditGrant(g, s)) \/ Approve(g) \/ WithdrawApproval(g)
    BY <1>1
<1>2. CASE (\E g \in Grants : TokenExpires(g)) \/ (\E e \in Expiries : Tick(e))
    BY <1>2 DEF TokenExpires, Tick
<1>3. CASE PollGrants \/ ReadApproval \/ CreateServiceAccount \/ IssueToken \/ AgentFails
    BY <1>3 DEF PollGrants, ReadApproval, CreateServiceAccount, IssueToken, AgentFails
<1>4. CASE \E places \in SUBSET Places, sa \in BOOLEAN : RemoveAccess(places, sa)
    BY <1>4 DEF RemoveAccess
<1>5. CASE \E p \in Places : WriteRole(p) \/ BindRole(p)
    BY <1>5 DEF WriteRole, BindRole
<1>6. CASE \E q \in Requests : Send(q) \/ StoreCheck(q) \/ StoreGet(q) \/ StoreWrite(q) \/ StoreRecord(q)
    BY <1>6 DEF Send, StoreCheck, StoreGet, StoreWrite, StoreRecord
<1>7. CASE \E q \in Requests : RevokeDelete(q) \/ FulfillGet(q) \/ FulfillUpdate(q) \/ RequestFails(q)
    BY <1>7 DEF RevokeDelete, FulfillGet, FulfillUpdate, RequestFails
<1>8. CASE BrokerRestarts
    BY <1>8 DEF BrokerRestarts
<1>9. CASE \E r \in Reconcilers : ReconcileList(r) \/ ReconcileUpdate(r) \/ ReconcileFails(r)
    BY <1>9 DEF ReconcileList, ReconcileUpdate, ReconcileFails
<1>10. CASE UNCHANGED vars
    BY <1>10 DEF vars
<1>. QED
    BY <1>1, <1>2, <1>3, <1>4, <1>5, <1>6, <1>7, <1>8, <1>9, <1>10, Zenon DEF Next

\* A generation of a grant never changes, and a consent is never taken from it:
\* what is consented stays consented, whoever holds a copy.
LEMMA ConsentStays ==
    ASSUME TypeOK, ConsentInv, [Next]_vars
    PROVE  /\ ConsentInv'
           /\ \A g \in Grants : \A n \in 1..Len(spec[g]) :
                 n \in 1..Len(spec'[g]) /\ spec'[g][n] = spec[g][n]
           /\ \A g \in Grants : \A n : Consented(g, n) =>
                 n \in 1..Len(spec[g]) /\ Consented(g, n)'
<1> DEFINE Grow == \A g \in Grants : /\ consented[g] \subseteq consented'[g]
                                     /\ \A n \in 1..Len(spec[g]) :
                                          n \in 1..Len(spec'[g]) /\ spec'[g][n] = spec[g][n]
<1>1. ASSUME NEW g \in Grants, NEW s \in GrantSpec, EditGrant(g, s)
      PROVE  ConsentInv' /\ Grow
  <2>1. /\ spec' = [spec EXCEPT ![g] = Append(@, s)] /\ edits' = edits + 1
        /\ UNCHANGED <<approval, consented>>
        /\ spec \in [Grants -> Seq(GrantSpec)] /\ edits \in Nat
    BY <1>1, ConstantsAssumption DEF EditGrant, TypeOK
  <2>2. /\ spec[g] \in Seq(GrantSpec) /\ spec'[g] = Append(spec[g], s)
        /\ \A h \in Grants : h # g => spec'[h] = spec[h]
    BY <2>1
  <2>3. /\ Len(spec'[g]) = Len(spec[g]) + 1 /\ Len(spec[g]) \in Nat
        /\ \A n \in 1..Len(spec[g]) : spec'[g][n] = spec[g][n]
    BY <2>2
  <2>. QED
    BY <2>1, <2>2, <2>3 DEF ConsentInv
<1>2. ASSUME NEW g \in Grants, Approve(g) \/ WithdrawApproval(g)
      PROVE  ConsentInv' /\ Grow
  <2>1. Len(spec[g]) \in 1..Len(spec[g]) /\ UNCHANGED <<spec, edits>>
    BY <1>2 DEF TypeOK, Generations, ConsentInv, Approve, WithdrawApproval, world
  <2>2. approval \in [Grants -> Generations \cup {0}] /\ consented \in [Grants -> SUBSET Generations]
    BY DEF TypeOK
  <2>3. CASE Approve(g)
    <3>1. /\ approval' = [approval EXCEPT ![g] = Len(spec[g])]
          /\ consented' = [consented EXCEPT ![g] = @ \cup {Len(spec[g])}]
      BY <2>3 DEF Approve
    <3>. QED
      BY <2>1, <2>2, <3>1 DEF ConsentInv
  <2>4. CASE WithdrawApproval(g)
    <3>1. approval' = [approval EXCEPT ![g] = 0] /\ UNCHANGED consented
      BY <2>4 DEF WithdrawApproval
    <3>. QED
      BY <2>1, <2>2, <3>1 DEF ConsentInv
  <2>. QED
    BY <1>2, <2>3, <2>4
<1>3. ASSUME UNCHANGED <<spec, edits, approval, consented>>
      PROVE  ConsentInv' /\ Grow
    BY <1>3 DEF ConsentInv
<1>4. ConsentInv' /\ Grow
  <2> HIDE DEF Grow
  <2>. QED
    BY <1>1, <1>2, <1>3, WorldSteps
<1>. QED
    BY <1>4 DEF Consented, ConsentInv

------------------------------------------------------------------------------
(* The agent.                                                              *)

\* What the agent was told still holds when a copy of it is used later.
LEMMA AgentStays ==
    ASSUME TypeOK, ConsentInv, AgentInv, [Next]_vars, agent' \in AgentRound,
           agent'.pc = agent.pc, agent'.todo = agent.todo, agent'.gens = agent.gens,
           agent'.places = agent.places, agent'.token.gen = agent.token.gen,
           agent'.request = agent.request
    PROVE  AgentInv'
<1>1. CASE agent.todo = {}
    BY <1>1 DEF AgentInv
<1>2. CASE agent.todo # {}
  <2>1. Grant \in agent.todo /\ Grant \in Grants /\ Grant' = Grant /\ Gen' = Gen
    BY <1>2, GrantInTodo DEF Grant, Gen
  <2>2. \A h \in agent.todo : h \in Grants /\ agent.gens[h] \in 1..Len(spec[h])
                              /\ spec[h][agent.gens[h]].approved
    BY DEF AgentInv, TypeOK, AgentRound
  <2>3. \A h \in agent.todo : agent.gens[h] \in 1..Len(spec'[h])
                              /\ spec'[h][agent.gens[h]] = spec[h][agent.gens[h]]
    BY <2>2, ConsentStays
  <2>4. Scope(Instruction)' = Scope(Instruction)
    BY <2>1, <2>3 DEF Instruction, Gen, Scope
  <2>5. \A n : Consented(Grant, n) => n \in consented'[Grant] /\ spec'[Grant][n].approved
                                      /\ ~spec'[Grant][n].revoked
    BY <2>1, ConsentStays DEF Consented
  <2>. QED
    BY <2>1, <2>2, <2>3, <2>4, <2>5 DEF AgentInv, Consented
<1>. QED
    BY <1>1, <1>2

\* A round that ended leaves nothing to carry.
LEMMA IdleAgentOK == agent' = IdleAgent => agent' \in AgentRound /\ AgentInv'
    BY DEF IdleAgent, AgentRound, AgentInv, NoToken, Token, TokenStates, Generations

\* An answer ends the round, moves on to the next grant, or to grant.fulfilled.
LEMMA AnsweredOK ==
    ASSUME TypeOK, AgentInv, UNCHANGED <<spec, consented>>,
           NEW q \in Requests, NEW ok, agent' = Answered(q, ok)
    PROVE  agent' \in AgentRound /\ AgentInv'
<1> USE DEF AgentRound
<1>1. CASE agent' = agent
    BY <1>1 DEF TypeOK, AgentInv, Consented, Grant, Gen, Instruction, Scope
<1>2. CASE agent' = IdleAgent
    BY <1>2, IdleAgentOK
<1>3. CASE agent.request = q /\ agent' = [agent EXCEPT !.pc = "fulfil", !.request = NoRequest]
  <2>1. agent.pc = "wait" /\ agent.todo # {} /\ agent.token.gen = 0
    BY <1>3, ConstantsAssumption DEF AgentInv
  <2>2. /\ agent' \in AgentRound /\ agent'.pc = "fulfil" /\ agent'.todo = agent.todo
        /\ agent'.gens = agent.gens /\ agent'.token = agent.token /\ agent'.request = NoRequest
    BY <1>3 DEF TypeOK
  <2>. QED
    BY <2>1, <2>2 DEF AgentInv
<1>4. CASE agent.request = q /\ agent' = NextGrant /\ agent' # IdleAgent
  <2>1. agent.pc = "wait" /\ agent.todo # {} /\ agent.token.gen = 0
    BY <1>4, ConstantsAssumption DEF AgentInv
  <2>2. Grant \in agent.todo /\ Grant \in Grants /\ agent.todo # {Grant}
    BY <1>4, <2>1, GrantInTodo DEF NextGrant
  <2>3. agent' = [agent EXCEPT !.pc = "grant", !.todo = @ \ {Grant}, !.gens[Grant] = 0,
                               !.request = NoRequest]
    BY <1>4, <2>2 DEF NextGrant
  <2> HIDE DEF AgentRound
  <2>4. /\ agent' \in AgentRound /\ agent'.pc = "grant" /\ agent'.todo = agent.todo \ {Grant}
        /\ \A h \in agent'.todo : agent'.gens[h] = agent.gens[h]
        /\ agent'.token = agent.token /\ agent'.request = NoRequest
    <3> DEFINE gens == [agent.gens EXCEPT ![Grant] = 0]
    <3>1. agent \in AgentRound
      BY DEF TypeOK
    <3>2. /\ gens \in [Grants -> Generations \cup {0}]
          /\ \A h \in agent.todo \ {Grant} : gens[h] = agent.gens[h]
      BY <3>1, <2>2 DEF AgentRound
    <3>3. agent' = [agent EXCEPT !.pc = "grant", !.todo = agent.todo \ {Grant},
                      !.gens = gens, !.request = NoRequest]
      BY <2>3, <3>1 DEF AgentRound
    <3> HIDE DEF gens
    <3>4. /\ agent' \in AgentRound /\ agent'.pc = "grant" /\ agent'.todo = agent.todo \ {Grant}
          /\ agent'.gens = gens /\ agent'.token = agent.token /\ agent'.request = NoRequest
      BY <3>1, <3>2, <3>3 DEF AgentRound
    <3>. QED
      BY <3>2, <3>4
  <2>. QED
    BY <2>1, <2>2, <2>4 DEF AgentInv
<1>. QED
    BY <1>1, <1>2, <1>3, <1>4, Zenon DEF Answered

\* A round that goes on with the same grant.
LEMMA SameGrant ==
    ASSUME TypeOK, agent.todo # {}, agent'.todo = agent.todo, agent'.gens = agent.gens,
           UNCHANGED <<spec, consented>>
    PROVE  /\ Grant \in agent.todo /\ Grant \in Grants /\ Grant' = Grant /\ Gen' = Gen
           /\ Scope(Instruction)' = Scope(Instruction)
           /\ \A n : Consented(Grant, n)' <=> Consented(Grant, n)
    BY GrantInTodo DEF Grant, Gen, Instruction, Scope, Consented

\* Every step keeps what the agent holds consented.
LEMMA NextAgent ==
    ASSUME IInv, [Next]_vars
    PROVE  agent' \in AgentRound /\ AgentInv'
<1> DEFINE Goal == agent' \in AgentRound /\ AgentInv'
<1>0. /\ TypeOK /\ ConsentInv /\ AgentInv
      /\ agent \in AgentRound
      /\ agent.todo \in SUBSET Grants
      /\ agent.pc # "idle" => agent.todo # {} /\ Grant \in agent.todo /\ Grant \in Grants
      /\ agent.pc # "idle" => Gen \in 1..Len(spec[Grant]) /\ Gen \in Generations
    BY GrantInTodo DEF IInv, TypeOK, AgentRound, AgentInv, Gen, Generations
<1>1. ASSUME UNCHANGED agent PROVE Goal
    BY <1>0, <1>1, AgentStays
<1>2. ASSUME NEW e \in Expiries, Tick(e) PROVE Goal
  <2>1. CASE UNCHANGED agent
    BY <2>1, <1>1
  <2>2. CASE agent' = [agent EXCEPT !.token = AtEnd(Min(agent.todo), e, agent.token)]
    <3>1. agent.token \in Token
      BY <1>0 DEF AgentRound
    <3> DEFINE end == AtEnd(Min(agent.todo), e, agent.token)
    <3>2. end \in Token /\ end.gen = agent.token.gen
      BY <3>1, TokenEnds
    <3>3. agent' = [agent EXCEPT !.token = end]
      BY <2>2
    <3> HIDE DEF end
    <3>4. /\ agent' \in AgentRound /\ agent'.token = end /\ agent'.pc = agent.pc
          /\ agent'.todo = agent.todo /\ agent'.gens = agent.gens
          /\ agent'.places = agent.places /\ agent'.request = agent.request
      BY <1>0, <3>2, <3>3 DEF AgentRound
    <3>. QED
      BY <1>0, <3>2, <3>4, AgentStays
  <2>. QED
    BY <1>2, <2>1, <2>2 DEF Tick
<1>3. CASE PollGrants
  <2> DEFINE gens == [g \in Grants |-> IF g \in PendingGrants THEN Len(spec[g]) ELSE 0]
  <2>1. /\ PendingGrants \in SUBSET Grants /\ PendingGrants # {} /\ UNCHANGED <<spec, consented>>
        /\ agent' = [IdleAgent EXCEPT !.pc = "grant", !.todo = PendingGrants, !.gens = gens]
    BY <1>3 DEF PollGrants, PendingGrants, world
  <2>2. /\ gens \in [Grants -> Generations \cup {0}]
        /\ \A h \in PendingGrants : gens[h] \in 1..Len(spec[h]) /\ spec[h][gens[h]].approved
    BY <1>0, ConstantsAssumption DEF TypeOK, ConsentInv, PendingGrants, Current, Generations
  <2> HIDE DEF gens
  <2>3. /\ agent' \in AgentRound /\ agent'.pc = "grant" /\ agent'.todo = PendingGrants
        /\ agent'.gens = gens /\ agent'.token.gen = 0 /\ agent'.request = NoRequest
    BY <2>1, <2>2 DEF IdleAgent, AgentRound, NoToken, Token, TokenStates
  <2>. QED
    BY <2>1, <2>2, <2>3 DEF AgentInv
<1>4. CASE ReadApproval
  <2>1. CASE agent' = IdleAgent
    BY <2>1, IdleAgentOK
  <2>2. CASE ApprovalValid /\ agent' = [agent EXCEPT !.pc = "sa"]
    <3>1. agent.pc = "grant" /\ ~Ended(Instruction) /\ UNCHANGED <<spec, consented>>
      BY <1>4 DEF ReadApproval, world
    <3>2. Consented(Grant, Gen)
      BY <1>0, <2>2, <3>1 DEF ApprovalValid, ConsentInv, Consented, AgentInv, Gen, Ended, Instruction
    <3>3. /\ agent' \in AgentRound /\ agent'.pc = "sa" /\ agent'.todo = agent.todo
          /\ agent'.gens = agent.gens /\ agent'.token = agent.token /\ agent'.request = agent.request
      BY <1>0, <2>2 DEF AgentRound
    <3>. QED
      BY <1>0, <3>1, <3>2, <3>3, SameGrant DEF AgentInv
  <2>. QED
    BY <1>4, <2>1, <2>2 DEF ReadApproval
<1>5. CASE CreateServiceAccount
  <2>1. /\ agent.pc = "sa" /\ UNCHANGED <<spec, consented>>
        /\ agent' = [agent EXCEPT !.pc = "rbac", !.places = Scope(Instruction)]
    BY <1>5 DEF CreateServiceAccount, world
  <2>2. Scope(Instruction) \in SUBSET Places
    <3>1. Instruction \in GrantSpec
      BY <1>0, <2>1 DEF TypeOK, Instruction
    <3>. QED
      BY <3>1 DEF GrantSpec, Scope, Places
  <2>3. /\ agent' \in AgentRound /\ agent'.pc = "rbac" /\ agent'.todo = agent.todo
        /\ agent'.gens = agent.gens /\ agent'.token = agent.token /\ agent'.request = agent.request
        /\ agent'.places = Scope(Instruction)
    BY <1>0, <2>1, <2>2 DEF AgentRound
  <2>. QED
    BY <1>0, <2>1, <2>3, SameGrant DEF AgentInv
<1>6. CASE IssueToken
  <2>1. CASE agent' = IdleAgent
    BY <2>1, IdleAgentOK
  <2>2. CASE agent' = [agent EXCEPT !.pc = "store", !.token = [gen |-> Gen, state |-> "good"]]
    <3>1. agent.pc = "token" /\ UNCHANGED <<spec, consented>>
      BY <1>6 DEF IssueToken, world
    <3>2. /\ agent' \in AgentRound /\ agent'.pc = "store" /\ agent'.todo = agent.todo
          /\ agent'.gens = agent.gens /\ agent'.token.gen = Gen /\ agent'.request = agent.request
      BY <1>0, <2>2, <3>1 DEF AgentRound, Token, TokenStates
    <3>. QED
      BY <1>0, <3>1, <3>2, SameGrant DEF AgentInv
  <2>. QED
    BY <1>6, <2>1, <2>2 DEF IssueToken
<1>7. CASE AgentFails
    BY <1>7, IdleAgentOK DEF AgentFails
<1>8. ASSUME NEW places \in SUBSET Places, NEW sa \in BOOLEAN, RemoveAccess(places, sa)
      PROVE  Goal
  <2>1. agent.pc = "grant" /\ agent' = [agent EXCEPT !.pc = "revoke"] /\ UNCHANGED <<spec, consented>>
    BY <1>8 DEF RemoveAccess, world
  <2>2. /\ agent' \in AgentRound /\ agent'.pc = "revoke" /\ agent'.todo = agent.todo
        /\ agent'.gens = agent.gens /\ agent'.token = agent.token /\ agent'.request = agent.request
    BY <1>0, <2>1 DEF AgentRound
  <2>. QED
    BY <1>0, <2>1, <2>2, SameGrant DEF AgentInv
<1>9. ASSUME NEW p \in Places, BindRole(p) PROVE Goal
  <2>1. /\ agent.pc = "rbac" /\ UNCHANGED <<spec, consented>>
        /\ agent' = [agent EXCEPT !.places = @ \ {p},
                                  !.pc = IF agent.places = {p} THEN "token" ELSE "rbac"]
    BY <1>9 DEF BindRole, world
  <2>2. /\ agent' \in AgentRound /\ agent'.pc \in {"rbac", "token"} /\ agent'.todo = agent.todo
        /\ agent'.gens = agent.gens /\ agent'.token = agent.token /\ agent'.request = agent.request
        /\ agent'.places \subseteq agent.places
    BY <1>0, <2>1 DEF AgentRound
  <2>. QED
    BY <1>0, <2>1, <2>2, SameGrant DEF AgentInv
<1>10. ASSUME NEW q \in Requests, Send(q) PROVE Goal
  <2>1. /\ agent.pc \in {"store", "revoke", "fulfil"} /\ UNCHANGED <<spec, consented>>
        /\ agent' = [agent EXCEPT !.pc = "wait", !.token = NoToken, !.request = q]
    BY <1>10 DEF Send, world
  <2>2. /\ agent' \in AgentRound /\ agent'.pc = "wait" /\ agent'.todo = agent.todo
        /\ agent'.gens = agent.gens /\ agent'.token.gen = 0
    BY <1>0, <2>1 DEF AgentRound, NoToken, Token, TokenStates
  <2>. QED
    BY <1>0, <2>1, <2>2, SameGrant DEF AgentInv
<1>11. ASSUME NEW q \in Requests,
              \/ StoreCheck(q) \/ StoreWrite(q) \/ StoreRecord(q)
              \/ RevokeDelete(q) \/ FulfillUpdate(q) \/ RequestFails(q)
       PROVE  Goal
  <2>1. /\ UNCHANGED <<spec, consented>>
        /\ UNCHANGED agent \/ agent' = Answered(q, TRUE) \/ agent' = Answered(q, FALSE)
    BY <1>11 DEF StoreCheck, StoreWrite, StoreRecord, RevokeDelete, FulfillUpdate, RequestFails,
                 Finish, world
  <2>. QED
    BY <1>0, <1>1, <2>1, AnsweredOK
<1>12. CASE BrokerRestarts
  <2>1. UNCHANGED agent \/ agent' = IdleAgent
    BY <1>12 DEF BrokerRestarts
  <2>. QED
    BY <1>1, <2>1, IdleAgentOK
<1>13. ASSUME \/ \E g \in Grants : \/ \E s \in GrantSpec : EditGrant(g, s)
                                   \/ Approve(g) \/ WithdrawApproval(g) \/ TokenExpires(g)
              \/ \E p \in Places : WriteRole(p)
              \/ \E q \in Requests : StoreGet(q) \/ FulfillGet(q)
              \/ \E r \in Reconcilers : ReconcileList(r) \/ ReconcileUpdate(r) \/ ReconcileFails(r)
              \/ UNCHANGED vars
       PROVE  Goal
  <2>1. UNCHANGED agent
    BY <1>13 DEF EditGrant, Approve, WithdrawApproval, TokenExpires, WriteRole, StoreGet, FulfillGet,
                 ReconcileList, ReconcileUpdate, ReconcileFails, vars
  <2>. QED
    BY <1>1, <2>1
<1>. QED
  <2> HIDE DEF Goal
  <2>1. Goal
    BY <1>2, <1>3, <1>4, <1>5, <1>6, <1>7, <1>8, <1>9, <1>10, <1>11, <1>12, <1>13 DEF Next, Goal
  <2>. QED
    BY <2>1 DEF Goal

------------------------------------------------------------------------------
(* The requests.                                                           *)

\* The token of a request still belongs to a consented generation when it
\* arrives late.
LEMMA RequestsStay ==
    ASSUME TypeOK, ConsentInv, RequestInv, [Next]_vars,
           \A q \in Requests : request'[q].token.gen # 0 =>
              request'[q].grant = request[q].grant /\ request'[q].token.gen = request[q].token.gen
    PROVE  RequestInv'
<1> SUFFICES ASSUME NEW q \in Requests, request'[q].token.gen # 0
             PROVE  /\ request'[q].grant \in Grants
                    /\ Consented(request[q].grant, request[q].token.gen)'
    BY DEF RequestInv
<1>1. /\ request'[q].grant = request[q].grant /\ request'[q].token.gen = request[q].token.gen
      /\ request[q].grant \in Grants /\ Consented(request[q].grant, request[q].token.gen)
    BY DEF RequestInv
<1>2. Consented(request[q].grant, request[q].token.gen)'
    BY <1>1, ConsentStays
<1>. QED
    BY <1>1, <1>2 DEF Consented

\* Every step keeps what the requests hold consented.
LEMMA NextRequest ==
    ASSUME IInv, [Next]_vars
    PROVE  request' \in [Requests -> Request] /\ RequestInv'
<1> DEFINE Keep == \A q \in Requests : request'[q].token.gen # 0 =>
              request'[q].grant = request[q].grant /\ request'[q].token.gen = request[q].token.gen
           Goal == request' \in [Requests -> Request] /\ (Keep \/ RequestInv')
<1>0. /\ TypeOK /\ ConsentInv /\ AgentInv /\ RequestInv
      /\ request \in [Requests -> Request] /\ agent \in AgentRound
    BY DEF IInv, TypeOK
<1>1. ASSUME UNCHANGED request PROVE Goal
    BY <1>0, <1>1
<1>2. ASSUME NEW kind, NEW g, request' = StaleRequests(kind, g) PROVE Goal
    BY <1>0, <1>2, StaleRequestsType
<1>3. ASSUME NEW requests \in [Requests -> Request], NEW done, request' = Without(requests, done),
             \A q \in Requests : requests[q].grant = request[q].grant
                                 /\ requests[q].token = request[q].token
      PROVE  Goal
    BY <1>3, WithoutType
<1>4. ASSUME NEW g \in Grants, NEW s \in GrantSpec, EditGrant(g, s) PROVE Goal
    BY <1>2, <1>4 DEF EditGrant
<1>5. ASSUME NEW r \in Reconcilers, ReconcileUpdate(r) PROVE Goal
    BY <1>1, <1>2, <1>5 DEF ReconcileUpdate
<1>6. ASSUME NEW e \in Expiries, Tick(e) PROVE Goal
  <2>1. CASE UNCHANGED request
    BY <1>1, <2>1
  <2>2. CASE request' = [q \in Requests |-> [request[q] EXCEPT
                                               !.token = AtEnd(request[q].grant, e, request[q].token)]]
    <3> DEFINE end(q) == AtEnd(request[q].grant, e, request[q].token)
    <3>1. \A q \in Requests : end(q) \in Token /\ end(q).gen = request[q].token.gen
      BY <1>0, TokenEnds DEF Request
    <3>2. request' = [q \in Requests |-> [request[q] EXCEPT !.token = end(q)]]
      BY <2>2
    <3> HIDE DEF end
    <3>. QED
      BY <1>0, <3>1, <3>2 DEF Request
  <2>. QED
    BY <1>6, <2>1, <2>2 DEF Tick
<1>7. ASSUME NEW places \in SUBSET Places, NEW sa \in BOOLEAN, RemoveAccess(places, sa)
      PROVE  Goal
  <2>1. CASE UNCHANGED request
    BY <1>1, <2>1
  <2>2. CASE request' = [q \in Requests |-> [request[q] EXCEPT
                           !.token = IF request[q].grant = Grant THEN Dead(request[q].token)
                                     ELSE request[q].token]]
    <3> DEFINE end(q) == IF request[q].grant = Grant THEN Dead(request[q].token)
                         ELSE request[q].token
    <3>1. \A q \in Requests : end(q) \in Token /\ end(q).gen = request[q].token.gen
      BY <1>0, TokenEnds DEF Request
    <3>2. request' = [q \in Requests |-> [request[q] EXCEPT !.token = end(q)]]
      BY <2>2
    <3> HIDE DEF end
    <3>3. request' \in [Requests -> Request]
      BY <1>0, <3>1, <3>2 DEF Request
    <3>4. \A q \in Requests : request'[q].grant = request[q].grant /\ request'[q].token = end(q)
      BY <1>0, <3>2 DEF Request
    <3>. QED
      BY <3>1, <3>3, <3>4
  <2>. QED
    BY <1>7, <2>1, <2>2 DEF RemoveAccess
<1>8. ASSUME NEW q \in Requests, Send(q) PROVE Goal
  <2> DEFINE new == [FreeRequest EXCEPT !.kind = agent.pc, !.pc = "sent", !.grant = Grant,
                       !.token = agent.token,
                       !.older = {x \in Requests : request[x].kind # "none"}]
  <2>1. /\ agent.pc \in {"store", "revoke", "fulfil"} /\ request' = [request EXCEPT ![q] = new]
        /\ UNCHANGED <<spec, consented>>
    BY <1>8 DEF Send, world
  <2>2. Grant \in Grants /\ (agent.token.gen # 0 => Consented(Grant, agent.token.gen))
    BY <1>0, <2>1, GrantInTodo DEF AgentInv
  <2>3. new \in Request /\ new.grant = Grant /\ new.token = agent.token
    BY <1>0, <2>1, <2>2 DEF FreeRequest, Request, AgentRound
  <2> HIDE DEF new
  <2>4. request' \in [Requests -> Request]
    BY <1>0, <2>1, <2>3
  <2>5. ASSUME NEW x \in Requests, request'[x].token.gen # 0
        PROVE  request'[x].grant \in Grants /\ Consented(request[x].grant, request[x].token.gen)'
    <3>1. \A h, n : n \in consented'[h] /\ spec'[h][n].approved /\ ~spec'[h][n].revoked
                     <=> Consented(h, n)
      BY <2>1 DEF Consented
    <3>2. CASE x = q
      <4>1. request'[x].grant = Grant /\ request'[x].token = agent.token
        BY <1>0, <2>1, <2>3, <3>2
      <4>. QED
        BY <2>2, <2>5, <3>1, <4>1 DEF Consented
    <3>3. CASE x # q
      <4>1. request'[x] = request[x]
        BY <1>0, <2>1, <3>3
      <4>. QED
        BY <1>0, <2>5, <3>1, <4>1 DEF RequestInv, Consented
    <3>. QED
      BY <3>2, <3>3
  <2>6. RequestInv'
    BY <2>5 DEF RequestInv
  <2>. QED
    BY <2>4, <2>6
<1>9. ASSUME NEW q \in Requests, StoreCheck(q) PROVE Goal
  <2>1. CASE request' = Without(request, {q})
    BY <1>0, <1>3, <2>1
  <2>2. CASE request' = [request EXCEPT ![q].pc = "get"]
    BY <1>0, <2>2 DEF Request
  <2>. QED
    BY <1>9, <2>1, <2>2 DEF StoreCheck, Finish
<1>10. ASSUME NEW q \in Requests, StoreGet(q) \/ FulfillGet(q) PROVE Goal
  <2>1. request' = [request EXCEPT ![q].pc = "write", ![q].fresh = TRUE]
    BY <1>10 DEF StoreGet, FulfillGet
  <2>2. request' \in [Requests -> Request]
    <3>1. ASSUME NEW b \in BOOLEAN
          PROVE  [request[q] EXCEPT !.pc = "write", !.fresh = b] \in Request
      <4>1. request[q] \in Request
        BY <1>0
      <4>. QED
        BY <4>1 DEF Request
    <3>2. [request[q] EXCEPT !.pc = "write", !.fresh = TRUE] \in Request
      BY <3>1, Zenon
    <3>. QED
      BY <1>0, <2>1, <3>2
  <2>3. \A x \in Requests : request'[x].grant = request[x].grant /\ request'[x].token = request[x].token
    BY <1>0, <2>1 DEF Request
  <2>. QED
    BY <2>2, <2>3
<1>11. ASSUME NEW q \in Requests, StoreWrite(q) PROVE Goal
  <2>1. CASE request' = Without(request, {q})
    BY <1>0, <1>3, <2>1
  <2>2. CASE request' = [StaleRequests("store", request[q].grant) EXCEPT ![q].pc = "record"]
    <3> DEFINE stale == StaleRequests("store", request[q].grant)
    <3>1. /\ stale \in [Requests -> Request] /\ request' = [stale EXCEPT ![q].pc = "record"]
          /\ \A x \in Requests : stale[x].grant = request[x].grant /\ stale[x].token = request[x].token
      BY <1>0, <2>2, StaleRequestsType
    <3> HIDE DEF stale
    <3>. QED
      BY <3>1 DEF Request
  <2>. QED
    BY <1>11, <2>1, <2>2 DEF StoreWrite, Finish
<1>12. ASSUME NEW q \in Requests, StoreRecord(q) PROVE Goal
  <2> DEFINE before(x) == x \in request[q].older
             refused == [x \in Requests |-> [request[x] EXCEPT !.refused = before(x)]]
  <2>0. \A x \in Requests : before(x) \in BOOLEAN
    OBVIOUS
  <2>1. /\ refused \in [Requests -> Request]
        /\ \A x \in Requests : refused[x].grant = request[x].grant /\ refused[x].token = request[x].token
    <3> HIDE DEF before
    <3>. QED
      BY <1>0, <2>0 DEF Request
  <2>2. request' = Without(refused, {q})
    BY <1>12 DEF StoreRecord, Finish
  <2> HIDE DEF refused
  <2>. QED
    BY <1>3, <2>1, <2>2
<1>13. ASSUME NEW q \in Requests, RevokeDelete(q) \/ FulfillUpdate(q) \/ RequestFails(q) PROVE Goal
  <2>1. \/ request' = Without(request, {q})
        \/ request' = Without(StaleRequests("store", request[q].grant), {q})
        \/ request' = Without(StaleRequests("fulfil", request[q].grant), {q})
    BY <1>13 DEF RevokeDelete, FulfillUpdate, RequestFails, Finish
  <2>. QED
    BY <1>0, <1>3, <2>1, StaleRequestsType
<1>14. ASSUME BrokerRestarts PROVE Goal
  <2> DEFINE accepted == [x \in Requests |-> [request[x] EXCEPT !.refused = FALSE]]
  <2>1. PICK its \in SUBSET Requests : request' = Without(accepted, its)
    BY <1>14 DEF BrokerRestarts
  <2>2. /\ accepted \in [Requests -> Request]
        /\ \A x \in Requests : accepted[x].grant = request[x].grant
                                /\ accepted[x].token = request[x].token
    BY <1>0, AcceptedType
  <2> HIDE DEF accepted
  <2>. QED
    BY <1>3, <2>1, <2>2
<1>15. ASSUME \/ \E g \in Grants : Approve(g) \/ WithdrawApproval(g) \/ TokenExpires(g)
              \/ PollGrants \/ ReadApproval \/ CreateServiceAccount \/ IssueToken \/ AgentFails
              \/ \E p \in Places : WriteRole(p) \/ BindRole(p)
              \/ \E r \in Reconcilers : ReconcileList(r) \/ ReconcileFails(r)
              \/ UNCHANGED vars
       PROVE  Goal
  <2>1. UNCHANGED request
    BY <1>15 DEF Approve, WithdrawApproval, TokenExpires, PollGrants, ReadApproval, IssueToken,
                 CreateServiceAccount, AgentFails, WriteRole, BindRole, ReconcileList,
                 ReconcileFails, vars
  <2>. QED
    BY <1>1, <2>1
<1>. QED
  <2> HIDE DEF Goal
  <2>1. Goal
    BY <1>4, <1>5, <1>6, <1>7, <1>8, <1>9, <1>10, <1>11, <1>12, <1>13, <1>14, <1>15 DEF Next
  <2>. QED
    BY <1>0, <2>1, RequestsStay DEF Goal

------------------------------------------------------------------------------
(* Roles and stored tokens.                                                *)

Access == [sa : BOOLEAN, role : [Places -> Generations \cup {0}], bound : SUBSET Places]

\* Access that stays, or is taken back, remains consented to.
LEMMA AccessStays ==
    ASSUME TypeOK, ConsentInv, AccessInv, [Next]_vars,
           \A g \in Grants : \A p \in Places : rbac'[g].role[p] \in {0, rbac[g].role[p]},
           \A g \in Grants : stored'[g].gen \in {0, stored[g].gen}
    PROVE  AccessInv'
<1> SUFFICES ASSUME NEW g \in Grants
             PROVE  /\ \A p \in Places : rbac'[g].role[p] # 0 =>
                          /\ Consented(g, rbac[g].role[p])'
                          /\ p \in Scope(spec'[g][rbac'[g].role[p]])
                    /\ stored'[g].gen # 0 => Consented(g, stored[g].gen)'
    BY DEF AccessInv, Scope
<1>1. ASSUME NEW p \in Places, rbac'[g].role[p] # 0
      PROVE  /\ Consented(g, rbac[g].role[p])' /\ p \in Scope(spec'[g][rbac'[g].role[p]])
  <2>1. /\ rbac'[g].role[p] = rbac[g].role[p] /\ Consented(g, rbac[g].role[p])
        /\ p \in Scope(spec[g][rbac[g].role[p]])
    BY <1>1 DEF AccessInv
  <2>2. rbac[g].role[p] \in 1..Len(spec[g])
    BY <2>1, ConsentStays
  <2>3. spec'[g][rbac[g].role[p]] = spec[g][rbac[g].role[p]]
    BY <2>2, ConsentStays
  <2>4. \A n : Consented(g, n) => n \in consented'[g] /\ spec'[g][n].approved /\ ~spec'[g][n].revoked
    BY ConsentStays DEF Consented
  <2>. QED
    BY <2>1, <2>3, <2>4 DEF Consented
<1>2. ASSUME stored'[g].gen # 0 PROVE Consented(g, stored[g].gen)'
  <2>1. stored'[g].gen = stored[g].gen /\ Consented(g, stored[g].gen)
    BY <1>2 DEF AccessInv
  <2>2. \A n : Consented(g, n) => n \in consented'[g] /\ spec'[g][n].approved /\ ~spec'[g][n].revoked
    BY ConsentStays DEF Consented
  <2>. QED
    BY <2>1, <2>2 DEF Consented
<1>. QED
    BY <1>1, <1>2

\* Every step keeps the roles and the stored tokens consented.
LEMMA NextAccess ==
    ASSUME IInv, [Next]_vars
    PROVE  /\ rbac' \in [Grants -> Access] /\ stored' \in [Grants -> Token]
           /\ AccessInv'
<1> DEFINE Less == /\ \A g \in Grants : \A p \in Places : rbac'[g].role[p] \in {0, rbac[g].role[p]}
                   /\ \A g \in Grants : stored'[g].gen \in {0, stored[g].gen}
           Types == rbac' \in [Grants -> Access] /\ stored' \in [Grants -> Token]
           Goal == Types /\ (Less \/ AccessInv')
<1>0. /\ TypeOK /\ ConsentInv /\ AgentInv /\ RequestInv /\ AccessInv
      /\ rbac \in [Grants -> Access] /\ stored \in [Grants -> Token]
      /\ request \in [Requests -> Request] /\ agent \in AgentRound
    BY DEF IInv, TypeOK, Access
<1>1. ASSUME UNCHANGED <<rbac, stored>> PROVE Goal
    BY <1>0, <1>1
<1>2. ASSUME NEW e \in Expiries, Tick(e) PROVE Goal
  <2>1. CASE UNCHANGED stored
    BY <1>1, <1>2, <2>1 DEF Tick
  <2>2. CASE stored' = [g \in Grants |-> AtEnd(g, e, stored[g])]
    <3>1. \A g \in Grants : AtEnd(g, e, stored[g]) \in Token
                            /\ AtEnd(g, e, stored[g]).gen = stored[g].gen
      BY <1>0, TokenEnds
    <3>2. stored' \in [Grants -> Token] /\ \A g \in Grants : stored'[g].gen = stored[g].gen
      BY <2>2, <3>1
    <3>3. UNCHANGED rbac
      BY <1>2 DEF Tick
    <3>. QED
      BY <1>0, <3>2, <3>3
  <2>. QED
    BY <1>2, <2>1, <2>2 DEF Tick
<1>3. ASSUME NEW g \in Grants, TokenExpires(g) PROVE Goal
  <2>1. stored' = [stored EXCEPT ![g] = Expired(stored[g])] /\ UNCHANGED rbac
    BY <1>3 DEF TokenExpires
  <2>. QED
    BY <1>0, <2>1, TokenEnds
<1>4. ASSUME NEW places \in SUBSET Places, NEW sa \in BOOLEAN, RemoveAccess(places, sa)
      PROVE  Goal
  <2> DEFINE left == rbac[Grant].sa /\ ~sa
             roles == [p \in Places |-> IF p \in places THEN 0 ELSE rbac[Grant].role[p]]
             bound == rbac[Grant].bound \ places
  <2>1. /\ agent.pc = "grant" /\ Grant \in Grants
        /\ rbac' = [rbac EXCEPT ![Grant] = [sa |-> left, bound |-> bound, role |-> roles]]
    BY <1>0, <1>4, GrantInTodo DEF RemoveAccess, AgentInv
  <2>2. left \in BOOLEAN
    OBVIOUS
  <2>3. /\ roles \in [Places -> Generations \cup {0}] /\ bound \in SUBSET Places
        /\ \A p \in Places : roles[p] \in {0, rbac[Grant].role[p]}
    BY <1>0, <2>1 DEF Access
  <2> HIDE DEF left, roles, bound
  <2>4. /\ rbac' \in [Grants -> Access]
        /\ \A g \in Grants : \A p \in Places : rbac'[g].role[p] \in {0, rbac[g].role[p]}
    BY <1>0, <2>1, <2>2, <2>3 DEF Access
  <2>5. UNCHANGED stored \/ stored' = [stored EXCEPT ![Grant] = Dead(stored[Grant])]
    BY <1>4 DEF RemoveAccess
  <2>6. stored' \in [Grants -> Token] /\ \A g \in Grants : stored'[g].gen \in {0, stored[g].gen}
    BY <1>0, <2>1, <2>5, TokenEnds
  <2>. QED
    BY <2>4, <2>6
<1>5. ASSUME CreateServiceAccount PROVE Goal
  <2>1. /\ agent.pc = "sa" /\ Grant \in Grants /\ UNCHANGED stored
        /\ rbac' = [rbac EXCEPT ![Grant].sa = TRUE]
    BY <1>0, <1>5, GrantInTodo DEF CreateServiceAccount, AgentInv
  <2>2. ASSUME NEW b \in BOOLEAN
        PROVE  [rbac[Grant] EXCEPT !.sa = b] \in Access
               /\ [rbac[Grant] EXCEPT !.sa = b].role = rbac[Grant].role
    <3>1. rbac[Grant] \in Access
      BY <1>0, <2>1
    <3>. QED
      BY <3>1 DEF Access
  <2>3. [rbac[Grant] EXCEPT !.sa = TRUE] \in Access
        /\ [rbac[Grant] EXCEPT !.sa = TRUE].role = rbac[Grant].role
    BY <2>2, Zenon
  <2>4. rbac' \in [Grants -> Access] /\ \A g \in Grants : rbac'[g].role = rbac[g].role
    BY <1>0, <2>1, <2>3
  <2>. QED
    BY <1>0, <2>1, <2>4
<1>6. ASSUME NEW p \in Places, WriteRole(p) PROVE Goal
  <2>1. /\ agent.pc = "rbac" /\ p \in agent.places /\ Grant \in Grants
        /\ rbac' = [rbac EXCEPT ![Grant].role[p] = Gen] /\ UNCHANGED <<stored, spec, consented>>
    BY <1>0, <1>6, GrantInTodo DEF WriteRole, AgentInv, world
  <2>2. Consented(Grant, Gen) /\ p \in Scope(spec[Grant][Gen]) /\ Gen \in Generations
    BY <1>0, <2>1 DEF AgentInv, Instruction, Consented, TypeOK
  <2>3. rbac' \in [Grants -> Access]
    BY <1>0, <2>1, <2>2 DEF Access
  <2>4. /\ rbac'[Grant].role[p] = Gen
        /\ \A g \in Grants : \A x \in Places :
              g # Grant \/ x # p => rbac'[g].role[x] = rbac[g].role[x]
    BY <1>0, <2>1 DEF Access
  <2>5. AccessInv'
    BY <1>0, <2>1, <2>2, <2>4 DEF AccessInv, Consented, Scope
  <2>. QED
    BY <1>0, <2>1, <2>3, <2>5
<1>7. ASSUME NEW p \in Places, BindRole(p) PROVE Goal
  <2>1. /\ agent.pc = "rbac" /\ Grant \in Grants /\ UNCHANGED stored
        /\ rbac' = [rbac EXCEPT ![Grant].bound = rbac[Grant].bound \cup {p}]
    BY <1>0, <1>7, GrantInTodo DEF BindRole, AgentInv
  <2>2. rbac' \in [Grants -> Access] /\ \A g \in Grants : rbac'[g].role = rbac[g].role
    BY <1>0, <2>1 DEF Access
  <2>. QED
    BY <1>0, <2>1, <2>2
<1>8. ASSUME NEW q \in Requests, StoreWrite(q) PROVE Goal
  <2>1. UNCHANGED <<rbac, spec, consented>>
    BY <1>8 DEF StoreWrite, world
  <2>2. CASE UNCHANGED stored
    BY <1>1, <2>1, <2>2
  <2>3. CASE stored' = [stored EXCEPT ![request[q].grant] = request[q].token]
    <3>1. request[q].token \in Token
      BY <1>0 DEF Request
    <3>2. stored' \in [Grants -> Token]
      BY <1>0, <2>3, <3>1
    <3>3. \A g \in Grants : stored'[g].gen # 0 => Consented(g, stored'[g].gen)
      BY <1>0, <2>3 DEF RequestInv, AccessInv
    <3>4. AccessInv'
      BY <1>0, <2>1, <3>3 DEF AccessInv, Consented, Scope
    <3>. QED
      BY <1>0, <2>1, <3>2, <3>4
  <2>. QED
    BY <1>8, <2>2, <2>3 DEF StoreWrite
<1>9. ASSUME NEW q \in Requests, RevokeDelete(q) PROVE Goal
  <2>1. stored' = [stored EXCEPT ![request[q].grant] = NoToken] /\ UNCHANGED rbac
    BY <1>9 DEF RevokeDelete
  <2>2. NoToken \in Token /\ NoToken.gen = 0
    BY DEF NoToken, Token, TokenStates
  <2>. QED
    BY <1>0, <2>1, <2>2
<1>10. ASSUME \/ \E g \in Grants : \/ \E s \in GrantSpec : EditGrant(g, s)
                                   \/ Approve(g) \/ WithdrawApproval(g)
              \/ PollGrants \/ ReadApproval \/ IssueToken \/ AgentFails
              \/ \E q \in Requests : \/ Send(q) \/ StoreCheck(q) \/ StoreGet(q) \/ StoreRecord(q)
                                     \/ FulfillGet(q) \/ FulfillUpdate(q) \/ RequestFails(q)
              \/ BrokerRestarts
              \/ \E r \in Reconcilers : ReconcileList(r) \/ ReconcileUpdate(r) \/ ReconcileFails(r)
              \/ UNCHANGED vars
       PROVE  Goal
  <2>1. UNCHANGED <<rbac, stored>>
    BY <1>10 DEF EditGrant, Approve, WithdrawApproval, PollGrants, ReadApproval, IssueToken,
                 AgentFails, Send, StoreCheck, StoreGet, StoreRecord, FulfillGet, FulfillUpdate,
                 RequestFails, BrokerRestarts, ReconcileList, ReconcileUpdate, ReconcileFails, vars
  <2>. QED
    BY <1>1, <2>1
<1>. QED
  <2> HIDE DEF Goal
  <2>1. Goal
    BY <1>2, <1>3, <1>4, <1>5, <1>6, <1>7, <1>8, <1>9, <1>10 DEF Next
  <2>. QED
    BY <1>0, <2>1, AccessStays DEF Goal

------------------------------------------------------------------------------
(* The remaining types, and the theorems.                                  *)

\* The state the Hub computes is one of the states of a grant.
LEMMA GrantStateType ==
    ASSUME NEW g
    PROVE  GrantState(g) \in GrantStates
    BY DEF GrantState, GrantStates

\* Types of the grants' status and of the reconcilers.
LEMMA NextHub ==
    ASSUME IInv, [Next]_vars
    PROVE  /\ status' \in [Grants -> [state : GrantStates, ref : BOOLEAN]]
           /\ reconciler' \in [Reconcilers -> [todo : SUBSET Grants, state : [Grants -> GrantStates],
                                               fresh : SUBSET Grants]]
<1> DEFINE Status == [state : GrantStates, ref : BOOLEAN]
           Reconciler == [todo : SUBSET Grants, state : [Grants -> GrantStates],
                          fresh : SUBSET Grants]
           Goal == status' \in [Grants -> Status] /\ reconciler' \in [Reconcilers -> Reconciler]
<1>0. TypeOK /\ status \in [Grants -> Status] /\ reconciler \in [Reconcilers -> Reconciler]
    BY DEF IInv, TypeOK
<1>1. \A g : StaleReconcilers(g) \in [Reconcilers -> Reconciler]
    BY <1>0 DEF StaleReconcilers
<1>2. IdleReconciler \in Reconciler
    BY DEF IdleReconciler, GrantStates
<1>3. ASSUME NEW g \in Grants, NEW s \in GrantSpec, EditGrant(g, s) PROVE Goal
    BY <1>0, <1>1, <1>3 DEF EditGrant
<1>4. ASSUME NEW q \in Requests, FulfillUpdate(q) PROVE Goal
  <2>1. \A b \in BOOLEAN : [state |-> "Active", ref |-> b] \in Status
    BY DEF GrantStates
  <2>2. [state |-> "Active", ref |-> TRUE] \in Status
    BY <2>1, Zenon
  <2> HIDE DEF Status, Reconciler
  <2>3. \/ UNCHANGED <<status, reconciler>>
        \/ /\ status' = [status EXCEPT ![request[q].grant] = [state |-> "Active", ref |-> TRUE]]
           /\ reconciler' = StaleReconcilers(request[q].grant)
    BY <1>4 DEF FulfillUpdate
  <2>. QED
    BY <1>0, <1>1, <2>2, <2>3
<1>5. ASSUME NEW r \in Reconcilers, ReconcileList(r) PROVE Goal
  <2>1. [todo |-> Grants, fresh |-> Grants, state |-> [g \in Grants |-> GrantState(g)]] \in Reconciler
    BY GrantStateType
  <2>. QED
    BY <1>0, <1>5, <2>1 DEF ReconcileList
<1>6. ASSUME NEW r \in Reconcilers, ReconcileUpdate(r) PROVE Goal
  <2> DEFINE g == Min(reconciler[r].todo)
             rest == IF reconciler[r].todo = {g} THEN IdleReconciler
                     ELSE [reconciler[r] EXCEPT !.todo = @ \ {g}, !.fresh = @ \ {g},
                                                !.state[g] = "none"]
  <2>1. reconciler[r].todo # {} /\ reconciler[r] \in Reconciler
    BY <1>0, <1>6 DEF ReconcileUpdate
  <2>2. g \in reconciler[r].todo /\ g \in Grants
    <3>1. reconciler[r].todo \in SUBSET Nat
      BY <2>1, ConstantsAssumption DEF Grants
    <3>. QED
      BY <2>1, <3>1, MinInSet
  <2>3. \/ UNCHANGED status
        \/ status' = [status EXCEPT ![g] = [status[g] EXCEPT !.state = reconciler[r].state[g]]]
    BY <1>6 DEF ReconcileUpdate
  <2>4. \/ reconciler' = [reconciler EXCEPT ![r] = rest]
        \/ reconciler' = [StaleReconcilers(g) EXCEPT ![r] = rest]
    BY <1>6 DEF ReconcileUpdate
  <2> HIDE DEF g
  <2>5. rest \in Reconciler
    <3>1. [reconciler[r].state EXCEPT ![g] = "none"] \in [Grants -> GrantStates]
      BY <2>1, <2>2 DEF GrantStates
    <3>. QED
      BY <1>2, <2>1, <3>1
  <2>6. [status[g] EXCEPT !.state = reconciler[r].state[g]] \in Status
    BY <1>0, <2>1, <2>2
  <2> HIDE DEF rest, Status, Reconciler
  <2>. QED
    BY <1>0, <1>1, <2>3, <2>4, <2>5, <2>6
<1>7. ASSUME NEW r \in Reconcilers, ReconcileFails(r) PROVE Goal
    BY <1>0, <1>2, <1>7 DEF ReconcileFails
<1>8. ASSUME \/ \E g \in Grants : Approve(g) \/ WithdrawApproval(g) \/ TokenExpires(g)
             \/ \E e \in Expiries : Tick(e)
             \/ PollGrants \/ ReadApproval \/ CreateServiceAccount \/ IssueToken \/ AgentFails
             \/ \E places \in SUBSET Places, sa \in BOOLEAN : RemoveAccess(places, sa)
             \/ \E p \in Places : WriteRole(p) \/ BindRole(p)
             \/ \E q \in Requests :
                   \/ Send(q) \/ StoreCheck(q) \/ StoreGet(q) \/ StoreWrite(q) \/ StoreRecord(q)
                   \/ RevokeDelete(q) \/ FulfillGet(q) \/ RequestFails(q)
             \/ BrokerRestarts
             \/ UNCHANGED vars
      PROVE  Goal
  <2>1. UNCHANGED <<status, reconciler>>
    BY <1>8 DEF Approve, WithdrawApproval, TokenExpires, Tick, PollGrants, ReadApproval,
                CreateServiceAccount, IssueToken, AgentFails, RemoveAccess, WriteRole, BindRole,
                Send, StoreCheck, StoreGet, StoreWrite, StoreRecord, RevokeDelete, FulfillGet,
                RequestFails, BrokerRestarts, vars
  <2>. QED
    BY <1>0, <2>1
<1>. QED
  <2> HIDE DEF Goal
  <2>1. Goal
    BY <1>3, <1>4, <1>5, <1>6, <1>7, <1>8 DEF Next
  <2>. QED
    BY <2>1 DEF Goal

\* Types of the grants and of the owner's approvals.
LEMMA NextWorld ==
    ASSUME IInv, [Next]_vars
    PROVE  /\ spec' \in [Grants -> Seq(GrantSpec)]
           /\ \A g \in Grants : Len(spec'[g]) \in Generations
           /\ approval' \in [Grants -> Generations \cup {0}]
           /\ consented' \in [Grants -> SUBSET Generations]
           /\ edits' \in 0..MaxEdits
<1> USE ConstantsAssumption
<1>0. TypeOK /\ ConsentInv /\ ConsentInv'
    BY ConsentStays DEF IInv
<1>1. spec' \in [Grants -> Seq(GrantSpec)] /\ edits' \in 0..MaxEdits
  <2>1. ASSUME NEW g \in Grants, NEW s \in GrantSpec, EditGrant(g, s)
        PROVE  spec' \in [Grants -> Seq(GrantSpec)] /\ edits' \in 0..MaxEdits
    BY <1>0, <2>1 DEF EditGrant, TypeOK
  <2>2. ASSUME UNCHANGED <<spec, edits>>
        PROVE  spec' \in [Grants -> Seq(GrantSpec)] /\ edits' \in 0..MaxEdits
    BY <1>0, <2>2 DEF TypeOK
  <2>. QED
    BY <2>1, <2>2, WorldSteps DEF Approve, WithdrawApproval
<1>2. \A g \in Grants : Len(spec'[g]) \in 1..(edits' + 1)
    BY <1>0 DEF ConsentInv
<1>3. \A g \in Grants : Len(spec'[g]) \in Generations /\ 1..Len(spec'[g]) \subseteq Generations
    BY <1>1, <1>2 DEF Generations
<1>4. approval' \in [Grants -> Generations \cup {0}] /\ consented' \in [Grants -> SUBSET Generations]
  <2>1. ASSUME NEW g \in Grants, Approve(g) \/ WithdrawApproval(g)
        PROVE  approval' \in [Grants -> Generations \cup {0}] /\ consented' \in [Grants -> SUBSET Generations]
    <3>1. /\ Len(spec[g]) \in Generations
          /\ approval \in [Grants -> Generations \cup {0}]
          /\ consented \in [Grants -> SUBSET Generations]
      BY <1>0 DEF TypeOK
    <3>2. \/ /\ approval' = [approval EXCEPT ![g] = Len(spec[g])]
             /\ consented' = [consented EXCEPT ![g] = consented[g] \cup {Len(spec[g])}]
          \/ approval' = [approval EXCEPT ![g] = 0] /\ UNCHANGED consented
      BY <2>1 DEF Approve, WithdrawApproval
    <3>3. consented[g] \cup {Len(spec[g])} \in SUBSET Generations
      BY <3>1
    <3>. QED
      BY <3>1, <3>2, <3>3
  <2>2. ASSUME UNCHANGED <<approval, consented>>
        PROVE  approval' \in [Grants -> Generations \cup {0}] /\ consented' \in [Grants -> SUBSET Generations]
    BY <1>0, <2>2 DEF TypeOK
  <2>. QED
    BY <2>1, <2>2, WorldSteps DEF EditGrant
<1>. QED
    BY <1>1, <1>3, <1>4

\* Time and the count of failures.
LEMMA NextClock ==
    ASSUME IInv, [Next]_vars
    PROVE  life' \in [Expiries -> {"good", "short", "over"}] /\ failures' \in 0..MaxFailures
<1> DEFINE Goal == life' \in [Expiries -> {"good", "short", "over"}] /\ failures' \in 0..MaxFailures
<1> USE ConstantsAssumption
<1>0. life \in [Expiries -> {"good", "short", "over"}] /\ failures \in 0..MaxFailures
    BY DEF IInv, TypeOK
<1>1. ASSUME NEW e \in Expiries, Tick(e) PROVE Goal
  <2>1. Later[life[e]] \in {"short", "over"}
    BY <1>0, <1>1 DEF Tick, Later
  <2>. QED
    BY <1>0, <1>1, <2>1 DEF Tick
<1>2. ASSUME UNCHANGED life, Fail PROVE Goal
    BY <1>0, <1>2 DEF Fail
<1>3. ASSUME UNCHANGED <<life, failures>> PROVE Goal
    BY <1>0, <1>3
<1>4. ASSUME NEW places \in SUBSET Places, NEW sa \in BOOLEAN, RemoveAccess(places, sa)
      PROVE  Goal
    BY <1>2, <1>3, <1>4 DEF RemoveAccess, world
<1>5. ASSUME \/ AgentFails
             \/ \E q \in Requests : RequestFails(q)
             \/ \E r \in Reconcilers : ReconcileFails(r)
      PROVE  Goal
    BY <1>2, <1>5 DEF AgentFails, RequestFails, ReconcileFails, world
<1>6. ASSUME \/ \E g \in Grants : \/ \E s \in GrantSpec : EditGrant(g, s)
                                  \/ Approve(g) \/ WithdrawApproval(g) \/ TokenExpires(g)
             \/ PollGrants \/ ReadApproval \/ CreateServiceAccount \/ IssueToken
             \/ \E p \in Places : WriteRole(p) \/ BindRole(p)
             \/ \E q \in Requests :
                   \/ Send(q) \/ StoreCheck(q) \/ StoreGet(q) \/ StoreWrite(q) \/ StoreRecord(q)
                   \/ RevokeDelete(q) \/ FulfillGet(q) \/ FulfillUpdate(q)
             \/ \E r \in Reconcilers : ReconcileList(r) \/ ReconcileUpdate(r)
             \/ BrokerRestarts
             \/ UNCHANGED vars
      PROVE  Goal
    BY <1>3, <1>6 DEF BrokerRestarts, EditGrant, Approve, WithdrawApproval, TokenExpires, PollGrants, ReadApproval,
              CreateServiceAccount, IssueToken, WriteRole, BindRole, Send, StoreCheck, StoreGet,
              StoreWrite, StoreRecord, RevokeDelete, FulfillGet, FulfillUpdate, ReconcileList,
              ReconcileUpdate, vars, world
<1>. QED
  <2> HIDE DEF Goal
  <2>1. Goal
    BY <1>1, <1>4, <1>5, <1>6 DEF Next
  <2>. QED
    BY <2>1 DEF Goal

\* The invariant holds at first.
LEMMA InitInv == Init => IInv
<1> SUFFICES ASSUME Init PROVE IInv
    OBVIOUS
<1> USE ConstantsAssumption
<1>1. PICK s \in GrantSpec : s.approved /\ ~s.revoked /\ spec = [g \in Grants |-> <<s>>]
    BY DEF Init
<1>2. /\ spec \in [Grants -> Seq(GrantSpec)]
      /\ \A g \in Grants : Len(spec[g]) = 1 /\ spec[g][1] = s
    BY <1>1
<1>3. NoToken \in Token /\ NoToken.gen = 0
    BY DEF NoToken, Token, TokenStates
<1>4. IdleAgent \in AgentRound
    BY <1>3 DEF IdleAgent, AgentRound
<1>5. FreeRequest \in Request /\ FreeRequest.token.gen = 0
    BY <1>3 DEF FreeRequest, Request
<1>6. IdleReconciler \in [todo : SUBSET Grants, state : [Grants -> GrantStates], fresh : SUBSET Grants]
    BY DEF IdleReconciler, GrantStates
<1>7. [sa |-> FALSE, role |-> [p \in Places |-> 0], bound |-> {}] \in Access
  <2>1. ASSUME NEW b \in BOOLEAN
        PROVE  [sa |-> b, role |-> [p \in Places |-> 0], bound |-> {}] \in Access
    BY DEF Access
  <2>. QED
    BY <2>1, Zenon
<1>8. status \in [Grants -> [state : GrantStates, ref : BOOLEAN]]
  <2>1. ASSUME NEW b \in BOOLEAN
        PROVE  [state |-> "none", ref |-> b] \in [state : GrantStates, ref : BOOLEAN]
    BY DEF GrantStates
  <2>2. [state |-> "none", ref |-> FALSE] \in [state : GrantStates, ref : BOOLEAN]
    BY <2>1, Zenon
  <2>. QED
    BY <2>2 DEF Init
<1>9. /\ rbac \in [Grants -> Access]
      /\ \A g \in Grants : \A p \in Places : rbac[g].role[p] = 0
    BY <1>7 DEF Init
<1>10. TypeOK
  <2>1. /\ \A g \in Grants : Len(spec[g]) \in Generations
        /\ edits \in 0..MaxEdits /\ failures \in 0..MaxFailures
    BY <1>2 DEF Init, Generations
  <2>2. /\ life \in [Expiries -> {"good", "short", "over"}]
        /\ approval \in [Grants -> Generations \cup {0}]
        /\ consented \in [Grants -> SUBSET Generations]
    BY DEF Init
  <2>3. /\ stored \in [Grants -> Token] /\ agent \in AgentRound
        /\ request \in [Requests -> Request]
        /\ reconciler \in [Reconcilers -> [todo : SUBSET Grants, state : [Grants -> GrantStates],
                                           fresh : SUBSET Grants]]
    BY <1>3, <1>4, <1>5, <1>6 DEF Init
  <2>. QED
    BY <1>2, <1>8, <1>9, <2>1, <2>2, <2>3 DEF TypeOK, Access
<1>11. ConsentInv
    BY <1>2 DEF ConsentInv, Init
<1>12. AgentInv
    BY <1>3 DEF AgentInv, Init, IdleAgent
<1>13. RequestInv
    BY <1>5 DEF RequestInv, Init
<1>14. AccessInv
    BY <1>3, <1>9 DEF AccessInv, Init
<1>. QED
    BY <1>10, <1>11, <1>12, <1>13, <1>14 DEF IInv

\* Every step preserves the invariant.
LEMMA NextInv == IInv /\ [Next]_vars => IInv'
<1> SUFFICES ASSUME IInv, [Next]_vars PROVE IInv'
    OBVIOUS
<1>1. TypeOK'
    BY NextWorld, NextClock, NextAgent, NextRequest, NextAccess, NextHub DEF TypeOK, Access
<1>2. ConsentInv'
    BY ConsentStays DEF IInv
<1>. QED
    BY <1>1, <1>2, NextAgent, NextRequest, NextAccess DEF IInv

\* The strengthened invariant is an invariant of every behaviour of the agent,
\* the broker, the Hub, the administrator and the owner.
THEOREM InductiveInvariant == Spec => []IInv
    BY InitInv, NextInv, PTL DEF Spec

\* Every variable keeps its shape, and no count passes its bound.
THEOREM TypeCorrect == Spec => []TypeOK
<1>1. IInv => TypeOK
    BY DEF IInv
<1>. QED
    BY InductiveInvariant, <1>1, PTL


------------------------------------------------------------------------------
(* What the agent waits for, and what the Hub shows.                       *)

\* Some generation of the grant was approved by both.
Agreed(g) == \E n \in 1..Len(spec[g]) : Consented(g, n)

\* From the owner's approval on, the round is about a grant both agreed to, and
\* an agent that waits waits for a request of its own about this grant.
RoundInv ==
    /\ agent.pc \in {"sa", "rbac", "token", "store", "fulfil"} => Agreed(Grant)
    /\ agent.request # NoRequest =>
          request[agent.request].kind # "none" /\ request[agent.request].grant = Grant

\* So are the requests that follow, and what is shown, or about to be shown.
StatusInv ==
    /\ RoundInv
    /\ \A q \in Requests : request[q].kind \in {"store", "fulfil"} =>
          request[q].grant \in Grants /\ Agreed(request[q].grant)
    /\ \A r \in Reconcilers, g \in Grants : reconciler[r].state[g] = "Active" => Agreed(g)
    /\ \A g \in Grants : status[g].ref \/ status[g].state = "Active" => Agreed(g)

\* What both agreed to once they have agreed to ever since.
LEMMA AgreedStays ==
    ASSUME IInv, [Next]_vars, NEW g \in Grants, Agreed(g)
    PROVE  Agreed(g)'
<1>1. PICK n \in 1..Len(spec[g]) : Consented(g, n)
    BY DEF Agreed
<1>2. n \in 1..Len(spec'[g]) /\ Consented(g, n)'
    BY <1>1, ConsentStays DEF IInv
<1>3. n \in consented'[g] /\ spec'[g][n].approved /\ ~spec'[g][n].revoked
    BY <1>2 DEF Consented
<1>. QED
    BY <1>2, <1>3 DEF Agreed, Consented

\* A request stays the request it is; its token may only become worse.
SameRequest(q) == /\ request'[q].kind = request[q].kind /\ request'[q].grant = request[q].grant
                  /\ request'[q].token.state = "good" => request'[q].token = request[q].token

\* An agent that waits for q waits no longer.
LetGo(q) ==
    \/ agent.request # q
    \/ agent' = IdleAgent
    \/ agent' = NextGrant
    \/ request[q].kind = "store" /\ agent' = [agent EXCEPT !.pc = "fulfil", !.request = NoRequest]

\* An answer is taken by the agent that waits for it.
LEMMA FinishLetsGo ==
    ASSUME NEW q, NEW ok, NEW requests, Finish(q, ok, requests)
    PROVE  LetGo(q)
    BY DEF Finish, Answered, LetGo

\* A request is sent, stays, or is gone and nobody waits for it.
LEMMA RequestFate ==
    ASSUME IInv, [Next]_vars, NEW q \in Requests
    PROVE  \/ SameRequest(q)
           \/ request'[q] = FreeRequest /\ LetGo(q)
           \/ Send(q) /\ request'[q].kind = agent.pc /\ request'[q].grant = Grant
                      /\ request'[q].token = agent.token
<1>0. request \in [Requests -> Request] /\ \A x \in Requests : request[x] \in Request
    BY DEF IInv, TypeOK
<1> DEFINE Goal == \/ SameRequest(q)
                   \/ request'[q] = FreeRequest /\ LetGo(q)
                   \/ Send(q) /\ request'[q].kind = agent.pc /\ request'[q].grant = Grant
                              /\ request'[q].token = agent.token
<1>1. CASE UNCHANGED request
    BY <1>1 DEF SameRequest
<1>2. \A kind, g : StaleRequests(kind, g)[q].kind = request[q].kind
                   /\ StaleRequests(kind, g)[q].grant = request[q].grant
                   /\ StaleRequests(kind, g)[q].token = request[q].token
    BY <1>0 DEF StaleRequests, Request
<1>3. ASSUME NEW requests, NEW done, request' = Without(requests, done),
             q \in done => LetGo(q), requests[q] \in Request,
             requests[q].kind = request[q].kind, requests[q].grant = request[q].grant,
             requests[q].token = request[q].token
      PROVE  Goal
  <2>1. [requests[q] EXCEPT !.older = @ \ done].kind = requests[q].kind
        /\ [requests[q] EXCEPT !.older = @ \ done].grant = requests[q].grant
        /\ [requests[q] EXCEPT !.older = @ \ done].token = requests[q].token
    BY <1>3 DEF Request
  <2>. QED
    BY <1>3, <2>1 DEF Without, SameRequest
<1>4. ASSUME NEW g \in Grants, NEW s \in GrantSpec, EditGrant(g, s) PROVE Goal
    BY <1>2, <1>4 DEF EditGrant, SameRequest
<1>5. ASSUME NEW r \in Reconcilers, ReconcileUpdate(r) PROVE Goal
    BY <1>1, <1>2, <1>5 DEF ReconcileUpdate, SameRequest
<1>6. ASSUME NEW e \in Expiries, Tick(e) PROVE Goal
  <2> DEFINE end(x) == AtEnd(request[x].grant, e, request[x].token)
  <2>1. \/ UNCHANGED request
        \/ request' = [x \in Requests |-> [request[x] EXCEPT !.token = end(x)]]
    BY <1>6 DEF Tick
  <2>2. end(q).state = "good" => end(q) = request[q].token
    BY <1>0, GoodToken DEF Request
  <2> HIDE DEF end
  <2>. QED
    BY <1>0, <2>1, <2>2 DEF Request, SameRequest
<1>7. ASSUME NEW places \in SUBSET Places, NEW sa \in BOOLEAN, RemoveAccess(places, sa)
      PROVE  Goal
  <2> DEFINE end(x) == IF request[x].grant = Grant THEN Dead(request[x].token)
                       ELSE request[x].token
  <2>1. \/ UNCHANGED request
        \/ request' = [x \in Requests |-> [request[x] EXCEPT !.token = end(x)]]
    BY <1>7 DEF RemoveAccess
  <2>2. end(q).state = "good" => end(q) = request[q].token
    BY <1>0, GoodToken DEF Request
  <2> HIDE DEF end
  <2>. QED
    BY <1>0, <2>1, <2>2 DEF Request, SameRequest
<1>8. ASSUME NEW x \in Requests, Send(x) PROVE Goal
  <2>1. CASE x = q
    <3>1. /\ request'[q].kind = agent.pc /\ request'[q].grant = Grant
          /\ request'[q].token = agent.token
      BY <1>0, <1>8, <2>1 DEF Send, FreeRequest
    <3>. QED
      BY <1>8, <2>1, <3>1
  <2>2. CASE x # q
    BY <1>0, <1>8, <2>2 DEF Send, SameRequest
  <2>. QED
    BY <2>1, <2>2
<1>9. ASSUME NEW x \in Requests, StoreCheck(x) \/ StoreGet(x) \/ FulfillGet(x) PROVE Goal
  <2>1. ASSUME NEW ok, Finish(x, ok, request) PROVE Goal
    BY <1>0, <1>3, <2>1, FinishLetsGo DEF Finish
  <2>2. CASE request' = [request EXCEPT ![x].pc = "get"]
    BY <1>0, <2>2 DEF Request, SameRequest
  <2>3. CASE request' = [request EXCEPT ![x].pc = "write", ![x].fresh = TRUE]
    BY <1>0, <2>3 DEF Request, SameRequest
  <2>. QED
    BY <1>9, <2>1, <2>2, <2>3 DEF StoreCheck, StoreGet, FulfillGet
<1>10. ASSUME NEW x \in Requests, StoreWrite(x) PROVE Goal
  <2>1. ASSUME NEW ok, Finish(x, ok, request) PROVE Goal
    BY <1>0, <1>3, <2>1, FinishLetsGo DEF Finish
  <2>2. CASE request' = [StaleRequests("store", request[x].grant) EXCEPT ![x].pc = "record"]
    <3> DEFINE stale == StaleRequests("store", request[x].grant)
    <3>1. /\ stale \in [Requests -> Request] /\ request' = [stale EXCEPT ![x].pc = "record"]
          /\ stale[q].kind = request[q].kind /\ stale[q].grant = request[q].grant
          /\ stale[q].token = request[q].token
      BY <1>0, <1>2, <2>2, StaleRequestsType
    <3> HIDE DEF stale
    <3>. QED
      BY <3>1 DEF Request, SameRequest
  <2>. QED
    BY <1>10, <2>1, <2>2 DEF StoreWrite
<1>11. ASSUME NEW x \in Requests, StoreRecord(x) PROVE Goal
  <2> DEFINE before(y) == y \in request[x].older
             refused == [y \in Requests |-> [request[y] EXCEPT !.refused = before(y)]]
  <2>0. \A y \in Requests : before(y) \in BOOLEAN
    OBVIOUS
  <2>1. request' = Without(refused, {x}) /\ LetGo(x)
    BY <1>11, FinishLetsGo DEF StoreRecord, Finish
  <2> HIDE DEF before
  <2>2. /\ refused[q] \in Request /\ refused[q].kind = request[q].kind
        /\ refused[q].grant = request[q].grant /\ refused[q].token = request[q].token
    BY <1>0, <2>0 DEF Request
  <2> HIDE DEF refused
  <2>. QED
    BY <1>3, <2>1, <2>2
<1>12. ASSUME NEW x \in Requests, RevokeDelete(x) \/ FulfillUpdate(x) \/ RequestFails(x) PROVE Goal
  <2>1. /\ LetGo(x)
        /\ \/ request' = Without(request, {x})
           \/ request' = Without(StaleRequests("store", request[x].grant), {x})
           \/ request' = Without(StaleRequests("fulfil", request[x].grant), {x})
    BY <1>12, FinishLetsGo DEF RevokeDelete, FulfillUpdate, RequestFails, Finish
  <2>. QED
    BY <1>0, <1>2, <1>3, <2>1, StaleRequestsType
<1>13. ASSUME BrokerRestarts PROVE Goal
  <2> DEFINE accepted == [x \in Requests |-> [request[x] EXCEPT !.refused = FALSE]]
  <2>. PICK its \in SUBSET Requests :
           /\ request' = Without(accepted, its)
           /\ agent' = IF agent.request \in its THEN IdleAgent ELSE agent
    BY <1>13 DEF BrokerRestarts
  <2>1. q \in its => LetGo(q)
    BY DEF LetGo
  <2>2. /\ accepted[q] \in Request /\ accepted[q].kind = request[q].kind
        /\ accepted[q].grant = request[q].grant /\ accepted[q].token = request[q].token
    BY <1>0, AcceptedType
  <2> HIDE DEF accepted
  <2>. QED
    BY <1>3, <2>1, <2>2
<1>14. ASSUME \/ \E g \in Grants : Approve(g) \/ WithdrawApproval(g) \/ TokenExpires(g)
              \/ PollGrants \/ ReadApproval \/ CreateServiceAccount \/ IssueToken \/ AgentFails
              \/ \E p \in Places : WriteRole(p) \/ BindRole(p)
              \/ \E r \in Reconcilers : ReconcileList(r) \/ ReconcileFails(r)
              \/ UNCHANGED vars
       PROVE  Goal
  <2>1. UNCHANGED request
    BY <1>14 DEF Approve, WithdrawApproval, TokenExpires, PollGrants, ReadApproval, IssueToken,
                 CreateServiceAccount, AgentFails, WriteRole, BindRole, ReconcileList,
                 ReconcileFails, vars
  <2>. QED
    BY <1>1, <2>1
<1>. QED
  <2> HIDE DEF Goal
  <2>1. Goal
    BY <1>4, <1>5, <1>6, <1>7, <1>8, <1>9, <1>10, <1>11, <1>12, <1>13, <1>14 DEF Next
  <2>. QED
    BY <2>1 DEF Goal

\* As long as the agent waits for a request, it is there.
LEMMA AwaitedStays ==
    ASSUME IInv, [Next]_vars, agent.request # NoRequest, agent'.request = agent.request
    PROVE  agent.request \in Requests /\ SameRequest(agent.request)
<1>1. agent \in AgentRound /\ agent.pc = "wait" /\ agent.request \in Requests
    BY DEF IInv, TypeOK, AgentRound, AgentInv
<1>2. ~LetGo(agent.request)
  <2>1. IdleAgent.request = NoRequest
    BY DEF IdleAgent
  <2>2. NextGrant.request = NoRequest
    BY <1>1, <2>1 DEF NextGrant, AgentRound
  <2>3. [agent EXCEPT !.pc = "fulfil", !.request = NoRequest].request = NoRequest
    BY <1>1 DEF AgentRound
  <2>. QED
    BY <2>1, <2>2, <2>3 DEF LetGo
<1>3. ~Send(agent.request)
    BY <1>1 DEF Send
<1>. QED
    BY <1>1, <1>2, <1>3, RequestFate

\* What a step may do to the round: it goes on, it is over or starts with a
\* grant, the token is issued, the answer to credential.store comes, or a
\* request is sent.
TokenKept == agent'.token.state = "good" => agent'.token = agent.token
RoundGoesOn == /\ agent'.todo = agent.todo /\ agent'.request = agent.request
               /\ agent'.pc \in {"store", "fulfil"} => agent'.pc = agent.pc
               /\ agent'.pc \in {"rbac", "token"} => agent.pc \in {"rbac", "token"} \/ rbac'[Grant].sa
               /\ TokenKept
RoundStarts == agent'.pc \in {"idle", "grant"} /\ agent'.request = NoRequest /\ TokenKept
TokenIssued == /\ agent.pc = "token" /\ agent'.todo = agent.todo /\ agent'.request = NoRequest
               /\ agent'.token.gen = Gen /\ life[Instruction.expiresAt] = "good"
TokenStored == /\ agent.request \in Requests /\ request[agent.request].kind = "store"
               /\ agent'.pc = "fulfil" /\ agent'.todo = agent.todo /\ agent'.request = NoRequest
               /\ TokenKept
RequestSent == /\ agent'.pc = "wait" /\ agent'.todo = agent.todo /\ agent'.request \in Requests
               /\ request'[agent'.request].kind # "none"
               /\ request'[agent'.request].grant = Grant
               /\ TokenKept
RoundStep == RoundGoesOn \/ RoundStarts \/ TokenIssued \/ TokenStored \/ RequestSent

LEMMA AgentFate ==
    ASSUME IInv, [Next]_vars
    PROVE  RoundStep
<1>0. /\ agent \in AgentRound /\ agent' \in AgentRound /\ request \in [Requests -> Request]
      /\ agent.request # NoRequest => agent.pc = "wait"
      /\ agent.pc # "idle" => Grant \in Grants
    BY NextAgent, GrantInTodo DEF IInv, TypeOK, AgentInv
<1>1. ASSUME UNCHANGED agent PROVE RoundStep
    BY <1>1 DEF RoundStep, RoundGoesOn, TokenKept
<1>2. ASSUME agent' = IdleAgent PROVE RoundStep
    BY <1>2 DEF RoundStep, RoundStarts, IdleAgent, TokenKept, NoToken
<1>3. ASSUME NEW e \in Expiries, Tick(e) PROVE RoundStep
  <2>1. CASE UNCHANGED agent
    BY <1>1, <2>1
  <2>2. CASE agent' = [agent EXCEPT !.token = AtEnd(Min(agent.todo), e, agent.token)]
    <3>1. /\ agent'.token = AtEnd(Min(agent.todo), e, agent.token)
          /\ agent'.pc = agent.pc /\ agent'.todo = agent.todo /\ agent'.request = agent.request
      BY <1>0, <2>2 DEF AgentRound
    <3>2. agent'.token.state = "good" => agent'.token = agent.token
      BY <1>0, <3>1, GoodToken DEF AgentRound
    <3>. QED
      BY <3>1, <3>2 DEF RoundStep, RoundGoesOn, TokenKept
  <2>. QED
    BY <1>3, <2>1, <2>2 DEF Tick
<1>4. CASE PollGrants
    BY <1>4 DEF PollGrants, IdleAgent, NoToken, RoundStep, RoundStarts, TokenKept
<1>5. ASSUME NEW places, NEW sa, ReadApproval \/ RemoveAccess(places, sa)
      PROVE  RoundStep
  <2>1. \/ agent' = IdleAgent
        \/ agent' = [agent EXCEPT !.pc = "sa"]
        \/ agent' = [agent EXCEPT !.pc = "revoke"]
    BY <1>5 DEF ReadApproval, RemoveAccess
  <2>. QED
    BY <1>0, <1>2, <2>1 DEF AgentRound, RoundStep, RoundGoesOn, TokenKept
<1>6. CASE IssueToken
  <2>1. agent.pc = "token" /\ agent.request = NoRequest
    BY <1>0, <1>6 DEF IssueToken
  <2>2. CASE agent' = [agent EXCEPT !.pc = "store", !.token = [gen |-> Gen, state |-> "good"]]
    <3>1. life[Instruction.expiresAt] = "good" \/ agent' = IdleAgent
      BY <1>6 DEF IssueToken
    <3>2. /\ agent'.todo = agent.todo /\ agent'.request = NoRequest /\ agent'.token.gen = Gen
      BY <1>0, <2>1, <2>2 DEF AgentRound
    <3>. QED
      BY <1>2, <2>1, <3>1, <3>2 DEF RoundStep, TokenIssued
  <2>. QED
    BY <1>2, <1>6, <2>2 DEF IssueToken
<1>7. ASSUME NEW p \in Places, BindRole(p) PROVE RoundStep
  <2>1. agent' = [agent EXCEPT !.places = agent.places \ {p},
                               !.pc = IF agent.places = {p} THEN "token" ELSE "rbac"]
    BY <1>0, <1>7 DEF BindRole, AgentRound
  <2>2. agent.pc = "rbac" /\ agent'.pc \in {"rbac", "token"} /\ agent'.todo = agent.todo
        /\ agent'.request = agent.request /\ agent'.token = agent.token
    BY <1>0, <1>7, <2>1 DEF BindRole, AgentRound
  <2>. QED
    BY <2>2 DEF RoundStep, RoundGoesOn, TokenKept
<1>8. ASSUME NEW q \in Requests, Send(q) PROVE RoundStep
  <2>1. request'[q].kind = agent.pc /\ agent.pc # "none" /\ request'[q].grant = Grant
    BY <1>0, <1>8 DEF Send, FreeRequest
  <2>2. /\ agent'.pc = "wait" /\ agent'.todo = agent.todo /\ agent'.request = q
        /\ agent'.token.state # "good"
    BY <1>0, <1>8 DEF Send, AgentRound, NoToken
  <2>. QED
    BY <2>1, <2>2 DEF RoundStep, RequestSent, TokenKept
<1>9. ASSUME NEW q \in Requests, NEW ok, NEW requests, Finish(q, ok, requests) PROVE RoundStep
  <2>1. CASE agent' = NextGrant /\ agent' # IdleAgent
    BY <1>0, <2>1 DEF AgentRound, NextGrant, RoundStep, RoundStarts, TokenKept
  <2>2. CASE /\ agent.request = q /\ request[q].kind = "store"
             /\ agent' = [agent EXCEPT !.pc = "fulfil", !.request = NoRequest]
    BY <1>0, <2>2 DEF AgentRound, RoundStep, TokenStored, TokenKept
  <2>3. \/ UNCHANGED agent \/ agent' = IdleAgent \/ agent' = NextGrant
        \/ /\ agent.request = q /\ request[q].kind = "store"
           /\ agent' = [agent EXCEPT !.pc = "fulfil", !.request = NoRequest]
    BY <1>9 DEF Finish, Answered
  <2>. QED
    BY <1>1, <1>2, <2>1, <2>2, <2>3
<1>10. ASSUME NEW q \in Requests,
              \/ StoreCheck(q) \/ StoreWrite(q) \/ StoreRecord(q)
              \/ RevokeDelete(q) \/ FulfillUpdate(q) \/ RequestFails(q)
       PROVE  RoundStep
    BY <1>1, <1>9, <1>10, Zenon DEF StoreCheck, StoreWrite, StoreRecord, RevokeDelete,
                                    FulfillUpdate, RequestFails
<1>11. CASE AgentFails \/ BrokerRestarts
    BY <1>1, <1>2, <1>11 DEF AgentFails, BrokerRestarts
<1>12. ASSUME \/ \E g \in Grants : \/ \E s \in GrantSpec : EditGrant(g, s)
                                   \/ Approve(g) \/ WithdrawApproval(g) \/ TokenExpires(g)
              \/ \E p \in Places : WriteRole(p)
              \/ \E q \in Requests : StoreGet(q) \/ FulfillGet(q)
              \/ \E r \in Reconcilers : ReconcileList(r) \/ ReconcileUpdate(r) \/ ReconcileFails(r)
              \/ UNCHANGED vars
       PROVE  RoundStep
  <2>1. UNCHANGED agent
    BY <1>12 DEF EditGrant, Approve, WithdrawApproval, TokenExpires, WriteRole, StoreGet, FulfillGet,
                 ReconcileList, ReconcileUpdate, ReconcileFails, vars
  <2>. QED
    BY <1>1, <2>1
<1>13. CASE CreateServiceAccount
  <2>1. /\ agent' = [agent EXCEPT !.pc = "rbac", !.places = Scope(Instruction)]
        /\ rbac' = [rbac EXCEPT ![Grant].sa = TRUE] /\ agent.pc = "sa"
    BY <1>13 DEF CreateServiceAccount
  <2>2. rbac'[Grant].sa
    BY <1>0, <2>1 DEF IInv, TypeOK
  <2>. QED
    BY <1>0, <2>1, <2>2 DEF AgentRound, RoundStep, RoundGoesOn, TokenKept
<1>. QED
    BY <1>3, <1>4, <1>5, <1>6, <1>7, <1>8, <1>10, <1>11, <1>12, <1>13 DEF Next

\* Every step keeps the round about a grant both agreed to.
LEMMA NextRound ==
    ASSUME IInv, IInv', StatusInv, [Next]_vars
    PROVE  RoundInv'
<1>0. /\ agent \in AgentRound /\ agent' \in AgentRound
      /\ agent.request # NoRequest => agent.pc = "wait"
      /\ agent'.request # NoRequest => agent'.pc = "wait"
      /\ agent.pc # "idle" => agent.todo # {} /\ Grant \in Grants
    BY GrantInTodo DEF IInv, TypeOK, AgentInv
<1>1. agent'.todo = agent.todo => Grant' = Grant
    BY DEF Grant
<1>2. agent.pc # "idle" /\ Agreed(Grant) /\ Grant' = Grant => Agreed(Grant)'
    BY <1>0, AgreedStays DEF Agreed, Consented
<1>3. agent'.pc \in {"sa", "rbac", "token"} => Agreed(Grant)'
  <2> SUFFICES ASSUME agent'.pc \in {"sa", "rbac", "token"} PROVE Agreed(Grant)'
    OBVIOUS
  <2>1. agent'.todo # {} /\ agent'.todo \in SUBSET Grants /\ Consented(Grant, Gen)'
    BY DEF IInv, TypeOK, AgentRound, AgentInv
  <2>2. agent'.todo \in SUBSET Nat
    BY <2>1, ConstantsAssumption DEF Grants
  <2>3. Grant' \in Grants
    BY <2>1, <2>2, MinInSet DEF Grant
  <2>4. \A g \in Grants : consented'[g] \subseteq 1..Len(spec'[g])
    BY DEF IInv, ConsentInv
  <2>5. Gen' \in 1..Len(spec'[Grant'])
    BY <2>1, <2>3, <2>4 DEF Consented
  <2>. QED
    BY <2>1, <2>5 DEF Agreed, Consented
<1>4. ASSUME agent'.pc \in {"store", "fulfil"} PROVE Agreed(Grant)'
  <2>1. CASE RoundGoesOn
    BY <1>1, <1>2, <1>4, <2>1 DEF RoundGoesOn, StatusInv, RoundInv
  <2>2. CASE TokenIssued
    BY <1>1, <1>2, <2>2 DEF TokenIssued, StatusInv, RoundInv
  <2>3. CASE TokenStored
    <3>1. agent.request # NoRequest /\ agent.pc = "wait"
      BY <1>0, <2>3, ConstantsAssumption DEF TokenStored
    <3>2. Agreed(Grant)
      BY <2>3, <3>1 DEF TokenStored, StatusInv, RoundInv
    <3>. QED
      BY <1>1, <1>2, <2>3, <3>1, <3>2 DEF TokenStored
  <2>. QED
    BY <1>4, <2>1, <2>2, <2>3, AgentFate DEF RoundStep, RoundStarts, RequestSent
<1>5. ASSUME agent'.request # NoRequest
      PROVE  request'[agent'.request].kind # "none" /\ request'[agent'.request].grant = Grant'
  <2>1. CASE RoundGoesOn
    BY <1>1, <1>5, <2>1, AwaitedStays DEF RoundGoesOn, SameRequest, StatusInv, RoundInv
  <2>2. CASE RequestSent
    BY <1>1, <2>2 DEF RequestSent
  <2>. QED
    BY <1>5, <2>1, <2>2, AgentFate DEF RoundStep, RoundStarts, TokenIssued, TokenStored
<1>. QED
    BY <1>3, <1>4, <1>5 DEF RoundInv

\* Every step keeps the requests, and what is shown, about such grants.
LEMMA NextRequests ==
    ASSUME IInv, StatusInv, [Next]_vars, NEW q \in Requests,
           request'[q].kind \in {"store", "fulfil"}
    PROVE  request'[q].grant \in Grants /\ Agreed(request[q].grant)'
<1>1. CASE SameRequest(q)
  <2>1. request[q].grant \in Grants /\ Agreed(request[q].grant)
    BY <1>1 DEF SameRequest, StatusInv
  <2>2. PICK n \in 1..Len(spec[request[q].grant]) : Consented(request[q].grant, n)
    BY <2>1 DEF Agreed
  <2>3. /\ n \in 1..Len(spec'[request[q].grant]) /\ n \in consented'[request[q].grant]
        /\ spec'[request[q].grant][n].approved /\ ~spec'[request[q].grant][n].revoked
    BY <2>1, <2>2, ConsentStays DEF IInv, Consented
  <2>. QED
    BY <1>1, <2>1, <2>3 DEF SameRequest, Agreed, Consented
<1>2. CASE request'[q] = FreeRequest
    BY <1>2 DEF FreeRequest
<1>3. CASE Send(q) /\ request'[q].kind = agent.pc /\ request'[q].grant = Grant
  <2>1. agent.pc \in {"store", "fulfil"} /\ Grant \in Grants /\ Agreed(Grant)
    BY <1>3, GrantInTodo DEF IInv, AgentInv, StatusInv, RoundInv
  <2>2. PICK n \in 1..Len(spec[Grant]) : Consented(Grant, n)
    BY <2>1 DEF Agreed
  <2>3. /\ n \in 1..Len(spec'[Grant]) /\ n \in consented'[Grant]
        /\ spec'[Grant][n].approved /\ ~spec'[Grant][n].revoked
    BY <2>1, <2>2, ConsentStays DEF IInv, Consented
  <2>. QED
    BY <1>3, <2>1, <2>3 DEF Agreed, Consented
<1>. QED
    BY <1>1, <1>2, <1>3, RequestFate

\* Every step keeps what is shown, and about to be shown, agreed to.
Shown == /\ \A r \in Reconcilers, g \in Grants : reconciler[r].state[g] = "Active" => Agreed(g)
         /\ \A g \in Grants : status[g].ref \/ status[g].state = "Active" => Agreed(g)

LEMMA NextShown ==
    ASSUME IInv, StatusInv, [Next]_vars
    PROVE  Shown'
<1> DEFINE Status == [state : GrantStates, ref : BOOLEAN]
           Reconciler == [todo : SUBSET Grants, state : [Grants -> GrantStates],
                          fresh : SUBSET Grants]
           Goal == /\ \A r \in Reconcilers, g \in Grants :
                         reconciler'[r].state[g] = "Active" => Agreed(g)
                   /\ \A g \in Grants : status'[g].ref \/ status'[g].state = "Active" => Agreed(g)
<1>0. /\ status \in [Grants -> Status] /\ reconciler \in [Reconcilers -> Reconciler]
      /\ \A r \in Reconcilers, g \in Grants : reconciler[r].state[g] = "Active" => Agreed(g)
      /\ \A g \in Grants : status[g].ref \/ status[g].state = "Active" => Agreed(g)
    BY DEF IInv, TypeOK, StatusInv
<1>1. \A g, r : r \in Reconcilers => StaleReconcilers(g)[r].state = reconciler[r].state
    BY <1>0 DEF StaleReconcilers
<1>2. \A g \in Grants : IdleReconciler.state[g] # "Active"
    BY DEF IdleReconciler
<1>3. ASSUME UNCHANGED <<status, reconciler>> PROVE Goal
    BY <1>0, <1>3
<1>4. ASSUME NEW g \in Grants, NEW s \in GrantSpec, EditGrant(g, s) PROVE Goal
    BY <1>0, <1>1, <1>4 DEF EditGrant
<1>5. ASSUME NEW q \in Requests, FulfillUpdate(q) PROVE Goal
  <2>1. CASE UNCHANGED <<status, reconciler>>
    BY <1>3, <2>1
  <2>2. CASE /\ status' = [status EXCEPT ![request[q].grant] = [state |-> "Active", ref |-> TRUE]]
             /\ reconciler' = StaleReconcilers(request[q].grant)
    <3>1. request[q].grant \in Grants /\ Agreed(request[q].grant)
      BY <1>5 DEF FulfillUpdate, StatusInv
    <3>2. \A g \in Grants : g # request[q].grant => status'[g] = status[g]
      BY <1>0, <2>2
    <3>. QED
      BY <1>0, <1>1, <2>2, <3>1, <3>2
  <2>. QED
    BY <1>5, <2>1, <2>2 DEF FulfillUpdate
<1>6. ASSUME NEW r \in Reconcilers, ReconcileList(r) PROVE Goal
  <2>1. /\ UNCHANGED status
        /\ \A x \in Reconcilers : x # r => reconciler'[x] = reconciler[x]
        /\ reconciler'[r].state = [g \in Grants |-> GrantState(g)]
    BY <1>0, <1>6 DEF ReconcileList
  <2>2. \A g \in Grants : GrantState(g) = "Active" => status[g].ref
    BY DEF GrantState
  <2>. QED
    BY <1>0, <2>1, <2>2
<1>7. ASSUME NEW r \in Reconcilers, ReconcileUpdate(r) PROVE Goal
  <2> DEFINE g == Min(reconciler[r].todo)
             rest == IF reconciler[r].todo = {g} THEN IdleReconciler
                     ELSE [reconciler[r] EXCEPT !.todo = @ \ {g}, !.fresh = @ \ {g},
                                                !.state[g] = "none"]
  <2>1. reconciler[r].todo # {} /\ reconciler[r] \in Reconciler
    BY <1>0, <1>7 DEF ReconcileUpdate
  <2>2. g \in Grants
    <3>1. reconciler[r].todo \in SUBSET Nat
      BY <2>1, ConstantsAssumption DEF Grants
    <3>. QED
      BY <2>1, <3>1, MinInSet
  <2>3. \/ UNCHANGED status
        \/ status' = [status EXCEPT ![g] = [status[g] EXCEPT !.state = reconciler[r].state[g]]]
    BY <1>7 DEF ReconcileUpdate
  <2>4. \/ reconciler' = [reconciler EXCEPT ![r] = rest]
        \/ reconciler' = [StaleReconcilers(g) EXCEPT ![r] = rest]
    BY <1>7 DEF ReconcileUpdate
  <2>5. \A h \in Grants : rest.state[h] = "Active" => reconciler[r].state[h] = "Active"
    BY <1>2, <2>1, <2>2
  <2> HIDE DEF rest, g
  <2>6. StaleReconcilers(g) \in [Reconcilers -> Reconciler]
    BY <1>0 DEF StaleReconcilers
  <2>7. \A x \in Reconcilers, h \in Grants : reconciler'[x].state[h] = "Active" => Agreed(h)
    <3>1. PICK before \in [Reconcilers -> Reconciler] :
             /\ reconciler' = [before EXCEPT ![r] = rest]
             /\ \A x \in Reconcilers : before[x].state = reconciler[x].state
      BY <1>0, <1>1, <2>4, <2>6, Zenon
    <3> HIDE DEF Reconciler
    <3>2. /\ reconciler'[r] = rest
          /\ \A x \in Reconcilers : x # r => reconciler'[x] = before[x]
      BY <3>1
    <3>. QED
      BY <1>0, <2>5, <3>1, <3>2
  <2>8. status[g] \in Status
    BY <1>0, <2>2
  <2>9. [status[g] EXCEPT !.state = reconciler[r].state[g]].ref = status[g].ref
        /\ [status[g] EXCEPT !.state = reconciler[r].state[g]].state = reconciler[r].state[g]
    BY <2>8
  <2>10. \A h \in Grants : status'[h].ref \/ status'[h].state = "Active" => Agreed(h)
    BY <1>0, <2>2, <2>3, <2>9
  <2>. QED
    BY <2>7, <2>10
<1>8. ASSUME NEW r \in Reconcilers, ReconcileFails(r) PROVE Goal
    BY <1>0, <1>2, <1>8 DEF ReconcileFails
<1>9. ASSUME \/ \E g \in Grants : Approve(g) \/ WithdrawApproval(g) \/ TokenExpires(g)
             \/ \E e \in Expiries : Tick(e)
             \/ PollGrants \/ ReadApproval \/ CreateServiceAccount \/ IssueToken \/ AgentFails
             \/ \E places \in SUBSET Places, sa \in BOOLEAN : RemoveAccess(places, sa)
             \/ \E p \in Places : WriteRole(p) \/ BindRole(p)
             \/ \E q \in Requests :
                   \/ Send(q) \/ StoreCheck(q) \/ StoreGet(q) \/ StoreWrite(q) \/ StoreRecord(q)
                   \/ RevokeDelete(q) \/ FulfillGet(q) \/ RequestFails(q)
             \/ BrokerRestarts
             \/ UNCHANGED vars
      PROVE  Goal
  <2>1. UNCHANGED <<status, reconciler>>
    BY <1>9 DEF Approve, WithdrawApproval, TokenExpires, Tick, PollGrants, ReadApproval,
                CreateServiceAccount, IssueToken, AgentFails, RemoveAccess, WriteRole, BindRole,
                Send, StoreCheck, StoreGet, StoreWrite, StoreRecord, RevokeDelete, FulfillGet,
                RequestFails, BrokerRestarts, vars
  <2>. QED
    BY <1>3, <2>1
<1>10. Goal
  <2> HIDE DEF Goal
  <2>. QED
    BY <1>4, <1>5, <1>6, <1>7, <1>8, <1>9 DEF Next
<1>11. \A g \in Grants : Agreed(g) => Agreed(g)'
    BY AgreedStays
<1>. QED
    BY <1>10, <1>11 DEF Shown, Agreed, Consented

\* What is fulfilled or shown as Active was agreed to, in every state.
THEOREM StatusInvHolds == Spec => []StatusInv
<1>1. Init => StatusInv
  <2> SUFFICES ASSUME Init PROVE StatusInv
    OBVIOUS
  <2>1. agent.pc = "idle" /\ agent.request = NoRequest
    BY DEF Init, IdleAgent
  <2>2. \A q \in Requests : request[q].kind = "none"
    BY DEF Init, FreeRequest
  <2>3. \A r \in Reconcilers, g \in Grants : reconciler[r].state[g] = "none"
    BY DEF Init, IdleReconciler
  <2>4. \A g \in Grants : ~status[g].ref /\ status[g].state = "none"
    BY DEF Init
  <2>. QED
    BY <2>1, <2>2, <2>3, <2>4 DEF StatusInv, RoundInv
<1>2. IInv /\ IInv' /\ StatusInv /\ [Next]_vars => StatusInv'
  <2> SUFFICES ASSUME IInv, IInv', StatusInv, [Next]_vars PROVE StatusInv'
    OBVIOUS
  <2>1. RoundInv' /\ Shown'
    BY NextRound, NextShown
  <2>2. ASSUME NEW q \in Requests, request'[q].kind \in {"store", "fulfil"}
        PROVE  request'[q].grant \in Grants /\ Agreed(request[q].grant)'
    BY <2>2, NextRequests
  <2>. QED
    BY <2>1, <2>2 DEF StatusInv, Shown
<1>. QED
    BY <1>1, <1>2, InductiveInvariant, PTL DEF Spec

\* "Managed Kubernetes access requires both" approvals: roles and tokens are
\* those of generations that the administrator and the owner approved, and a
\* grant the Hub calls Active had one, although agent, reconcilers and requests
\* act on copies.
THEOREM AccessConsentedHolds == Spec => []AccessConsented
<1>1. IInv /\ StatusInv => AccessConsented
    BY DEF IInv, AccessInv, StatusInv, AccessConsented, Agreed
<1>. QED
    BY InductiveInvariant, StatusInvHolds, <1>1, PTL

------------------------------------------------------------------------------
(* Tokens that can be used.                                                *)

\* The access that a token of the generation n of g gives is there.
Live(g, n) == rbac[g].sa /\ life[spec[g][n].expiresAt] # "over"

\* Wherever a token that can be used is, its access is there; and the
\* ServiceAccount is, from its creation until the token is sent.
LiveInv ==
    /\ agent.pc \in {"rbac", "token", "store"} => rbac[Grant].sa
    /\ agent.token.state = "good" =>
          agent.token.gen # 0 /\ Live(Grant, agent.token.gen)
    /\ \A q \in Requests : request[q].token.state = "good" =>
          request[q].token.gen # 0 /\ Live(request[q].grant, request[q].token.gen)
    /\ \A g \in Grants : stored[g].state = "good" =>
          stored[g].gen # 0 /\ Live(g, stored[g].gen)

\* The two steps that take access away: the ServiceAccount is deleted, and with
\* it every token for it; time passes an expiry, and every token with it ends.
SaDeleted(g) ==
    /\ agent.pc = "grant" /\ agent'.pc = "revoke"
    /\ stored'[g] = Dead(stored[g])
    /\ \A q \in Requests : request[q].grant = g => request'[q].token = Dead(request[q].token)
TimeOver(e) ==
    /\ agent'.pc = agent.pc
    /\ agent.token = NoToken \/ agent'.token = AtEnd(Grant, e, agent.token)
    /\ \A g \in Grants : stored'[g] = AtEnd(g, e, stored[g])
    /\ \A q \in Requests : request'[q].token = AtEnd(request[q].grant, e, request[q].token)

\* A ServiceAccount stays, or is deleted.
LEMMA SaFate ==
    ASSUME IInv, [Next]_vars, NEW g \in Grants, rbac[g].sa
    PROVE  rbac'[g].sa \/ SaDeleted(g)
<1>0. /\ rbac \in [Grants -> Access] /\ stored \in [Grants -> Token]
      /\ request \in [Requests -> Request] /\ agent \in AgentRound
      /\ agent.pc # "idle" => Grant \in Grants
    BY GrantInTodo DEF IInv, TypeOK, Access, AgentInv
<1>1. ASSUME UNCHANGED rbac PROVE rbac'[g].sa
    BY <1>1
<1>2. ASSUME NEW places \in SUBSET Places, NEW sa \in BOOLEAN, RemoveAccess(places, sa)
      PROVE  rbac'[g].sa \/ SaDeleted(g)
  <2> DEFINE left == rbac[Grant].sa /\ ~sa
             roles == [p \in Places |-> IF p \in places THEN 0 ELSE rbac[Grant].role[p]]
             bound == rbac[Grant].bound \ places
  <2>1. /\ agent.pc = "grant" /\ agent' = [agent EXCEPT !.pc = "revoke"]
        /\ rbac' = [rbac EXCEPT ![Grant] = [sa |-> left, bound |-> bound, role |-> roles]]
    BY <1>2 DEF RemoveAccess
  <2>2. left \in BOOLEAN /\ (left <=> rbac[Grant].sa /\ ~sa)
    OBVIOUS
  <2> HIDE DEF left, roles, bound
  <2>3. rbac'[g].sa = (IF g = Grant THEN left ELSE rbac[g].sa)
    BY <1>0, <2>1
  <2>4. ASSUME g = Grant, sa PROVE SaDeleted(g)
    <3>1. /\ stored' = [stored EXCEPT ![Grant] = Dead(stored[Grant])]
          /\ request' = [q \in Requests |-> [request[q] EXCEPT
                            !.token = IF request[q].grant = Grant THEN Dead(request[q].token)
                                      ELSE request[q].token]]
      BY <1>2, <2>4 DEF RemoveAccess
    <3>2. agent'.pc = "revoke"
      BY <1>0, <2>1 DEF AgentRound
    <3>3. \A q \in Requests : request[q].grant = g => request'[q].token = Dead(request[q].token)
      BY <1>0, <2>4, <3>1 DEF Request
    <3>. QED
      BY <1>0, <2>1, <2>4, <3>1, <3>2, <3>3 DEF SaDeleted
  <2>5. CASE g # Grant
    BY <2>3, <2>5
  <2>6. CASE g = Grant /\ ~sa
    BY <2>2, <2>3, <2>6
  <2>. QED
    BY <2>4, <2>5, <2>6
<1>3. ASSUME CreateServiceAccount PROVE rbac'[g].sa
  <2>1. rbac' = [rbac EXCEPT ![Grant].sa = TRUE]
    BY <1>3 DEF CreateServiceAccount
  <2>. QED
    BY <1>0, <2>1 DEF Access
<1>4. ASSUME NEW p \in Places, WriteRole(p) PROVE rbac'[g].sa
  <2>1. rbac' = [rbac EXCEPT ![Grant].role[p] = Gen]
    BY <1>4 DEF WriteRole
  <2>. QED
    BY <1>0, <2>1 DEF Access
<1>5. ASSUME NEW p \in Places, BindRole(p) PROVE rbac'[g].sa
  <2>1. rbac' = [rbac EXCEPT ![Grant].bound = rbac[Grant].bound \cup {p}]
    BY <1>0, <1>5 DEF BindRole
  <2>. QED
    BY <1>0, <2>1 DEF Access
<1>6. ASSUME \/ \E h \in Grants : \/ \E s \in GrantSpec : EditGrant(h, s)
                                  \/ Approve(h) \/ WithdrawApproval(h) \/ TokenExpires(h)
             \/ \E e \in Expiries : Tick(e)
             \/ PollGrants \/ ReadApproval \/ IssueToken \/ AgentFails
             \/ \E q \in Requests :
                   \/ Send(q) \/ StoreCheck(q) \/ StoreGet(q) \/ StoreWrite(q) \/ StoreRecord(q)
                   \/ RevokeDelete(q) \/ FulfillGet(q) \/ FulfillUpdate(q) \/ RequestFails(q)
             \/ BrokerRestarts
             \/ \E r \in Reconcilers : ReconcileList(r) \/ ReconcileUpdate(r) \/ ReconcileFails(r)
             \/ UNCHANGED vars
      PROVE  rbac'[g].sa
  <2>1. UNCHANGED rbac
    BY <1>6 DEF EditGrant, Approve, WithdrawApproval, TokenExpires, Tick, PollGrants, ReadApproval,
                IssueToken, AgentFails, Send, StoreCheck, StoreGet, StoreWrite, StoreRecord,
                RevokeDelete, FulfillGet, FulfillUpdate, RequestFails, BrokerRestarts,
                ReconcileList, ReconcileUpdate, ReconcileFails, vars
  <2>. QED
    BY <1>1, <2>1
<1>. QED
    BY <1>2, <1>3, <1>4, <1>5, <1>6 DEF Next

\* An expiry that is not over stays so, or time passes it.
LEMMA TimeFate ==
    ASSUME IInv, [Next]_vars, NEW e \in Expiries, life[e] # "over"
    PROVE  life'[e] # "over" \/ TimeOver(e)
<1>0. /\ life \in [Expiries -> {"good", "short", "over"}] /\ stored \in [Grants -> Token]
      /\ request \in [Requests -> Request] /\ agent \in AgentRound
    BY DEF IInv, TypeOK
<1>1. ASSUME UNCHANGED life PROVE life'[e] # "over"
    BY <1>1
<1>2. ASSUME NEW f \in Expiries, Tick(f) PROVE life'[e] # "over" \/ TimeOver(e)
  <2>1. life' = [life EXCEPT ![f] = Later[life[f]]]
    BY <1>2 DEF Tick
  <2>2. CASE f # e
    BY <1>0, <2>1, <2>2
  <2>3. CASE f = e /\ life'[e] = "over"
    <3>1. /\ stored' = [g \in Grants |-> AtEnd(g, e, stored[g])]
          /\ request' = [q \in Requests |-> [request[q] EXCEPT
                            !.token = AtEnd(request[q].grant, e, request[q].token)]]
          /\ agent' = IF agent.token = NoToken THEN agent
                      ELSE [agent EXCEPT !.token = AtEnd(Min(agent.todo), e, agent.token)]
      BY <1>2, <2>3 DEF Tick
    <3>2. \A q \in Requests : request'[q].token = AtEnd(request[q].grant, e, request[q].token)
      BY <1>0, <3>1 DEF Request
    <3>3. agent'.pc = agent.pc /\ (agent.token = NoToken \/ agent'.token = AtEnd(Grant, e, agent.token))
      BY <1>0, <3>1 DEF AgentRound, Grant
    <3>. QED
      BY <3>1, <3>2, <3>3 DEF TimeOver
  <2>. QED
    BY <2>2, <2>3
<1>3. ASSUME \/ \E h \in Grants : \/ \E s \in GrantSpec : EditGrant(h, s)
                                  \/ Approve(h) \/ WithdrawApproval(h) \/ TokenExpires(h)
             \/ PollGrants \/ ReadApproval \/ CreateServiceAccount \/ IssueToken \/ AgentFails
             \/ \E places \in SUBSET Places, sa \in BOOLEAN : RemoveAccess(places, sa)
             \/ \E p \in Places : WriteRole(p) \/ BindRole(p)
             \/ \E q \in Requests :
                   \/ Send(q) \/ StoreCheck(q) \/ StoreGet(q) \/ StoreWrite(q) \/ StoreRecord(q)
                   \/ RevokeDelete(q) \/ FulfillGet(q) \/ FulfillUpdate(q) \/ RequestFails(q)
             \/ BrokerRestarts
             \/ \E r \in Reconcilers : ReconcileList(r) \/ ReconcileUpdate(r) \/ ReconcileFails(r)
             \/ UNCHANGED vars
      PROVE  life'[e] # "over"
  <2>1. UNCHANGED life
    BY <1>3 DEF EditGrant, Approve, WithdrawApproval, TokenExpires, PollGrants, ReadApproval,
                CreateServiceAccount, RemoveAccess, WriteRole, BindRole,
                IssueToken, AgentFails, Send, StoreCheck, StoreGet, StoreWrite, StoreRecord,
                RevokeDelete, FulfillGet, FulfillUpdate, RequestFails, BrokerRestarts,
                ReconcileList, ReconcileUpdate, ReconcileFails, vars, world
  <2>. QED
    BY <1>1, <2>1
<1>. QED
    BY <1>2, <1>3 DEF Next

\* Live access that both agreed to stays live unless one of them happens.
LEMMA LiveFate ==
    ASSUME IInv, [Next]_vars, NEW g \in Grants, NEW n, Consented(g, n), Live(g, n)
    PROVE  \/ rbac'[g].sa /\ life'[spec'[g][n].expiresAt] # "over"
           \/ SaDeleted(g)
           \/ TimeOver(spec[g][n].expiresAt)
<1>1. n \in 1..Len(spec[g]) /\ spec'[g][n] = spec[g][n]
    BY ConsentStays DEF IInv
<1>2. spec[g][n].expiresAt \in Expiries
  <2>1. spec[g] \in Seq(GrantSpec)
    BY DEF IInv, TypeOK
  <2>2. spec[g][n] \in GrantSpec
    BY <1>1, <2>1
  <2>. QED
    BY <2>2 DEF GrantSpec
<1>. QED
    BY <1>1, <1>2, SaFate, TimeFate DEF Live

\* What the broker's Secret holds was there, or comes with a request.
LEMMA StoredFate ==
    ASSUME IInv, [Next]_vars, NEW g \in Grants, stored'[g].state = "good"
    PROVE  \/ stored'[g] = stored[g]
           \/ \E q \in Requests : request[q].grant = g /\ stored'[g] = request[q].token
<1> DEFINE Goal == \/ stored'[g] = stored[g]
                   \/ \E q \in Requests : request[q].grant = g /\ stored'[g] = request[q].token
<1>0. stored \in [Grants -> Token] /\ stored[g] \in Token
    BY DEF IInv, TypeOK
<1>1. ASSUME UNCHANGED stored PROVE Goal
    BY <1>1
<1>2. ASSUME NEW e \in Expiries, Tick(e) PROVE Goal
  <2>1. UNCHANGED stored \/ stored' = [h \in Grants |-> AtEnd(h, e, stored[h])]
    BY <1>2 DEF Tick
  <2>. QED
    BY <1>0, <1>1, <2>1, GoodToken
<1>3. ASSUME NEW h \in Grants, TokenExpires(h) PROVE Goal
  <2>1. /\ stored' = [stored EXCEPT ![h] = Expired(stored[h])]
        /\ stored[h].state \in {"good", "dead"}
    BY <1>3 DEF TokenExpires
  <2>2. Expired(stored[h]) = stored[h] \/ Expired(stored[h]).state # "good"
    BY <1>0, <2>1 DEF Expired, Token
  <2>. QED
    BY <1>0, <2>1, <2>2
<1>4. ASSUME NEW places, NEW sa, RemoveAccess(places, sa) PROVE Goal
  <2>1. UNCHANGED stored \/ stored' = [stored EXCEPT ![Grant] = Dead(stored[Grant])]
    BY <1>4 DEF RemoveAccess
  <2>. QED
    BY <1>0, <1>1, <2>1, GoodToken
<1>5. ASSUME NEW q \in Requests, StoreWrite(q) PROVE Goal
  <2>1. UNCHANGED stored \/ stored' = [stored EXCEPT ![request[q].grant] = request[q].token]
    BY <1>5 DEF StoreWrite
  <2>. QED
    BY <1>0, <1>1, <2>1
<1>6. ASSUME NEW q \in Requests, RevokeDelete(q) PROVE Goal
  <2>1. stored' = [stored EXCEPT ![request[q].grant] = NoToken]
    BY <1>6 DEF RevokeDelete
  <2>. QED
    BY <1>0, <2>1 DEF NoToken
<1>7. ASSUME \/ \E h \in Grants : \/ \E s \in GrantSpec : EditGrant(h, s)
                                  \/ Approve(h) \/ WithdrawApproval(h)
             \/ PollGrants \/ ReadApproval \/ CreateServiceAccount \/ IssueToken \/ AgentFails
             \/ \E p \in Places : WriteRole(p) \/ BindRole(p)
             \/ \E q \in Requests :
                   \/ Send(q) \/ StoreCheck(q) \/ StoreGet(q) \/ StoreRecord(q)
                   \/ FulfillGet(q) \/ FulfillUpdate(q) \/ RequestFails(q)
             \/ BrokerRestarts
             \/ \E r \in Reconcilers : ReconcileList(r) \/ ReconcileUpdate(r) \/ ReconcileFails(r)
             \/ UNCHANGED vars
      PROVE  Goal
  <2>1. UNCHANGED stored
    BY <1>7 DEF EditGrant, Approve, WithdrawApproval, PollGrants, ReadApproval,
                CreateServiceAccount, WriteRole, BindRole, IssueToken, AgentFails, Send,
                StoreCheck, StoreGet, StoreRecord, FulfillGet, FulfillUpdate, RequestFails,
                BrokerRestarts, ReconcileList, ReconcileUpdate, ReconcileFails, vars
  <2>. QED
    BY <1>1, <2>1
<1>. QED
  <2> HIDE DEF Goal
  <2>1. Goal
    BY <1>2, <1>3, <1>4, <1>5, <1>6, <1>7 DEF Next
  <2>. QED
    BY <2>1 DEF Goal

\* Every step keeps the stored tokens live.
LEMMA NextStoredLive ==
    ASSUME IInv, LiveInv, [Next]_vars, NEW g \in Grants, stored'[g].state = "good"
    PROVE  /\ stored'[g].gen # 0 /\ rbac'[g].sa
           /\ life'[spec'[g][stored'[g].gen].expiresAt] # "over"
<1> DEFINE n == stored'[g].gen
<1>1. stored[g] \in Token
    BY DEF IInv, TypeOK
<1>2. n # 0 /\ Consented(g, n) /\ Live(g, n)
  <2>1. CASE stored'[g] = stored[g]
    BY <2>1 DEF LiveInv, IInv, AccessInv
  <2>2. ASSUME NEW q \in Requests, request[q].grant = g, stored'[g] = request[q].token
        PROVE  n # 0 /\ Consented(g, n) /\ Live(g, n)
    BY <2>2 DEF LiveInv, IInv, RequestInv
  <2>. QED
    BY <2>1, <2>2, StoredFate
<1>3. ~SaDeleted(g)
    BY <1>1, GoodToken DEF SaDeleted
<1>4. ~TimeOver(spec[g][n].expiresAt)
    BY <1>1, <1>2, GoodToken DEF TimeOver
<1> HIDE DEF n
<1>5. rbac'[g].sa /\ life'[spec'[g][n].expiresAt] # "over"
    BY <1>2, <1>3, <1>4, LiveFate
<1>. QED
    BY <1>2, <1>5 DEF n

\* Every step keeps the tokens of the requests live.
LEMMA NextRequestLive ==
    ASSUME IInv, LiveInv, [Next]_vars, NEW q \in Requests, request'[q].token.state = "good"
    PROVE  /\ request'[q].token.gen # 0 /\ rbac'[request'[q].grant].sa
           /\ life'[spec'[request'[q].grant][request'[q].token.gen].expiresAt] # "over"
<1> DEFINE g == request'[q].grant
           n == request'[q].token.gen
<1>1. request[q] \in Request /\ request[q].token \in Token
    BY DEF IInv, TypeOK, Request
<1>2. CASE SameRequest(q)
  <2>1. g = request[q].grant /\ request'[q].token = request[q].token
    BY <1>2 DEF SameRequest
  <2>2. n # 0 /\ g \in Grants /\ Consented(g, n) /\ Live(g, n)
    BY <2>1 DEF LiveInv, IInv, RequestInv
  <2>3. ~SaDeleted(g)
    BY <1>1, <2>1, GoodToken DEF SaDeleted
  <2>4. ~TimeOver(spec[g][n].expiresAt)
    BY <1>1, <2>1, <2>2, GoodToken DEF TimeOver
  <2> HIDE DEF g, n
  <2>5. rbac'[g].sa /\ life'[spec'[g][n].expiresAt] # "over"
    BY <2>2, <2>3, <2>4, LiveFate
  <2>. QED
    BY <2>2, <2>5 DEF g, n
<1>3. CASE Send(q) /\ g = Grant /\ request'[q].token = agent.token
  <2>1. /\ agent.pc \in {"store", "revoke", "fulfil"} /\ agent'.pc = "wait"
        /\ Grant \in Grants
    BY <1>3, GrantInTodo DEF Send, IInv, TypeOK, AgentRound, AgentInv
  <2>2. n # 0 /\ g \in Grants /\ Consented(g, n) /\ Live(g, n)
    BY <1>3, <2>1 DEF LiveInv, IInv, AgentInv
  <2>3. ~SaDeleted(g) /\ ~TimeOver(spec[g][n].expiresAt)
    BY <2>1 DEF SaDeleted, TimeOver
  <2> HIDE DEF g, n
  <2>4. rbac'[g].sa /\ life'[spec'[g][n].expiresAt] # "over"
    BY <2>2, <2>3, LiveFate
  <2>. QED
    BY <2>2, <2>4 DEF g, n
<1>4. CASE request'[q] = FreeRequest
    BY <1>4 DEF FreeRequest, NoToken
<1>. QED
    BY <1>2, <1>3, <1>4, RequestFate

\* Every step keeps the agent's token live, and its ServiceAccount there.
LEMMA NextAgentLive ==
    ASSUME IInv, IInv', LiveInv, [Next]_vars
    PROVE  /\ agent'.pc \in {"rbac", "token", "store"} => rbac'[Grant'].sa
           /\ agent'.token.state = "good" =>
                 /\ agent'.token.gen # 0 /\ rbac'[Grant'].sa
                 /\ life'[spec'[Grant'][agent'.token.gen].expiresAt] # "over"
<1>0. /\ agent \in AgentRound /\ agent' \in AgentRound /\ agent.token \in Token
      /\ agent.pc # "idle" => Grant \in Grants
    BY GrantInTodo DEF IInv, TypeOK, AgentRound, AgentInv
<1>1. agent'.todo = agent.todo => Grant' = Grant
    BY DEF Grant
<1>2. ASSUME agent'.pc \in {"rbac", "token", "store"} PROVE rbac'[Grant'].sa
  <2>1. ~SaDeleted(Grant)
    BY <1>2 DEF SaDeleted
  <2>2. ASSUME agent.pc \in {"rbac", "token", "store"} PROVE rbac'[Grant].sa
    <3>1. rbac[Grant].sa /\ Grant \in Grants
      BY <1>0, <2>2 DEF LiveInv
    <3>. QED
      BY <2>1, <3>1, SaFate
  <2>3. CASE RoundGoesOn
    <3>1. agent.pc \in {"rbac", "token", "store"} \/ rbac'[Grant].sa
      BY <1>2, <2>3 DEF RoundGoesOn
    <3>. QED
      BY <1>1, <2>2, <2>3, <3>1 DEF RoundGoesOn
  <2>4. CASE TokenIssued
    BY <1>1, <2>2, <2>4 DEF TokenIssued
  <2>. QED
    BY <1>2, <2>3, <2>4, AgentFate DEF RoundStep, RoundStarts, TokenStored, RequestSent
<1>3. ASSUME agent'.token.state = "good"
      PROVE  /\ agent'.token.gen # 0
             /\ rbac'[Grant'].sa /\ life'[spec'[Grant'][agent'.token.gen].expiresAt] # "over"
  <2> DEFINE n == agent'.token.gen
  <2>1. CASE RoundGoesOn
    <3>1. agent'.token = agent.token /\ agent.token.state = "good" /\ Grant' = Grant
      BY <1>1, <1>3, <2>1 DEF RoundGoesOn, TokenKept
    <3>2. n # 0 /\ agent.pc = "store" /\ Grant \in Grants /\ Consented(Grant, n) /\ Live(Grant, n)
      BY <1>0, <3>1 DEF LiveInv, IInv, AgentInv
    <3>3. ~SaDeleted(Grant)
      BY <3>2 DEF SaDeleted
    <3>4. ~TimeOver(spec[Grant][n].expiresAt)
      BY <1>0, <3>1, <3>2, GoodToken DEF TimeOver, NoToken
    <3> HIDE DEF n
    <3>5. rbac'[Grant].sa /\ life'[spec'[Grant][n].expiresAt] # "over"
      BY <3>2, <3>3, <3>4, LiveFate
    <3>. QED
      BY <3>1, <3>2, <3>5 DEF n
  <2>2. CASE TokenIssued
    <3>1. /\ n = Gen /\ agent.pc = "token" /\ Grant' = Grant /\ Grant \in Grants
          /\ Consented(Grant, Gen)
      BY <1>0, <1>1, <2>2 DEF TokenIssued, IInv, AgentInv
    <3>2. Gen # 0
      BY <3>1, ConsentStays DEF IInv
    <3>3. Live(Grant, Gen)
      BY <2>2, <3>1 DEF LiveInv, Live, TokenIssued, Instruction
    <3>4. agent'.pc = "store"
      BY <1>3, <3>1, <3>2 DEF IInv, AgentInv
    <3>5. ~SaDeleted(Grant) /\ ~TimeOver(spec[Grant][Gen].expiresAt)
      BY <3>1, <3>4 DEF SaDeleted, TimeOver
    <3>6. rbac'[Grant].sa /\ life'[spec'[Grant][Gen].expiresAt] # "over"
      BY <3>1, <3>3, <3>5, LiveFate
    <3>. QED
      BY <3>1, <3>2, <3>6
  <2>3. ASSUME TokenKept PROVE agent'.pc = "store"
    <3>1. agent'.token.gen # 0
      BY <1>3, <2>3 DEF TokenKept, LiveInv
    <3>. QED
      BY <3>1 DEF IInv, AgentInv
  <2>. QED
    BY <2>1, <2>2, <2>3, AgentFate DEF RoundStep, RoundStarts, TokenStored, RequestSent
<1>. QED
    BY <1>2, <1>3

\* A token that can be used, wherever it is, gives access that is there: no
\* store that is late, on its way through a conflict or a restart of the broker,
\* revives access whose ServiceAccount a revocation deleted.
THEOREM LiveInvHolds == Spec => []LiveInv
<1>1. Init => LiveInv
  <2> SUFFICES ASSUME Init PROVE LiveInv
    OBVIOUS
  <2>1. /\ agent.pc = "idle" /\ agent.token.state = "none"
        /\ \A q \in Requests : request[q].token.state = "none"
        /\ \A g \in Grants : stored[g].state = "none"
    BY DEF Init, IdleAgent, FreeRequest, NoToken
  <2>. QED
    BY <2>1 DEF LiveInv
<1>2. IInv /\ IInv' /\ LiveInv /\ [Next]_vars => LiveInv'
  <2> SUFFICES ASSUME IInv, IInv', LiveInv, [Next]_vars PROVE LiveInv'
    OBVIOUS
  <2>1. /\ agent'.pc \in {"rbac", "token", "store"} => rbac'[Grant'].sa
        /\ agent'.token.state = "good" => agent'.token.gen # 0 /\ Live(Grant, agent.token.gen)'
    BY NextAgentLive DEF Live
  <2>2. ASSUME NEW q \in Requests, request'[q].token.state = "good"
        PROVE  request'[q].token.gen # 0 /\ Live(request[q].grant, request[q].token.gen)'
    BY <2>2, NextRequestLive DEF Live
  <2>3. ASSUME NEW g \in Grants, stored'[g].state = "good"
        PROVE  stored'[g].gen # 0 /\ Live(g, stored[g].gen)'
    BY <2>3, NextStoredLive DEF Live
  <2>. QED
    BY <2>1, <2>2, <2>3 DEF LiveInv
<1>. QED
    BY <1>1, <1>2, InductiveInvariant, PTL DEF Spec

\* A credential that can be used has its ServiceAccount and is not past the
\* expiry of the generation it was issued for.
THEOREM UsableIsLiveHolds == Spec => []UsableIsLive
<1>1. LiveInv => UsableIsLive
    BY DEF LiveInv, Live, Usable, UsableIsLive
<1>. QED
    BY LiveInvHolds, <1>1, PTL
==============================================================================
