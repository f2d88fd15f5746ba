------------------------- MODULE ControlChannelProofs -------------------------
(***************************************************************************)
(* Proofs, for every set of agents and handlers and all bounds, of the     *)
(* safety properties of ControlChannel.                                    *)
(***************************************************************************)
EXTENDS ControlChannel, TLAPS

\* An agent that waits for, or persists after, a positive answer carries a
\* generation the Hub has already recorded.
AgentInv ==
    \A a \in Agents :
        /\ agent[a].pc = "wait" => agent[a].msg.gen = agent[a].seq
        /\ agent[a].pc = "wait" /\ agent[a].answer = "ok" => agent[a].seq <= identity.last
        /\ agent[a].pc \in {"get", "update"} => agent[a].seq <= identity.last

\* A handler that passed the effect step has applied it, and a handler whose
\* read of the ClusterIdentity is still current carries a newer generation.
HandlerInv ==
    \A h \in Handlers :
        /\ handler[h].pc # "idle" => handler[h].msg \in Message
        /\ handler[h].pc \in {"record", "update"} => handler[h].msg \in applied
        /\ handler[h].pc = "update" /\ handler[h].rv = identity.rv
              => handler[h].msg.gen > identity.last
        /\ handler[h].rv <= identity.rv

\* The log holds nothing newer than the recorded generation.
LogInv ==
    \A i \in 1..Len(log) : log[i].gen <= identity.last

IInv == TypeOK /\ AgentInv /\ HandlerInv /\ LogInv /\ PersistedBehindHub /\ RecordedHasEffect

------------------------------------------------------------------------------

\* The initial state satisfies the inductive invariant.
LEMMA InitIInv == Init => IInv
<1> SUFFICES ASSUME Init PROVE IInv
    OBVIOUS
<1> USE BoundsAreNaturals DEF Init, Message, NoMessage, DownAgent, IdleHandler
<1>1. TypeOK
    BY DEF TypeOK, AgentStates, HandlerStates, Answers
<1>2. AgentInv
    BY DEF AgentInv
<1>3. HandlerInv
    BY DEF HandlerInv
<1>4. LogInv /\ RecordedHasEffect /\ PersistedBehindHub
    BY DEF LogInv, RecordedHasEffect, PersistedBehindHub
<1>. QED
    BY <1>1, <1>2, <1>3, <1>4 DEF IInv

\* What Answer does to the agents: types are kept, only answers change, and an
\* "ok" reaches only an agent waiting for exactly this message.
LEMMA AnswerLemma ==
    ASSUME NEW m \in Message, NEW status \in Answers \ {"none"},
           TypeOK, Answer(m, status)
    PROVE  /\ agent' \in [Agents -> [pc : AgentStates, seq : 0..MaxGen,
                                     msg : Message \cup {NoMessage}, answer : Answers, rv : Nat]]
           /\ \A a \in Agents :
                 /\ agent'[a].pc = agent[a].pc
                 /\ agent'[a].seq = agent[a].seq
                 /\ agent'[a].msg = agent[a].msg
                 /\ \/ agent'[a].answer = agent[a].answer
                    \/ agent'[a].answer = status /\ agent[a].pc = "wait" /\ agent[a].msg = m
<1> DEFINE Agent == [pc : AgentStates, seq : 0..MaxGen,
                     msg : Message \cup {NoMessage}, answer : Answers, rv : Nat]
<1>1. ASSUME NEW a \in Agents
      PROVE  /\ agent'[a] \in Agent
             /\ agent'[a].pc = agent[a].pc
             /\ agent'[a].seq = agent[a].seq
             /\ agent'[a].msg = agent[a].msg
             /\ \/ agent'[a].answer = agent[a].answer
                \/ agent'[a].answer = status /\ agent[a].pc = "wait" /\ agent[a].msg = m
  <2>1. agent[a] \in Agent
    BY DEF TypeOK
  <2>2. CASE agent'[a] = agent[a]
    BY <2>1, <2>2
  <2>3. CASE /\ agent'[a] = [agent[a] EXCEPT !.answer = status]
             /\ agent[a].pc = "wait" /\ agent[a].msg = m
    BY <2>1, <2>3
  <2>. QED
    BY <2>2, <2>3 DEF Answer
<1>2. agent' = [a \in Agents |-> agent'[a]]
    BY DEF Answer
<1>. QED
    BY <1>1, <1>2

------------------------------------------------------------------------------

\* Every step of an agent or of the network preserves the types.
LEMMA TypeStep == TypeOK /\ HandlerInv /\ [Next]_vars => TypeOK'
<1> SUFFICES ASSUME TypeOK, HandlerInv, [Next]_vars PROVE TypeOK'
    OBVIOUS
<1> USE BoundsAreNaturals
<1> USE DEF TypeOK, Message, agentVars, hubVars
<1>1. CASE UNCHANGED vars
    BY <1>1 DEF vars
<1>2. ASSUME NEW a \in Agents, Start(a) PROVE TypeOK'
    BY <1>2 DEF Start, IdleAgent, AgentStates, Answers
<1>3. ASSUME NEW a \in Agents, Crash(a) PROVE TypeOK'
    BY <1>3 DEF Crash, DownAgent, AgentStates, Answers
<1>4. ASSUME NEW a \in Agents, SendControl(a) PROVE TypeOK'
    BY <1>4 DEF SendControl, AgentStates, Answers
<1>5. ASSUME NEW a \in Agents, ReceiveAnswer(a) PROVE TypeOK'
    BY <1>5 DEF ReceiveAnswer, IdleAgent, PersistingAgent, NoMessage, AgentStates, Answers
<1>6. ASSUME NEW a \in Agents, Timeout(a) PROVE TypeOK'
    BY <1>6 DEF Timeout, IdleAgent, AgentStates, Answers
<1>7. ASSUME NEW a \in Agents, PersistGet(a) PROVE TypeOK'
    BY <1>7 DEF PersistGet, PersistingAgent, AgentStates, Answers
<1>8. ASSUME NEW a \in Agents, PersistUpdate(a) PROVE TypeOK'
    BY <1>8 DEF PersistUpdate, IdleAgent, AgentStates, Answers
<1>9. ASSUME NEW a \in Agents, PersistFails(a) PROVE TypeOK'
    BY <1>9 DEF PersistFails, IdleAgent, AgentStates, Answers
<1>10. ASSUME NEW m \in net, Lose(m) PROVE TypeOK'
    BY <1>10 DEF Lose
<1>11. ASSUME NEW h \in Handlers, NEW m \in net, Receive(h, m) PROVE TypeOK'
  <2>1. m \in Message /\ net' \subseteq Message
    BY <1>11 DEF Receive
  <2>2. CASE Answer(m, "error") /\ UNCHANGED handler
    BY <1>11, <2>1, <2>2, AnswerLemma DEF Receive, Answers
  <2>3. CASE handler' = [handler EXCEPT ![h] = [pc |-> "effect", msg |-> m, rv |-> 0]]
             /\ UNCHANGED agent
    BY <1>11, <2>1, <2>3 DEF Receive, HandlerStates
  <2>. QED
    BY <1>11, <2>2, <2>3 DEF Receive
<1>12. ASSUME NEW h \in Handlers, ApplyEffect(h) PROVE TypeOK'
    BY <1>12 DEF ApplyEffect, HandlerInv, HandlerStates
<1>13. ASSUME NEW h \in Handlers, RecordRead(h) PROVE TypeOK'
    BY <1>13 DEF RecordRead, HandlerStates
<1>14. ASSUME NEW h \in Handlers, RecordUpdate(h) PROVE TypeOK'
  <2>1. handler[h].msg \in Message
    BY <1>14 DEF RecordUpdate, HandlerInv
  <2>2. log' \in Seq(Message)
    BY <1>14, <2>1 DEF RecordUpdate
  <2>3. handler' \in [Handlers -> [pc : HandlerStates, msg : Message \cup {NoMessage}, rv : Nat]]
    BY <1>14 DEF RecordUpdate, IdleHandler, HandlerStates
  <2>4. identity' \in [last : 0..MaxGen, rv : Nat]
    BY <1>14, <2>1 DEF RecordUpdate
  <2>. QED
    BY <1>14, <2>1, <2>2, <2>3, <2>4, AnswerLemma DEF RecordUpdate, Answers
<1>15. ASSUME NEW h \in Handlers, HandlerErrors(h) PROVE TypeOK'
  <2>1. handler[h].msg \in Message
    BY <1>15 DEF HandlerErrors, HandlerInv
  <2>2. handler' \in [Handlers -> [pc : HandlerStates, msg : Message \cup {NoMessage}, rv : Nat]]
    BY <1>15 DEF HandlerErrors, IdleHandler, HandlerStates
  <2>. QED
    BY <1>15, <2>1, <2>2, AnswerLemma DEF HandlerErrors, Answers
<1>16. ASSUME NEW h \in Handlers, HandlerDies(h) PROVE TypeOK'
    BY <1>16 DEF HandlerDies, IdleHandler, HandlerStates
<1>. QED
    BY <1>1, <1>2, <1>3, <1>4, <1>5, <1>6, <1>7, <1>8, <1>9, <1>10, <1>11, <1>12,
       <1>13, <1>14, <1>15, <1>16 DEF Next

------------------------------------------------------------------------------

\* RecordUpdate is the only step that changes the ClusterIdentity, and it
\* raises lastGeneration because the handler's read is still current.
LEMMA LastMonotone ==
    ASSUME IInv, [Next]_vars
    PROVE  \/ identity' = identity
           \/ identity'.last > identity.last /\ identity'.rv = identity.rv + 1
<1>1. ASSUME NEW h \in Handlers, RecordUpdate(h)
      PROVE  identity'.last > identity.last /\ identity'.rv = identity.rv + 1
    BY <1>1 DEF RecordUpdate, IInv, HandlerInv
<1>2. CASE UNCHANGED vars
    BY <1>2 DEF vars
<1>. QED
    BY <1>1, <1>2 DEF Next, agentVars, hubVars, Start, Crash, SendControl, ReceiveAnswer, Timeout,
       PersistGet, PersistUpdate, PersistFails, Lose, Receive, ApplyEffect, RecordRead,
       HandlerErrors, HandlerDies

\* lastGeneration does not decrease.
LEMMA LastGrows ==
    ASSUME IInv, [Next]_vars, TypeOK'
    PROVE  identity.last <= identity'.last
    BY LastMonotone DEF IInv, TypeOK

\* An answer other than "ok" keeps AgentInv while lastGeneration grows.
LEMMA AnswerKeepsAgentInv ==
    ASSUME NEW m \in Message, NEW status \in {"ok", "error"}, TypeOK, TypeOK', AgentInv,
           Answer(m, status), identity.last <= identity'.last,
           status = "ok" => m.gen <= identity'.last
    PROVE  AgentInv'
<1> SUFFICES ASSUME NEW a \in Agents
             PROVE  /\ agent'[a].pc = "wait" => agent'[a].msg.gen = agent'[a].seq
                    /\ agent'[a].pc = "wait" /\ agent'[a].answer = "ok"
                          => agent'[a].seq <= identity'.last
                    /\ agent'[a].pc \in {"get", "update"} => agent'[a].seq <= identity'.last
    BY DEF AgentInv
<1>1. /\ agent'[a].pc = agent[a].pc
      /\ agent'[a].seq = agent[a].seq
      /\ agent'[a].msg = agent[a].msg
      /\ \/ agent'[a].answer = agent[a].answer
         \/ agent'[a].answer = status /\ agent[a].pc = "wait" /\ agent[a].msg = m
    BY AnswerLemma DEF Answers
<1>2. agent[a].seq \in Nat /\ identity.last \in Nat /\ identity'.last \in Nat
    BY BoundsAreNaturals DEF TypeOK
<1>. QED
    BY <1>1, <1>2 DEF AgentInv

\* Every step keeps what the agents know.
LEMMA AgentStep == IInv /\ TypeOK' /\ [Next]_vars => AgentInv'
<1> SUFFICES ASSUME IInv, TypeOK', [Next]_vars PROVE AgentInv'
    OBVIOUS
<1>0. identity.last <= identity'.last
    BY LastGrows
<1>1. TypeOK /\ AgentInv
    BY DEF IInv
<1>2. \A a \in Agents : agent[a].seq \in Nat /\ agent'[a].seq \in Nat
    BY <1>1, BoundsAreNaturals DEF TypeOK
<1>3. identity.last \in Nat /\ identity'.last \in Nat
    BY <1>1, BoundsAreNaturals DEF TypeOK
<1>4. CASE UNCHANGED agent
    BY <1>0, <1>1, <1>2, <1>3, <1>4 DEF AgentInv
<1>5. ASSUME NEW a \in Agents, NEW r, agent' = [agent EXCEPT ![a] = r],
             r.pc = "wait" => r.msg.gen = r.seq /\ r.answer = "none",
             r.pc \in {"get", "update"} => r.seq <= identity.last
      PROVE  AgentInv'
  <2>1. agent \in [Agents -> [pc : AgentStates, seq : 0..MaxGen, msg : Message \cup {NoMessage},
                              answer : Answers, rv : Nat]]
    BY <1>1 DEF TypeOK
  <2>2. SUFFICES ASSUME NEW b \in Agents
                 PROVE  /\ agent'[b].pc = "wait" => agent'[b].msg.gen = agent'[b].seq
                        /\ agent'[b].pc = "wait" /\ agent'[b].answer = "ok"
                              => agent'[b].seq <= identity'.last
                        /\ agent'[b].pc \in {"get", "update"} => agent'[b].seq <= identity'.last
    BY DEF AgentInv
  <2>3. CASE b = a
    BY <1>0, <1>2, <1>3, <1>5, <2>1, <2>3
  <2>4. CASE b # a
    BY <1>0, <1>1, <1>2, <1>3, <1>5, <2>1, <2>4 DEF AgentInv
  <2>. QED
    BY <2>3, <2>4
<1>6. ASSUME NEW a \in Agents, Start(a) PROVE AgentInv'
    BY <1>6, <1>5 DEF Start, IdleAgent
<1>7. ASSUME NEW a \in Agents, Crash(a) PROVE AgentInv'
    BY <1>7, <1>5 DEF Crash, DownAgent
<1>8. ASSUME NEW a \in Agents, SendControl(a) PROVE AgentInv'
    BY <1>8, <1>5 DEF SendControl
<1>9. ASSUME NEW a \in Agents, ReceiveAnswer(a) PROVE AgentInv'
  <2>1. CASE agent[a].answer = "ok"
    BY <1>1, <1>5, <1>9, <2>1 DEF ReceiveAnswer, PersistingAgent, AgentInv
  <2>2. CASE agent[a].answer # "ok"
    BY <1>5, <1>9, <2>2 DEF ReceiveAnswer, IdleAgent
  <2>. QED
    BY <2>1, <2>2
<1>10. ASSUME NEW a \in Agents, Timeout(a) PROVE AgentInv'
    BY <1>10, <1>5 DEF Timeout, IdleAgent
<1>11. ASSUME NEW a \in Agents, PersistGet(a) PROVE AgentInv'
    BY <1>11, <1>5, <1>1 DEF PersistGet, PersistingAgent, AgentInv
<1>12. ASSUME NEW a \in Agents, PersistUpdate(a) PROVE AgentInv'
    BY <1>12, <1>5 DEF PersistUpdate, IdleAgent
<1>13. ASSUME NEW a \in Agents, PersistFails(a) PROVE AgentInv'
    BY <1>13, <1>5 DEF PersistFails, IdleAgent
<1>14. ASSUME NEW h \in Handlers, NEW m \in net, Receive(h, m) PROVE AgentInv'
  <2>1. m \in Message
    BY <1>1 DEF TypeOK
  <2>. QED
    BY <1>0, <1>1, <1>4, <1>14, <2>1, AnswerKeepsAgentInv DEF Receive
<1>15. ASSUME NEW h \in Handlers, RecordUpdate(h) PROVE AgentInv'
  <2>1. handler[h].msg \in Message
    BY <1>15 DEF RecordUpdate, IInv, HandlerInv
  <2>2. identity'.last = handler[h].msg.gen
    BY <1>15 DEF RecordUpdate
  <2>3. Answer(handler[h].msg, "ok")
    BY <1>15 DEF RecordUpdate
  <2>4. handler[h].msg.gen <= identity'.last
    BY <2>1, <2>2, BoundsAreNaturals DEF Message
  <2>. QED
    BY <1>0, <1>1, <2>1, <2>3, <2>4, AnswerKeepsAgentInv
<1>16. ASSUME NEW h \in Handlers, HandlerErrors(h) PROVE AgentInv'
  <2>1. handler[h].msg \in Message
    BY <1>16 DEF HandlerErrors, IInv, HandlerInv
  <2>. QED
    BY <1>0, <1>1, <1>16, <2>1, AnswerKeepsAgentInv DEF HandlerErrors
<1>. QED
  <2>1. ASSUME NEW m \in net, Lose(m) PROVE AgentInv'
    BY <1>4, <2>1 DEF Lose, agentVars
  <2>2. ASSUME NEW h \in Handlers, ApplyEffect(h) \/ RecordRead(h) \/ HandlerDies(h)
        PROVE AgentInv'
    BY <1>4, <2>2 DEF ApplyEffect, RecordRead, HandlerDies, agentVars
  <2>3. CASE UNCHANGED vars
    BY <1>4, <2>3 DEF vars
  <2>. QED
    BY <1>6, <1>7, <1>8, <1>9, <1>10, <1>11, <1>12, <1>13, <1>14, <1>15, <1>16,
       <2>1, <2>2, <2>3 DEF Next

\* Only ApplyEffect extends the effects, and nothing is ever taken back.
LEMMA HandlerStep == IInv /\ TypeOK' /\ [Next]_vars => HandlerInv'
<1> SUFFICES ASSUME IInv, TypeOK', [Next]_vars PROVE HandlerInv'
    OBVIOUS
<1>0. TypeOK /\ HandlerInv
    BY DEF IInv
<1> DEFINE Good(r) ==
        /\ r.pc # "idle" => r.msg \in Message
        /\ r.pc \in {"record", "update"} => r.msg \in applied'
        /\ r.pc = "update" /\ r.rv = identity'.rv => r.msg.gen > identity'.last
        /\ r.rv <= identity'.rv
<1>1. identity.rv \in Nat /\ identity'.rv \in Nat
    BY <1>0 DEF TypeOK
<1>2. \A h \in Handlers : handler[h].rv \in Nat
    BY <1>0 DEF TypeOK
<1>3. applied \subseteq applied'
    BY DEF Next, vars, agentVars, hubVars, Start, Crash, SendControl, ReceiveAnswer, Timeout,
       PersistGet, PersistUpdate, PersistFails, Lose, Receive, ApplyEffect, RecordRead,
       RecordUpdate, HandlerErrors, HandlerDies
<1>4. \A h \in Handlers : Good(handler[h])
    BY <1>0, <1>1, <1>2, <1>3, LastMonotone DEF HandlerInv
<1>5. CASE UNCHANGED handler
    BY <1>4, <1>5 DEF HandlerInv
<1>6. ASSUME NEW h \in Handlers, NEW r, handler' = [handler EXCEPT ![h] = r], Good(r)
      PROVE  HandlerInv'
  <2>1. \A k \in Handlers : handler'[k] = IF k = h THEN r ELSE handler[k]
    BY <1>0, <1>6 DEF TypeOK
  <2>2. \A k \in Handlers : Good(handler'[k])
    BY <1>4, <1>6, <2>1
  <2>. QED
    BY <2>2 DEF HandlerInv
<1>7. ASSUME NEW h \in Handlers, NEW m \in net, Receive(h, m) PROVE HandlerInv'
  <2>1. m \in Message
    BY <1>0 DEF TypeOK
  <2>2. CASE UNCHANGED handler
    BY <1>5, <2>2
  <2>3. CASE handler' = [handler EXCEPT ![h] = [pc |-> "effect", msg |-> m, rv |-> 0]]
    <3> DEFINE r == [pc |-> "effect", msg |-> m, rv |-> 0]
    <3>1. Good(r)
      BY <1>1, <2>1
    <3>. QED
      BY <1>6, <2>3, <3>1
  <2>. QED
    BY <1>7, <2>2, <2>3 DEF Receive
<1>8. ASSUME NEW h \in Handlers, ApplyEffect(h) PROVE HandlerInv'
  <2> DEFINE r == [handler[h] EXCEPT !.pc = "record"]
  <2>1. handler' = [handler EXCEPT ![h] = r] /\ applied' = applied \cup {handler[h].msg}
    BY <1>8 DEF ApplyEffect
  <2>2. r.pc = "record" /\ r.msg = handler[h].msg /\ r.rv = handler[h].rv
    BY <1>0 DEF TypeOK
  <2>3. handler[h].msg \in Message
    BY <1>0, <1>8 DEF ApplyEffect, HandlerInv
  <2>4. Good(r)
    BY <1>4, <2>1, <2>2, <2>3
  <2>. QED
    BY <1>6, <2>1, <2>4
<1>9. ASSUME NEW h \in Handlers, RecordRead(h) PROVE HandlerInv'
  <2> DEFINE r == [pc |-> "update", msg |-> handler[h].msg, rv |-> identity.rv]
  <2>1. handler' = [handler EXCEPT ![h] = r] /\ UNCHANGED <<identity, applied>>
    BY <1>9 DEF RecordRead
  <2>2. r.msg \in Message /\ r.msg \in applied /\ r.msg.gen > identity.last
    BY <1>0, <1>9 DEF RecordRead, Verified, HandlerInv
  <2>3. Good(r)
    BY <1>1, <2>1, <2>2
  <2>. QED
    BY <1>6, <2>1, <2>3
<1>10. ASSUME NEW h \in Handlers, RecordUpdate(h) \/ HandlerErrors(h) \/ HandlerDies(h)
       PROVE  HandlerInv'
  <2>1. handler' = [handler EXCEPT ![h] = IdleHandler]
    BY <1>10 DEF RecordUpdate, HandlerErrors, HandlerDies
  <2>2. Good(IdleHandler)
    BY <1>1 DEF IdleHandler
  <2>. QED
    BY <1>6, <2>1, <2>2
<1>11. CASE UNCHANGED vars
    BY <1>5, <1>11 DEF vars
<1>12. ASSUME NEW a \in Agents,
              \/ Start(a) \/ Crash(a) \/ SendControl(a) \/ ReceiveAnswer(a)
              \/ Timeout(a) \/ PersistGet(a) \/ PersistUpdate(a) \/ PersistFails(a)
       PROVE  HandlerInv'
    BY <1>5, <1>12 DEF hubVars, Start, Crash, SendControl, ReceiveAnswer, Timeout, PersistGet,
       PersistUpdate, PersistFails
<1>13. ASSUME NEW m \in net, Lose(m) PROVE HandlerInv'
    BY <1>5, <1>13 DEF hubVars, Lose
<1>. QED
    BY <1>7, <1>8, <1>9, <1>10, <1>11, <1>12, <1>13 DEF Next

\* The three remaining parts depend on the log, the effects, the Secret and
\* the ClusterIdentity only.
LEMMA HistoryStep ==
    IInv /\ TypeOK' /\ [Next]_vars => (LogInv /\ RecordedHasEffect /\ PersistedBehindHub)'
<1> SUFFICES ASSUME IInv, TypeOK', [Next]_vars
             PROVE  (LogInv /\ RecordedHasEffect /\ PersistedBehindHub)'
    OBVIOUS
<1>0. identity.last <= identity'.last
    BY LastGrows
<1>1. identity.last \in Nat /\ identity'.last \in Nat /\ secret.gen \in Nat
    BY BoundsAreNaturals DEF IInv, TypeOK
<1>2. log \in Seq(Message) /\ \A i \in 1..Len(log) : log[i].gen \in Nat
  <2>1. log \in Seq(Message)
    BY DEF IInv, TypeOK
  <2>2. \A i \in 1..Len(log) : log[i] \in Message
    BY <2>1
  <2>. QED
    BY <2>1, <2>2, BoundsAreNaturals DEF Message
<1>3. ASSUME UNCHANGED log, applied \subseteq applied' PROVE (LogInv /\ RecordedHasEffect)'
    BY <1>0, <1>1, <1>2, <1>3 DEF IInv, LogInv, RecordedHasEffect
<1>4. ASSUME UNCHANGED secret PROVE PersistedBehindHub'
    BY <1>0, <1>1, <1>4 DEF IInv, PersistedBehindHub
<1>5. ASSUME NEW a \in Agents, PersistUpdate(a)
      PROVE  (LogInv /\ RecordedHasEffect /\ PersistedBehindHub)'
  <2>1. secret'.gen = agent[a].seq /\ identity' = identity /\ log' = log /\ applied' = applied
    BY <1>5 DEF PersistUpdate, hubVars
  <2>2. agent[a].seq <= identity.last
    BY <1>5 DEF PersistUpdate, IInv, AgentInv
  <2>. QED
    BY <1>3, <2>1, <2>2 DEF PersistedBehindHub
<1>6. ASSUME NEW h \in Handlers, RecordUpdate(h)
      PROVE  (LogInv /\ RecordedHasEffect /\ PersistedBehindHub)'
  <2>1. /\ identity'.last = handler[h].msg.gen
        /\ log' = Append(log, handler[h].msg)
        /\ UNCHANGED <<secret, applied>>
    BY <1>6 DEF RecordUpdate
  <2>2. handler[h].msg \in applied /\ handler[h].msg \in Message
    BY <1>6 DEF RecordUpdate, IInv, HandlerInv
  <2>3. ASSUME NEW i \in 1..Len(log')
        PROVE  log'[i].gen <= identity'.last /\ log'[i] \in applied'
    <3>1. CASE i \in 1..Len(log)
      <4>1. log'[i] = log[i]
        BY <1>2, <2>1, <2>2, <3>1
      <4>2. log[i].gen <= identity.last /\ log[i] \in applied
        BY <3>1 DEF IInv, LogInv, RecordedHasEffect
      <4>. QED
        BY <1>0, <1>1, <1>2, <2>1, <3>1, <4>1, <4>2
    <3>2. CASE i = Len(log) + 1
      <4>1. log'[i] = handler[h].msg
        BY <1>2, <2>1, <2>2, <3>2
      <4>. QED
        BY <1>1, <2>1, <2>2, <4>1
    <3>. QED
      BY <1>2, <2>1, <2>2, <3>1, <3>2
  <2>. QED
    BY <1>4, <2>1, <2>3 DEF LogInv, RecordedHasEffect
<1>7. CASE UNCHANGED vars
    BY <1>3, <1>4, <1>7 DEF vars
<1>8. ASSUME NEW a \in Agents,
             \/ Start(a) \/ Crash(a) \/ SendControl(a) \/ ReceiveAnswer(a)
             \/ Timeout(a) \/ PersistGet(a) \/ PersistFails(a)
      PROVE  (LogInv /\ RecordedHasEffect /\ PersistedBehindHub)'
    BY <1>3, <1>4, <1>8 DEF hubVars, Start, Crash, SendControl, ReceiveAnswer, Timeout,
       PersistGet, PersistFails
<1>9. ASSUME NEW m \in net, Lose(m)
      PROVE  (LogInv /\ RecordedHasEffect /\ PersistedBehindHub)'
    BY <1>3, <1>4, <1>9 DEF agentVars, hubVars, Lose
<1>10. ASSUME NEW h \in Handlers,
              \/ \E m \in net : Receive(h, m)
              \/ ApplyEffect(h) \/ RecordRead(h) \/ HandlerErrors(h) \/ HandlerDies(h)
       PROVE  (LogInv /\ RecordedHasEffect /\ PersistedBehindHub)'
    BY <1>3, <1>4, <1>10 DEF agentVars, Receive, ApplyEffect, RecordRead, HandlerErrors,
       HandlerDies
<1>. QED
    BY <1>5, <1>6, <1>7, <1>8, <1>9, <1>10 DEF Next

------------------------------------------------------------------------------

\* The inductive invariant holds in every reachable state.
THEOREM InductiveInvariant == Spec => []IInv
<1>1. IInv /\ [Next]_vars => IInv'
    BY TypeStep, AgentStep, HandlerStep, HistoryStep DEF IInv
<1>. QED
    BY <1>1, InitIInv, PTL DEF Spec

\* Type correctness of agents, network, handlers and stored objects.
THEOREM TypeCorrect == Spec => []TypeOK
    BY InductiveInvariant, PTL DEF IInv

\* sendControlResponse persists its sequence only behind the Hub's record.
THEOREM PersistedBehindHubHolds == Spec => []PersistedBehindHub
    BY InductiveInvariant, PTL DEF IInv

\* No generation is recorded by RecordGeneration without its effect.
THEOREM RecordedHasEffectHolds == Spec => []RecordedHasEffect
    BY InductiveInvariant, PTL DEF IInv

\* A step of the Hub either leaves the abstract log alone or appends a
\* generation newer than all in it.
LEMMA LogStep ==
    ASSUME IInv, TypeOK', [Next]_vars
    PROVE  [Guard!Next]_([i \in 1..Len(log) |-> log[i].gen])
<1>1. ASSUME UNCHANGED log PROVE UNCHANGED [i \in 1..Len(log) |-> log[i].gen]
    BY <1>1
<1>2. ASSUME NEW h \in Handlers, RecordUpdate(h) PROVE Guard!Next
  <2> DEFINE m == handler[h].msg
  <2>1. m \in Message /\ m.gen > identity.last /\ log' = Append(log, m)
    BY <1>2 DEF RecordUpdate, IInv, HandlerInv
  <2>2. log \in Seq(Message) /\ identity.last \in Nat /\ m.gen \in 1..MaxGen
    BY <2>1, BoundsAreNaturals DEF IInv, TypeOK, Message
  <2>3. Len(log) \in Nat /\ Len(log') = Len(log) + 1
    BY <2>1, <2>2
  <2>4. \A i \in 1..Len(log) : log[i] \in Message /\ log[i].gen \in Nat
    <3>1. \A i \in 1..Len(log) : log[i] \in Message
      BY <2>2
    <3>. QED
      BY <3>1, BoundsAreNaturals DEF Message
  <2>5. \A i \in 1..Len(log) : log[i].gen < m.gen
    BY <2>1, <2>2, <2>4 DEF IInv, LogInv
  <2> DEFINE gens == [i \in 1..Len(log) |-> log[i].gen]
  <2>6. gens \in Seq(Nat) /\ Len(gens) = Len(log)
    BY <2>3, <2>4
  <2>7. gens' = Append(gens, m.gen)
    <3>1. gens' = [i \in 1..(Len(log) + 1) |-> Append(log, m)[i].gen]
      BY <2>1, <2>3
    <3>2. \A i \in 1..Len(log) : Append(log, m)[i] = log[i]
      BY <2>1, <2>2
    <3>3. Append(log, m)[Len(log) + 1] = m
      BY <2>1, <2>2
    <3>4. Append(gens, m.gen) = [i \in 1..(Len(log) + 1) |->
                                   IF i = Len(log) + 1 THEN m.gen ELSE gens[i]]
      BY <2>2, <2>6
    <3>. QED
      BY <2>3, <3>1, <3>2, <3>3, <3>4
  <2>8. \A i \in 1..Len(gens) : gens[i] < m.gen
    BY <2>5, <2>6
  <2>. QED
    BY <2>2, <2>7, <2>8 DEF Guard!Next, Guard!Accept
<1>3. CASE UNCHANGED vars
    BY <1>1, <1>3 DEF vars
<1>4. ASSUME NEW a \in Agents,
             \/ Start(a) \/ Crash(a) \/ SendControl(a) \/ ReceiveAnswer(a)
             \/ Timeout(a) \/ PersistGet(a) \/ PersistUpdate(a) \/ PersistFails(a)
      PROVE  UNCHANGED log
    BY <1>4 DEF hubVars, Start, Crash, SendControl, ReceiveAnswer, Timeout,
       PersistGet, PersistUpdate, PersistFails
<1>5. ASSUME NEW m \in net, Lose(m) PROVE UNCHANGED log
    BY <1>5 DEF hubVars, Lose
<1>6. ASSUME NEW h \in Handlers,
             \/ \E m \in net : Receive(h, m)
             \/ ApplyEffect(h) \/ RecordRead(h) \/ HandlerErrors(h) \/ HandlerDies(h)
      PROVE  UNCHANGED log
    BY <1>6 DEF Receive, ApplyEffect, RecordRead, HandlerErrors, HandlerDies
<1>. QED
    BY <1>1, <1>2, <1>3, <1>4, <1>5, <1>6 DEF Next

\* The control channel implements GenerationLog: across replicas, retries,
\* redeliveries and restarts the Hub acknowledges strictly increasing
\* generations.
THEOREM ImplementsGenerationLog == Spec => RefinesGenerationLog
<1>1. Init => Guard!Init
    BY DEF Init, Guard!Init
<1>2. IInv /\ IInv' /\ [Next]_vars => [Guard!Next]_([i \in 1..Len(log) |-> log[i].gen])
    BY LogStep DEF IInv
<1>. QED
    BY <1>1, <1>2, InductiveInvariant, PTL DEF Spec, RefinesGenerationLog, Guard!Spec

------------------------------------------------------------------------------
(* What follows for the log, for its acknowledgements and for the agents.  *)

\* The log as GenerationLog sees it.
Generations == [i \in 1..Len(log) |-> log[i].gen]

\* The generations of the log are numbers.
LEMMA GenerationsType ==
    ASSUME TypeOK
    PROVE  Generations \in Seq(Nat) /\ Len(Generations) = Len(log)
<1>1. log \in Seq(Message)
    BY DEF TypeOK
<1>2. \A i \in 1..Len(log) : log[i] \in Message
    BY <1>1
<1>. QED
    BY <1>1, <1>2, BoundsAreNaturals DEF Message, Generations

\* A later entry of the log has a newer generation: no generation is ever
\* acknowledged twice.
LogIncreasing == \A i, j \in 1..Len(log) : i < j => log[i].gen < log[j].gen

\* An entry that GenerationLog accepts is newer than every other one.
LEMMA AcceptedIsNewest ==
    ASSUME TypeOK, LogIncreasing, NEW g \in Nat, Guard!Accept(g)
    PROVE  LogIncreasing'
<1>1. Generations \in Seq(Nat) /\ Len(Generations) = Len(log)
    BY GenerationsType
<1>2. /\ \A i \in 1..Len(Generations) : Generations[i] < g
      /\ Generations' = Append(Generations, g)
    BY DEF Guard!Accept, Generations
<1>3. Len(Generations') = Len(Generations) + 1 /\ DOMAIN Generations' = 1..Len(log')
    BY <1>1, <1>2 DEF Generations
<1>4. 1..Len(log') = 1..(Len(log) + 1) /\ Len(log) \in Nat
    BY <1>1, <1>2, <1>3
<1>5. SUFFICES ASSUME NEW i \in 1..Len(log'), NEW j \in 1..Len(log'), i < j
               PROVE  log'[i].gen < log'[j].gen
    BY DEF LogIncreasing
<1>6. log'[i].gen = Generations'[i] /\ log'[j].gen = Generations'[j]
    BY DEF Generations
<1>7. i \in 1..Len(log)
    BY <1>4, <1>5
<1>8. Generations'[i] = Generations[i]
    BY <1>1, <1>2, <1>7
<1>9. CASE j \in 1..Len(log)
  <2>1. Generations'[j] = Generations[j]
    BY <1>1, <1>2, <1>9
  <2>2. Generations[i] < Generations[j]
    BY <1>5, <1>7, <1>9 DEF LogIncreasing, Generations
  <2>. QED
    BY <1>6, <1>8, <2>1, <2>2
<1>10. CASE j = Len(log) + 1
  <2>1. Generations'[j] = g
    BY <1>1, <1>2, <1>10
  <2>. QED
    BY <1>1, <1>2, <1>6, <1>7, <1>8, <2>1
<1>. QED
    BY <1>4, <1>9, <1>10

\* What GenerationLog promises, said of the log of RecordGeneration itself:
\* its generations strictly increase.
THEOREM LogIncreasingHolds == Spec => []LogIncreasing
<1>1. Init => LogIncreasing
    BY DEF Init, LogIncreasing
<1>2. TypeOK /\ LogIncreasing /\ [Guard!Next]_([i \in 1..Len(log) |-> log[i].gen])
        => LogIncreasing'
  <2> SUFFICES ASSUME TypeOK, LogIncreasing,
                      [Guard!Next]_([i \in 1..Len(log) |-> log[i].gen])
               PROVE  LogIncreasing'
    OBVIOUS
  <2>1. CASE Guard!Next
    <3>1. PICK g \in 1..MaxGen : Guard!Accept(g)
      BY <2>1 DEF Guard!Next
    <3>. QED
      BY <3>1, AcceptedIsNewest, BoundsAreNaturals
  <2>2. CASE UNCHANGED [i \in 1..Len(log) |-> log[i].gen]
    <3>1. Generations' = Generations
      BY <2>2 DEF Generations
    <3>2. DOMAIN Generations' = 1..Len(log') /\ DOMAIN Generations = 1..Len(log)
      BY DEF Generations
    <3>3. 1..Len(log') = 1..Len(log)
      BY <3>1, <3>2
    <3>4. \A i \in 1..Len(log) : log'[i].gen = Generations'[i] /\ log[i].gen = Generations[i]
      BY <3>3 DEF Generations
    <3>. QED
      BY <3>1, <3>3, <3>4 DEF LogIncreasing
  <2>. QED
    BY <2>1, <2>2
<1>. QED
    BY <1>1, <1>2, TypeCorrect, ImplementsGenerationLog, PTL
       DEF Spec, RefinesGenerationLog, Guard!Spec

\* Only RecordUpdate extends the log, by the message it answers with 200.
LEMMA LogGrows ==
    ASSUME IInv, [Next]_vars
    PROVE  \/ UNCHANGED log
           \/ \E h \in Handlers : /\ handler[h].msg \in Message
                                  /\ log' = Append(log, handler[h].msg)
                                  /\ Answer(handler[h].msg, "ok")
<1>1. ASSUME NEW h \in Handlers, RecordUpdate(h)
      PROVE  /\ handler[h].msg \in Message
             /\ log' = Append(log, handler[h].msg)
             /\ Answer(handler[h].msg, "ok")
    BY <1>1 DEF RecordUpdate, IInv, HandlerInv
<1>2. CASE UNCHANGED vars
    BY <1>2 DEF vars
<1>. QED
    BY <1>1, <1>2 DEF Next, agentVars, hubVars, Start, Crash, SendControl, ReceiveAnswer, Timeout,
       PersistGet, PersistUpdate, PersistFails, Lose, Receive, ApplyEffect, RecordRead,
       HandlerErrors, HandlerDies

\* An entry of the log stays where it is, and the entry added is in it.
LEMMA EntriesStay ==
    ASSUME log \in Seq(Message), NEW m \in Message, log' = Append(log, m)
    PROVE  /\ Len(log') = Len(log) + 1 /\ log'[Len(log')] = m
           /\ \A i \in 1..Len(log) : i \in 1..Len(log') /\ log'[i] = log[i]
    OBVIOUS

\* An agent waits with an "ok" after a step only when it did before, for the
\* same message, or when its message was recorded in this step.
LEMMA OkAnswers ==
    ASSUME IInv, [Next]_vars, NEW a \in Agents,
           agent'[a].pc = "wait", agent'[a].answer = "ok"
    PROVE  \/ agent[a].pc = "wait" /\ agent[a].answer = "ok" /\ agent'[a].msg = agent[a].msg
           \/ \E h \in Handlers : RecordUpdate(h) /\ agent'[a].msg = handler[h].msg
<1>0. TypeOK /\ HandlerInv
    BY DEF IInv
<1>1. CASE UNCHANGED agent
    BY <1>1
<1>2. ASSUME NEW b \in Agents, NEW r, agent' = [agent EXCEPT ![b] = r],
             r.pc = "wait" => r.answer = "none"
      PROVE  agent[a].pc = "wait" /\ agent[a].answer = "ok" /\ agent'[a].msg = agent[a].msg
    BY <1>0, <1>2 DEF TypeOK
<1>3. ASSUME NEW b \in Agents,
             \/ Start(b) \/ Crash(b) \/ SendControl(b) \/ Timeout(b) \/ ReceiveAnswer(b)
             \/ PersistGet(b) \/ PersistUpdate(b) \/ PersistFails(b)
      PROVE  agent[a].pc = "wait" /\ agent[a].answer = "ok" /\ agent'[a].msg = agent[a].msg
  <2>1. CASE ReceiveAnswer(b)
    <3>1. CASE agent[b].answer = "ok"
      BY <1>2, <2>1, <3>1 DEF ReceiveAnswer, PersistingAgent
    <3>2. CASE agent[b].answer # "ok"
      BY <1>2, <2>1, <3>2 DEF ReceiveAnswer, IdleAgent
    <3>. QED
      BY <3>1, <3>2
  <2>2. CASE Start(b) \/ Crash(b) \/ Timeout(b) \/ PersistUpdate(b) \/ PersistFails(b)
    BY <1>2, <2>2 DEF Start, Crash, Timeout, PersistUpdate, PersistFails, IdleAgent, DownAgent
  <2>3. CASE SendControl(b)
    BY <1>2, <2>3 DEF SendControl
  <2>4. CASE PersistGet(b)
    BY <1>2, <2>4 DEF PersistGet, PersistingAgent
  <2>. QED
    BY <1>3, <2>1, <2>2, <2>3, <2>4
<1>4. ASSUME NEW m \in Message, Answer(m, "error")
      PROVE  agent[a].pc = "wait" /\ agent[a].answer = "ok" /\ agent'[a].msg = agent[a].msg
    BY <1>0, <1>4, AnswerLemma DEF Answers
<1>5. ASSUME NEW h \in Handlers, NEW m \in net, Receive(h, m)
      PROVE  agent[a].pc = "wait" /\ agent[a].answer = "ok" /\ agent'[a].msg = agent[a].msg
    BY <1>0, <1>1, <1>4, <1>5 DEF Receive, TypeOK
<1>6. ASSUME NEW h \in Handlers, HandlerErrors(h)
      PROVE  agent[a].pc = "wait" /\ agent[a].answer = "ok" /\ agent'[a].msg = agent[a].msg
    BY <1>0, <1>4, <1>6 DEF HandlerErrors, HandlerInv
<1>7. ASSUME NEW h \in Handlers, RecordUpdate(h)
      PROVE  \/ agent[a].pc = "wait" /\ agent[a].answer = "ok" /\ agent'[a].msg = agent[a].msg
             \/ agent'[a].msg = handler[h].msg
  <2>1. handler[h].msg \in Message /\ Answer(handler[h].msg, "ok")
    BY <1>0, <1>7 DEF RecordUpdate, HandlerInv
  <2>. QED
    BY <1>0, <2>1, AnswerLemma DEF Answers
<1>8. CASE \/ UNCHANGED vars
           \/ \E m \in net : Lose(m)
           \/ \E h \in Handlers : ApplyEffect(h) \/ RecordRead(h) \/ HandlerDies(h)
    BY <1>1, <1>8 DEF vars, agentVars, Lose, ApplyEffect, RecordRead, HandlerDies
<1>. QED
    BY <1>3, <1>5, <1>6, <1>7, <1>8 DEF Next

\* A step keeps the acknowledgements true.
LEMMA AcknowledgedStep ==
    ASSUME IInv, AcknowledgedIsRecorded, [Next]_vars
    PROVE  AcknowledgedIsRecorded'
<1>1. SUFFICES ASSUME NEW a \in Agents, agent'[a].pc = "wait", agent'[a].answer = "ok"
               PROVE  \E i \in 1..Len(log') : log'[i] = agent'[a].msg
    BY DEF AcknowledgedIsRecorded
<1>2. log \in Seq(Message)
    BY DEF IInv, TypeOK
<1>3. ASSUME NEW i \in 1..Len(log) PROVE i \in 1..Len(log') /\ log'[i] = log[i]
    BY <1>2, LogGrows, EntriesStay
<1>4. CASE agent[a].pc = "wait" /\ agent[a].answer = "ok" /\ agent'[a].msg = agent[a].msg
    BY <1>3, <1>4 DEF AcknowledgedIsRecorded
<1>5. ASSUME NEW h \in Handlers, RecordUpdate(h), agent'[a].msg = handler[h].msg
      PROVE  \E i \in 1..Len(log') : log'[i] = agent'[a].msg
  <2>1. handler[h].msg \in Message /\ log' = Append(log, handler[h].msg)
    BY <1>5 DEF RecordUpdate, IInv, HandlerInv
  <2>2. Len(log') \in 1..Len(log') /\ log'[Len(log')] = handler[h].msg
    BY <1>2, <2>1, EntriesStay
  <2>. QED
    BY <1>5, <2>2
<1>. QED
    BY <1>1, <1>4, <1>5, OkAnswers

\* Whoever is answered 200 or 202 has its message recorded, and with
\* RecordedHasEffect its effect applied.
THEOREM AcknowledgedIsRecordedHolds == Spec => []AcknowledgedIsRecorded
<1>1. Init => AcknowledgedIsRecorded
    BY DEF Init, DownAgent, AcknowledgedIsRecorded
<1>2. IInv /\ AcknowledgedIsRecorded /\ [Next]_vars => AcknowledgedIsRecorded'
    BY AcknowledgedStep
<1>. QED
    BY <1>1, <1>2, InductiveInvariant, PTL DEF Spec

\* A handler takes up a message only when Verify finds it newer than all that
\* was recorded.
LEMMA TakesUpNewer ==
    ASSUME IInv, [Next]_vars, NEW h \in Handlers,
           handler[h].pc = "idle", handler'[h].pc # "idle"
    PROVE  \A i \in 1..Len(log) : log[i].gen < handler'[h].msg.gen
<1>0. /\ TypeOK /\ LogInv
      /\ handler \in [Handlers -> [pc : HandlerStates, msg : Message \cup {NoMessage}, rv : Nat]]
    BY DEF IInv, TypeOK
<1>1. ASSUME NEW k \in Handlers, NEW m \in net, Receive(k, m)
      PROVE  \A i \in 1..Len(log) : log[i].gen < handler'[h].msg.gen
  <2>1. k = h /\ handler'[h].msg = m /\ m.gen > identity.last
    BY <1>0, <1>1 DEF Receive, Verified
  <2>2. m.gen \in Nat /\ identity.last \in Nat
    BY <1>0, BoundsAreNaturals DEF TypeOK, Message
  <2>3. \A i \in 1..Len(log) : log[i].gen \in Nat
    <3>1. Generations \in Seq(Nat) /\ Len(Generations) = Len(log)
      BY <1>0, GenerationsType
    <3>2. \A i \in 1..Len(log) : Generations[i] \in Nat
      BY <3>1
    <3>. QED
      BY <3>2 DEF Generations
  <2>. QED
    BY <1>0, <2>1, <2>2, <2>3 DEF LogInv
<1>2. ASSUME NEW k \in Handlers,
             \/ ApplyEffect(k) \/ RecordRead(k) \/ RecordUpdate(k) \/ HandlerErrors(k)
             \/ HandlerDies(k)
      PROVE  FALSE
  <2>1. handler[k].pc # "idle" /\ handler'[h] = IF k = h THEN handler'[k] ELSE handler[h]
    BY <1>0, <1>2 DEF ApplyEffect, RecordRead, RecordUpdate, HandlerErrors, HandlerDies
  <2>. QED
    BY <2>1
<1>3. CASE \/ UNCHANGED vars
           \/ \E m \in net : Lose(m)
           \/ \E a \in Agents :
                 \/ Start(a) \/ Crash(a) \/ SendControl(a) \/ ReceiveAnswer(a)
                 \/ Timeout(a) \/ PersistGet(a) \/ PersistUpdate(a) \/ PersistFails(a)
  <2>1. UNCHANGED handler
    BY <1>3 DEF vars, hubVars, Lose, Start, Crash, SendControl, ReceiveAnswer, Timeout,
       PersistGet, PersistUpdate, PersistFails
  <2>. QED
    BY <2>1
<1>. QED
    BY <1>1, <1>2, <1>3 DEF Next

\* Once a generation is recorded, no replica takes up a message that carries it
\* or an older one.
THEOREM RecordedNotTakenUpHolds == Spec => RecordedNotTakenUp
<1>1. IInv /\ [Next]_vars =>
        [\A h \in Handlers :
            handler[h].pc = "idle" /\ handler'[h].pc # "idle" =>
                \A i \in 1..Len(log) : log[i].gen < handler'[h].msg.gen]_handler
    BY TakesUpNewer
<1>. QED
    BY <1>1, InductiveInvariant, PTL DEF Spec, RecordedNotTakenUp

\* What SequenceAdvances says of a step of the agent a.
Advances(a) ==
    agent[a].pc # "down" /\ agent'[a].pc # "down" =>
        /\ agent'[a].seq >= agent[a].seq
        /\ agent[a].pc = "idle" /\ agent'[a].pc = "wait" => agent'[a].msg.gen > agent[a].seq

\* A sequence is raised by SendControl, kept by the other steps, and lost with
\* the process.
LEMMA AdvancesStep ==
    ASSUME IInv, TypeOK', [Next]_vars, NEW a \in Agents
    PROVE  Advances(a)
<1>0. /\ TypeOK /\ HandlerInv
      /\ agent[a].seq \in Nat
      /\ agent \in [Agents -> [pc : AgentStates, seq : 0..MaxGen, msg : Message \cup {NoMessage},
                               answer : Answers, rv : Nat]]
  <2>1. TypeOK /\ HandlerInv
    BY DEF IInv
  <2>2. agent \in [Agents -> [pc : AgentStates, seq : 0..MaxGen, msg : Message \cup {NoMessage},
                             answer : Answers, rv : Nat]]
    BY <2>1 DEF TypeOK
  <2>. QED
    BY <2>1, <2>2, BoundsAreNaturals
<1>1. ASSUME agent'[a].seq = agent[a].seq,
             agent[a].pc = "idle" => agent'[a].pc # "wait"
      PROVE  Advances(a)
    BY <1>0, <1>1 DEF Advances
<1>2. ASSUME NEW b \in Agents, Start(b) \/ Crash(b) PROVE Advances(a)
  <2>1. agent[b].pc = "down" \/ agent'[b].pc = "down"
    BY <1>0, <1>2 DEF Start, Crash, DownAgent
  <2>2. a = b \/ agent'[a] = agent[a]
    BY <1>0, <1>2 DEF Start, Crash
  <2>. QED
    BY <1>0, <1>1, <2>1, <2>2 DEF Advances
<1>3. ASSUME NEW b \in Agents, SendControl(b) PROVE Advances(a)
    BY <1>0, <1>3 DEF SendControl, Advances
<1>4. ASSUME NEW b \in Agents, agent'[b].seq = agent[b].seq, agent'[b].pc # "wait",
             \A c \in Agents : c # b => agent'[c] = agent[c]
      PROVE  Advances(a)
    BY <1>1, <1>4
<1>5. ASSUME NEW b \in Agents,
             \/ ReceiveAnswer(b) \/ Timeout(b) \/ PersistGet(b) \/ PersistUpdate(b)
             \/ PersistFails(b)
      PROVE  Advances(a)
  <2>0. secret.rv \in Nat
    BY <1>0 DEF TypeOK
  <2>1. PICK pc \in AgentStates, rv \in Nat :
           /\ pc # "wait"
           /\ \/ agent' = [agent EXCEPT ![b] = PersistingAgent(agent[b].seq, pc, rv)]
              \/ agent' = [agent EXCEPT ![b] = IdleAgent(agent[b].seq)]
    BY <1>5, <2>0 DEF ReceiveAnswer, Timeout, PersistGet, PersistUpdate, PersistFails, AgentStates
  <2>2. agent'[b].seq = agent[b].seq /\ agent'[b].pc # "wait"
    BY <1>0, <2>1 DEF PersistingAgent, IdleAgent
  <2>3. \A c \in Agents : c # b => agent'[c] = agent[c]
    BY <1>0, <2>1
  <2>. QED
    BY <1>4, <2>2, <2>3
<1>6. ASSUME NEW m \in Message, NEW status \in {"ok", "error"}, Answer(m, status)
      PROVE  Advances(a)
    BY <1>0, <1>1, <1>6, AnswerLemma DEF Answers
<1>7. CASE UNCHANGED agent
    BY <1>1, <1>7
<1>8. ASSUME NEW h \in Handlers,
             \/ \E m \in net : Receive(h, m)
             \/ RecordUpdate(h) \/ HandlerErrors(h)
      PROVE  Advances(a)
  <2>1. ASSUME NEW m \in net, Receive(h, m) PROVE Advances(a)
    <3>1. m \in Message
      BY <1>0, <2>1 DEF TypeOK
    <3>2. UNCHANGED agent \/ Answer(m, "error")
      BY <2>1 DEF Receive
    <3>. QED
      BY <1>6, <1>7, <3>1, <3>2
  <2>2. CASE RecordUpdate(h) \/ HandlerErrors(h)
    <3>1. handler[h].pc # "idle"
      BY <2>2 DEF RecordUpdate, HandlerErrors
    <3>2. handler[h].msg \in Message
      BY <1>0, <3>1 DEF HandlerInv
    <3>3. Answer(handler[h].msg, "ok") \/ Answer(handler[h].msg, "error")
      BY <2>2 DEF RecordUpdate, HandlerErrors
    <3>. QED
      BY <1>6, <3>2, <3>3
  <2>. QED
    BY <1>8, <2>1, <2>2
<1>9. CASE \/ UNCHANGED vars
           \/ \E m \in net : Lose(m)
           \/ \E h \in Handlers : ApplyEffect(h) \/ RecordRead(h) \/ HandlerDies(h)
    BY <1>7, <1>9 DEF vars, agentVars, Lose, ApplyEffect, RecordRead, HandlerDies
<1>. QED
    BY <1>2, <1>3, <1>5, <1>8, <1>9 DEF Next

\* The sequence of a running agent never goes back: the safety part of why it
\* catches up with the Hub.
THEOREM SequenceAdvancesHolds == Spec => SequenceAdvances
<1>1. IInv /\ IInv' /\ [Next]_vars =>
        [\A a \in Agents :
            agent[a].pc # "down" /\ agent'[a].pc # "down" =>
                /\ agent'[a].seq >= agent[a].seq
                /\ agent[a].pc = "idle" /\ agent'[a].pc = "wait"
                      => agent'[a].msg.gen > agent[a].seq]_agent
    BY AdvancesStep DEF Advances, IInv
<1>. QED
    BY <1>1, InductiveInvariant, PTL DEF Spec, SequenceAdvances
==============================================================================
