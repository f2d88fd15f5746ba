---------------------------- MODULE ControlChannel ----------------------------
(***************************************************************************)
(* The signed control channel from the agent of one cluster to the Hub:    *)
(*                                                                         *)
(*  - agent processes (a rolling update overlaps two of them) number their *)
(*    messages from an in-memory sequence, persist it as an annotation of  *)
(*    the identity Secret only after a 2xx answer, and reload it on start  *)
(*    (cmd/agent/main.go);                                                 *)
(*  - the network loses, delays, reorders and redelivers requests;         *)
(*  - request handlers of all hub replicas run concurrently, each one a    *)
(*    sequence of API-server calls: read the last generation and verify,   *)
(*    apply the message's effect, then read, compare and write the         *)
(*    generation with optimistic concurrency (sovereign_server.go,         *)
(*    KubernetesSovereignStore in sovereign_store.go).                     *)
(*                                                                         *)
(* A message is [id, gen]: `id` tells apart two messages that carry the    *)
(* same generation (a restarted or an overlapping agent reuses numbers).   *)
(* Signature, audience and issuer checks pass for every message here; what *)
(* a message's effect does to the Hub is abstracted to its having been     *)
(* applied.                                                                *)
(***************************************************************************)
EXTENDS Naturals, Sequences

CONSTANTS
    Agents,     \* agent processes that may run at the same time
    Handlers,   \* concurrent control-message handlers, all replicas together
    MaxGen,     \* bound: highest generation an agent may reach
    MaxSends,   \* bound: number of messages ever sent
    MaxStarts   \* bound: number of times an agent process starts

ASSUME BoundsAreNaturals == MaxGen \in Nat /\ MaxSends \in Nat /\ MaxStarts \in Nat

VARIABLES
    agent,      \* agent[a]: program counter, a.sequence, message, answer, rv
    secret,     \* identity Secret: generation annotation and resourceVersion
    starts,     \* number of agent processes started so far
    sent,       \* number of messages sent so far
    net,        \* requests on the wire
    handler,    \* handler[h]: program counter, message, rv read
    identity,   \* ClusterIdentity status: lastGeneration and resourceVersion
    applied,    \* messages whose effect was applied (history)
    log         \* messages acknowledged, in the order recorded (history)

vars == <<agent, secret, starts, sent, net, handler, identity, applied, log>>
agentVars == <<agent, secret, starts, sent>>
hubVars == <<handler, identity, applied, log>>

Message == [id : 1..MaxSends, gen : 1..MaxGen]
NoMessage == [id |-> 0, gen |-> 0]

AgentStates == {"down", "idle", "wait", "get", "update"}
Answers == {"none", "ok", "error"}
HandlerStates == {"idle", "effect", "record", "update"}

DownAgent == [pc |-> "down", seq |-> 0, msg |-> NoMessage, answer |-> "none", rv |-> 0]
IdleAgent(seq) == [pc |-> "idle", seq |-> seq, msg |-> NoMessage, answer |-> "none", rv |-> 0]
PersistingAgent(seq, pc, rv) == [pc |-> pc, seq |-> seq, msg |-> NoMessage, answer |-> "none", rv |-> rv]
IdleHandler == [pc |-> "idle", msg |-> NoMessage, rv |-> 0]

Init ==
    /\ agent = [a \in Agents |-> DownAgent]
    /\ secret = [gen |-> 0, rv |-> 0]
    /\ starts = 0
    /\ sent = 0
    /\ net = {}
    /\ handler = [h \in Handlers |-> IdleHandler]
    /\ identity = [last |-> 0, rv |-> 0]
    /\ applied = {}
    /\ log = << >>

------------------------------------------------------------------------------
(* The agent.                                                              *)

\* loadIdentity: the sequence continues from the persisted annotation.
Start(a) ==
    /\ agent[a].pc = "down"
    /\ starts < MaxStarts
    /\ starts' = starts + 1
    /\ agent' = [agent EXCEPT ![a] = IdleAgent(secret.gen)]
    /\ UNCHANGED <<secret, sent, net, hubVars>>

\* The process stops between any two steps and forgets its memory.
Crash(a) ==
    /\ agent[a].pc # "down"
    /\ agent' = [agent EXCEPT ![a] = DownAgent]
    /\ UNCHANGED <<secret, starts, sent, net, hubVars>>

\* sendControlResponse up to the POST: the sequence advances whatever follows.
SendControl(a) ==
    /\ agent[a].pc = "idle"
    /\ agent[a].seq < MaxGen /\ sent < MaxSends
    /\ LET m == [id |-> sent + 1, gen |-> agent[a].seq + 1]
       IN /\ agent' = [agent EXCEPT ![a] = [pc |-> "wait", seq |-> m.gen, msg |-> m,
                                            answer |-> "none", rv |-> 0]]
          /\ net' = net \cup {m}
    /\ sent' = sent + 1
    /\ UNCHANGED <<secret, starts, hubVars>>

\* Defect variant: the sequence is given back when the Hub refuses a message.
ReceiveAnswerRollback(a) ==
    /\ agent[a].pc = "wait" /\ agent[a].answer # "none"
    /\ agent' = [agent EXCEPT ![a] = IF @.answer = "ok"
                                     THEN PersistingAgent(@.seq, "get", 0)
                                     ELSE IdleAgent(@.seq - 1)]
    /\ UNCHANGED <<secret, starts, sent, net, hubVars>>

\* Defect variant: the sequence is persisted whatever the Hub answered.
ReceiveAnswerAnyStatus(a) ==
    /\ agent[a].pc = "wait" /\ agent[a].answer # "none"
    /\ agent' = [agent EXCEPT ![a] = PersistingAgent(@.seq, "get", 0)]
    /\ UNCHANGED <<secret, starts, sent, net, hubVars>>

\* 200 or 202 goes on to persist the sequence, any other status is an error.
ReceiveAnswer(a) ==
    /\ agent[a].pc = "wait" /\ agent[a].answer # "none"
    /\ agent' = [agent EXCEPT ![a] = IF @.answer = "ok"
                                     THEN PersistingAgent(@.seq, "get", 0)
                                     ELSE IdleAgent(@.seq)]
    /\ UNCHANGED <<secret, starts, sent, net, hubVars>>

\* The client's ten seconds are over, or the connection broke; the request
\* itself may still be on the wire or in a handler.
Timeout(a) ==
    /\ agent[a].pc = "wait"
    /\ agent' = [agent EXCEPT ![a] = IdleAgent(@.seq)]
    /\ UNCHANGED <<secret, starts, sent, net, hubVars>>

PersistGet(a) ==
    /\ agent[a].pc = "get"
    /\ agent' = [agent EXCEPT ![a] = PersistingAgent(@.seq, "update", secret.rv)]
    /\ UNCHANGED <<secret, starts, sent, net, hubVars>>

\* Defect variant: the next sequence to use is written instead of the last used.
PersistUpdateNext(a) ==
    /\ agent[a].pc = "update"
    /\ agent[a].rv = secret.rv
    /\ secret' = [gen |-> agent[a].seq + 1, rv |-> secret.rv + 1]
    /\ agent' = [agent EXCEPT ![a] = IdleAgent(@.seq)]
    /\ UNCHANGED <<starts, sent, net, hubVars>>

\* The Secret is replaced only if nobody wrote it since PersistGet.
PersistUpdate(a) ==
    /\ agent[a].pc = "update"
    /\ agent[a].rv = secret.rv
    /\ secret' = [gen |-> agent[a].seq, rv |-> secret.rv + 1]
    /\ agent' = [agent EXCEPT ![a] = IdleAgent(@.seq)]
    /\ UNCHANGED <<starts, sent, net, hubVars>>

\* Get or Update fails: an API error, or a conflict with the other agent or
\* with a certificate rotation. The error is only logged.
PersistFails(a) ==
    /\ agent[a].pc \in {"get", "update"}
    /\ agent' = [agent EXCEPT ![a] = IdleAgent(@.seq)]
    /\ UNCHANGED <<secret, starts, sent, net, hubVars>>

------------------------------------------------------------------------------
(* The network and the Hub.                                                *)

Lose(m) ==
    /\ net' = net \ {m}
    /\ UNCHANGED <<agentVars, hubVars>>

\* The answer reaches the agent that is still waiting for this message.
Answer(m, status) ==
    agent' = [a \in Agents |->
                IF /\ agent[a].pc = "wait"
                   /\ agent[a].msg = m
                   /\ agent[a].answer = "none"
                THEN [agent[a] EXCEPT !.answer = status]
                ELSE agent[a]]

\* Verify's replay check against the last generation a handler has read.
Verified(m, last) == m.gen > last

\* Identity, LastGeneration and Verify. The request stays on the wire when a
\* proxy delivers it again. It is refused as a replay, or as expired.
Receive(h, m) ==
    /\ handler[h].pc = "idle"
    /\ net' \in {net, net \ {m}}
    /\ \/ /\ Verified(m, identity.last)
          /\ handler' = [handler EXCEPT ![h] = [pc |-> "effect", msg |-> m, rv |-> 0]]
          /\ UNCHANGED agent
       \/ /\ Answer(m, "error")
          /\ UNCHANGED handler
    /\ UNCHANGED <<secret, starts, sent, identity, applied, log>>

\* Defect variant: a failing effect is ignored and the generation recorded.
ApplyEffectBestEffort(h) ==
    /\ handler[h].pc = "effect"
    /\ applied' \in {applied, applied \cup {handler[h].msg}}
    /\ handler' = [handler EXCEPT ![h].pc = "record"]
    /\ UNCHANGED <<agentVars, net, identity, log>>

\* ConfirmPeerBundle, ObserveLink, SyncAdvertisements, PendingGrants or
\* FulfillGrant, by the message's type; a heartbeat has no effect.
ApplyEffect(h) ==
    /\ handler[h].pc = "effect"
    /\ applied' = applied \cup {handler[h].msg}
    /\ handler' = [handler EXCEPT ![h].pc = "record"]
    /\ UNCHANGED <<agentVars, net, identity, log>>

\* RecordGeneration reads the ClusterIdentity and goes on to write a newer
\* generation.
RecordRead(h) ==
    /\ handler[h].pc = "record"
    /\ Verified(handler[h].msg, identity.last)
    /\ handler' = [handler EXCEPT ![h] = [pc |-> "update", msg |-> @.msg, rv |-> identity.rv]]
    /\ UNCHANGED <<agentVars, net, identity, applied, log>>

\* Defect variant: the status is written without the resourceVersion read.
RecordUpdateBlind(h) ==
    /\ handler[h].pc = "update"
    /\ identity' = [last |-> handler[h].msg.gen, rv |-> identity.rv + 1]
    /\ log' = Append(log, handler[h].msg)
    /\ Answer(handler[h].msg, "ok")
    /\ handler' = [handler EXCEPT ![h] = IdleHandler]
    /\ UNCHANGED <<secret, starts, sent, net, applied>>

\* UpdateStatus succeeds only on the resourceVersion that was read; then the
\* handler answers 200 or 202.
RecordUpdate(h) ==
    /\ handler[h].pc = "update"
    /\ handler[h].rv = identity.rv
    /\ identity' = [last |-> handler[h].msg.gen, rv |-> identity.rv + 1]
    /\ log' = Append(log, handler[h].msg)
    /\ Answer(handler[h].msg, "ok")
    /\ handler' = [handler EXCEPT ![h] = IdleHandler]
    /\ UNCHANGED <<secret, starts, sent, net, applied>>

\* A refused effect (403), a replay or a conflict seen by RecordGeneration
\* (409), or a failing API call, at any step.
HandlerErrors(h) ==
    /\ handler[h].pc # "idle"
    /\ Answer(handler[h].msg, "error")
    /\ handler' = [handler EXCEPT ![h] = IdleHandler]
    /\ UNCHANGED <<secret, starts, sent, net, identity, applied, log>>

\* The replica stops; the request is gone without an answer.
HandlerDies(h) ==
    /\ handler[h].pc # "idle"
    /\ handler' = [handler EXCEPT ![h] = IdleHandler]
    /\ UNCHANGED <<agentVars, net, identity, applied, log>>

Next ==
    \/ \E a \in Agents :
          \/ Start(a) \/ Crash(a) \/ SendControl(a) \/ ReceiveAnswer(a)
          \/ Timeout(a) \/ PersistGet(a) \/ PersistUpdate(a) \/ PersistFails(a)
    \/ \E m \in net : Lose(m)
    \/ \E h \in Handlers :
          \/ \E m \in net : Receive(h, m)
          \/ ApplyEffect(h) \/ RecordRead(h) \/ RecordUpdate(h)
          \/ HandlerErrors(h) \/ HandlerDies(h)

Spec == Init /\ [][Next]_vars

\* A running agent keeps executing its loop: a call returns, fails or times
\* out, and the 15-second ticker starts the next round. Nothing is assumed of
\* the network or of the Hub.
FairSpec ==
    /\ Spec
    /\ \A a \in Agents : /\ WF_vars(SendControl(a))
                         /\ WF_vars(ReceiveAnswer(a) \/ Timeout(a))
                         /\ WF_vars(PersistGet(a) \/ PersistUpdate(a) \/ PersistFails(a))

------------------------------------------------------------------------------
(* Properties.                                                             *)

\* Every variable keeps its shape, and no counter passes its bound.
TypeOK ==
    /\ agent \in [Agents -> [pc : AgentStates, seq : 0..MaxGen,
                             msg : Message \cup {NoMessage}, answer : Answers, rv : Nat]]
    /\ secret \in [gen : 0..MaxGen, rv : Nat]
    /\ starts \in 0..MaxStarts
    /\ sent \in 0..MaxSends
    /\ net \subseteq Message
    /\ handler \in [Handlers -> [pc : HandlerStates, msg : Message \cup {NoMessage}, rv : Nat]]
    /\ identity \in [last : 0..MaxGen, rv : Nat]
    /\ applied \subseteq Message
    /\ log \in Seq(Message)

\* The annotation an agent restarts from is never ahead of the generation the
\* Hub has recorded: persisting after the 2xx means a restart can only repeat
\* generations, never skip ahead of what the Hub saw, even when two agents
\* write the Secret in turns.
PersistedBehindHub == secret.gen <= identity.last

\* controlMessage applies the effect before RecordGeneration: whatever replica
\* dies or call fails in between, a generation the Hub has recorded, which the
\* agent will therefore never be able to send again, has had its effect.
RecordedHasEffect == \A i \in 1..Len(log) : log[i] \in applied

\* Replay protection across replicas: the acknowledged generations form the
\* strictly increasing, append-only log of GenerationLog. No generation is
\* acknowledged twice, and lastGeneration never goes back, although two
\* handlers read, check and write it in separate API calls.
Guard == INSTANCE GenerationLog WITH accepted <- [i \in 1..Len(log) |-> log[i].gen]
RefinesGenerationLog == Guard!Spec

\* An agent that was answered 200 or 202 can rely on it: the message it waits
\* for, and not another one with the same generation, is in the log, although
\* answers of redelivered and refused copies are on their way, too.
AcknowledgedIsRecorded ==
    \A a \in Agents : agent[a].pc = "wait" /\ agent[a].answer = "ok" =>
        \E i \in 1..Len(log) : log[i] = agent[a].msg

\* A message the Hub has recorded, or that is older than one it has recorded,
\* is never taken up again: only handlers that took it up before can still
\* apply its effect, on whatever replica a redelivered copy arrives.
RecordedNotTakenUp ==
    [][\A h \in Handlers :
          handler[h].pc = "idle" /\ handler'[h].pc # "idle" =>
              \A i \in 1..Len(log) : log[i].gen < handler'[h].msg.gen]_handler

\* While an agent process runs, its sequence does not go back, whatever the
\* Hub answers, and every message it sends has a generation it never sent before.
SequenceAdvances ==
    [][\A a \in Agents :
          agent[a].pc # "down" /\ agent'[a].pc # "down" =>
              /\ agent'[a].seq >= agent[a].seq
              /\ agent[a].pc = "idle" /\ agent'[a].pc = "wait"
                    => agent'[a].msg.gen > agent[a].seq]_agent

\* After a restart from an annotation behind the Hub (lost answers, failed
\* persists) every message is refused as a replay until the agent's sequence
\* has caught up. It does catch up, because sendControlResponse advances the
\* sequence on failures too, whatever the network and the Hub do; or the
\* process stops. (MaxSends >= MaxStarts * MaxGen, so that bound never stops it.)
CatchesUp ==
    \A a \in Agents :
        (agent[a].pc # "down" /\ agent[a].seq < identity.last)
            ~> (agent[a].seq >= identity.last \/ agent[a].pc = "down")
==============================================================================
