---------------------------- MODULE GatewaySessions ----------------------------
(***************************************************************************)
(* The QUIC connections between the gateways of two peers, the dialer and  *)
(* the listener (cmd/gateway/main.go):                                     *)
(*                                                                         *)
(*  - the dialer maintains one session: it dials, handles the connection   *)
(*    until it closes, and dials again (maintainSession);                  *)
(*  - the listener handles every connection it accepts (serveQUIC), be it  *)
(*    a session, a connection an import dialed for itself, or the probe of *)
(*    an agent, which closes it at once;                                   *)
(*  - a gateway registers a connection while it handles it, and an import  *)
(*    opens a stream on the oldest connection registered (proxyImport), or *)
(*    dials the fallback endpoint when there is none.                      *)
(*                                                                         *)
(* A connection has two ends that live and close on their own: an end      *)
(* learns that the other one is gone, or that the network is, some time    *)
(* later, and its handler returns later still. TLS, certificates and       *)
(* routes are left out: the two gateways accept each other, and a stream   *)
(* that the peer refuses (see Advertisements) ends like any other.         *)
(* The library quic-go is modelled by how its connections are used here.   *)
(***************************************************************************)
EXTENDS Naturals, SequencesExt

CONSTANTS
    SessionConns,   \* connections that maintainSession dials
    ImportConns,    \* connections that imports dial: the fallback endpoint, if any
    ProbeConns,     \* connections that the dialer's agent dials to probe the listener
    NoConn,
    Deployments,    \* which sides have an import route, and whether there is a Link;
                    \* bound: the connections a deployment has for its session
    MaxFailures     \* bound: refusals, restarts, impatient clients, and the heartbeats
                    \* and streams that fail although streams are left

Sides == {"dialer", "listener"}
Conns == SessionConns \cup ImportConns \cup ProbeConns

ASSUME ConnectionsAssumption ==
    /\ SessionConns \cap ImportConns = {}
    /\ SessionConns \cap ProbeConns = {}
    /\ ImportConns \cap ProbeConns = {}
    /\ NoConn \notin Conns
    /\ Deployments \subseteq [imports : SUBSET Sides, linked : BOOLEAN,
                               sessions : SUBSET SessionConns]
    /\ MaxFailures \in Nat

VARIABLES
    deployment,     \* the deployment at hand
    up,             \* the network carries packets between the gateways
    end,            \* end[c][s]: the end of connection c at side s
    registry,       \* registry[s]: the connections registered, the oldest first
    session,        \* the connection maintainSession handles, or NoConn: it dials
    import,         \* import[s]: one client connection of an import at side s
    failures

sessionVars == <<deployment, up, end, registry, session, import, failures>>

Other(s) == IF s = "dialer" THEN "listener" ELSE "dialer"

NoEnds == [dialer |-> "none", listener |-> "none"]

\* A handshake that the dialer has completed: the listener has yet to accept.
Dialed == [dialer |-> "open", listener |-> "pending"]

IdleImport == [pc |-> "idle", conn |-> NoConn]

SessionInit ==
    /\ deployment \in Deployments
    /\ up \in BOOLEAN
    /\ end = [c \in Conns |-> NoEnds]
    /\ registry = [s \in Sides |-> <<>>]
    /\ session = NoConn
    /\ import = [s \in Sides |-> IdleImport]
    /\ failures = 0

\* Names of connections are used again once nothing refers to them.
Free(c) == end[c] = NoEnds /\ \A s \in Sides : import[s].conn # c

Registered(s) == {registry[s][i] : i \in DOMAIN registry[s]}

\* Defect variant: the dialer only sends heartbeats on its session.
HandledAtListener(c, s) == s = "listener"

\* handleConnection runs for this end: it registers it and accepts streams.
Handled(c, s) == s = "listener" \/ c \in SessionConns

\* Defect variant: the newest connection comes first.
PutNewestFirst(s, c) == [registry EXCEPT ![s] = <<c>> \o @]

Put(s, c) == [registry EXCEPT ![s] = Append(@, c)]

\* Defect variant: all connections of the peer are forgotten.
ForgetPeer(s, c) == [registry EXCEPT ![s] = <<>>]

\* Nothing happens when the connection was removed before.
Forget(s, c) == [registry EXCEPT ![s] = RemoveFirst(@, c)]

Fail == failures < MaxFailures /\ failures' = failures + 1

\* Both gateways hold the connection open.
Live(c) == \A s \in Sides : end[c][s] = "open"

\* The session has no stream left for the dialer: each heartbeat takes one for
\* good, because handleExport returns without reading it to its end, and QUIC
\* grants a hundred. A hundred heartbeats take a quarter of an hour: by then the
\* sessions and probes before this one are gone, and no import waits on one. (A
\* probe under way at that very moment is left to the bounded failures.)
StreamsUsedUp(c) ==
    /\ c \in SessionConns /\ Live(c)
    /\ \A d \in (SessionConns \cup ProbeConns) \ {c} : Free(d)

------------------------------------------------------------------------------
(* Connections.                                                            *)

\* maintainSession dials, registers the connection and goes on to handle it.
DialSession(c) ==
    /\ session = NoConn
    /\ c \in deployment.sessions /\ Free(c) /\ up
    /\ end' = [end EXCEPT ![c] = Dialed]
    /\ registry' = Put("dialer", c)
    /\ session' = c
    /\ UNCHANGED <<deployment, up, import, failures>>

\* The agent's probe: it is closed as soon as the handshake is done.
ProbeDial(c) ==
    /\ deployment.linked
    /\ c \in ProbeConns /\ Free(c) /\ up
    /\ end' = [end EXCEPT ![c].listener = "pending"]
    /\ UNCHANGED <<deployment, up, registry, session, import, failures>>

\* serveQUIC accepts the next connection, handleConnection registers it.
Accept(c) ==
    /\ end[c].listener = "pending"
    /\ end' = [end EXCEPT ![c].listener = "open"]
    /\ registry' = Put("listener", c)
    /\ UNCHANGED <<deployment, up, session, import, failures>>

\* The end of the handshake does not reach the listener, or it refuses the
\* dialer's certificate.
Refuse(c) ==
    /\ end[c].listener = "pending"
    /\ IF up THEN Fail ELSE UNCHANGED failures
    /\ end' = [end EXCEPT ![c].listener = "none"]
    /\ UNCHANGED <<deployment, up, registry, session, import>>

\* An end learns that the other end is closed, or hears nothing for too long.
EndCloses(c, s) ==
    /\ end[c][s] = "open"
    /\ ~up \/ end[c][Other(s)] \in {"closed", "none"}
    /\ end' = [end EXCEPT ![c][s] = "closed"]
    /\ UNCHANGED <<deployment, up, registry, session, import, failures>>

\* The dialer closes a session when it gets no stream for a heartbeat, again
\* and again as streams are used up, or when one is not acknowledged in time.
HeartbeatFails(c) ==
    /\ c \in SessionConns
    /\ end[c].dialer = "open"
    /\ IF StreamsUsedUp(c) THEN UNCHANGED failures ELSE Fail
    /\ end' = [end EXCEPT ![c].dialer = "closed"]
    /\ UNCHANGED <<deployment, up, registry, session, import>>

\* Defect variant: the connection stays registered.
HandlerReturnsRegistered(c, s) ==
    /\ end[c][s] = "closed"
    /\ Handled(c, s)
    /\ end' = [end EXCEPT ![c][s] = "none"]
    /\ session' = IF s = "dialer" THEN NoConn ELSE session
    /\ UNCHANGED <<deployment, up, registry, import, failures>>

\* AcceptStream fails on a closed connection, and handleConnection returns.
HandlerReturns(c, s) ==
    /\ end[c][s] = "closed"
    /\ Handled(c, s)
    /\ end' = [end EXCEPT ![c][s] = "none"]
    /\ registry' = Forget(s, c)
    /\ session' = IF s = "dialer" THEN NoConn ELSE session
    /\ UNCHANGED <<deployment, up, import, failures>>

\* A gateway stops and starts again. Its peer is not told.
Restart(s) ==
    /\ Fail
    /\ end' = [c \in Conns |-> [end[c] EXCEPT ![s] = "none"]]
    /\ registry' = [registry EXCEPT ![s] = <<>>]
    /\ session' = IF s = "dialer" THEN NoConn ELSE session
    /\ import' = [import EXCEPT ![s] = IdleImport]
    /\ UNCHANGED <<deployment, up>>

NetworkChanges ==
    /\ up' = ~up
    /\ UNCHANGED <<deployment, end, registry, session, import, failures>>

------------------------------------------------------------------------------
(* Imports: proxyImport, for one client connection at a time.              *)

\* A client is there, and a connection is registered.
ImportChoose(s) ==
    /\ s \in deployment.imports
    /\ import[s].pc = "idle"
    /\ registry[s] # <<>>
    /\ import' = [import EXCEPT ![s] = [pc |-> "open", conn |-> Head(registry[s])]]
    /\ UNCHANGED <<deployment, up, end, registry, session, failures>>

\* No connection is registered: the fallback endpoint is dialed. Without one
\* the client is closed, and nothing changes.
ImportDial(c) ==
    /\ "dialer" \in deployment.imports
    /\ import["dialer"].pc = "idle"
    /\ registry["dialer"] = <<>>
    /\ c \in ImportConns /\ Free(c) /\ up
    /\ end' = [end EXCEPT ![c] = Dialed]
    /\ import' = [import EXCEPT !["dialer"] = [pc |-> "open", conn |-> c]]
    /\ UNCHANGED <<deployment, up, registry, session, failures>>

\* The connections that imports have dialed are theirs to close.
Owns(s) == s = "dialer" /\ import[s].conn \in ImportConns

\* OpenStreamSync waits for the peer only when its limit is reached. The
\* identity frame is written without waiting for an answer.
OpenStream(s) ==
    /\ import[s].pc = "open"
    /\ end[import[s].conn][s] = "open"
    /\ import' = [import EXCEPT ![s].pc = "sent"]
    /\ UNCHANGED <<deployment, up, end, registry, session, failures>>

\* Defect variant: the connection is only taken out of the registry.
OpenFailsForgets(s) ==
    /\ import[s].pc = "open"
    /\ IF end[import[s].conn][s] = "open" /\ ~(s = "dialer" /\ StreamsUsedUp(import[s].conn))
       THEN Fail ELSE UNCHANGED failures
    /\ end' = [end EXCEPT ![import[s].conn][s] = IF Owns(s) THEN "none" ELSE @]
    /\ registry' = Forget(s, import[s].conn)
    /\ import' = [import EXCEPT ![s] = IdleImport]
    /\ UNCHANGED <<deployment, up, session>>

\* The connection is closed already, or no stream is to be had within five
\* seconds: the connection is closed and taken out of the registry.
OpenFails(s) ==
    /\ import[s].pc = "open"
    /\ IF end[import[s].conn][s] = "open" /\ ~(s = "dialer" /\ StreamsUsedUp(import[s].conn))
       THEN Fail ELSE UNCHANGED failures
    /\ end' = [end EXCEPT ![import[s].conn][s] =
                 CASE Owns(s)                   -> "none"
                   [] ~Owns(s) /\ @ = "open"    -> "closed"
                   [] OTHER                     -> @]
    /\ registry' = Forget(s, import[s].conn)
    /\ import' = [import EXCEPT ![s] = IdleImport]
    /\ UNCHANGED <<deployment, up, session>>

\* The peer's handleConnection accepts the stream and handleExport serves it.
\* The dialer accepts streams on its session only, not on what imports dialed.
StreamAccepted(s) ==
    /\ import[s].pc = "sent"
    /\ up
    /\ end[import[s].conn][s] = "open"
    /\ end[import[s].conn][Other(s)] = "open"
    /\ Handled(import[s].conn, Other(s))
    /\ import' = [import EXCEPT ![s].pc = "served"]
    /\ UNCHANGED <<deployment, up, end, registry, session, failures>>

Broken(s) == import[s].pc \in {"sent", "served"} /\ end[import[s].conn][s] # "open"

\* Defect variant: a connection dialed for the import stays open.
ImportEndsOpen(s) ==
    /\ import[s].pc \in {"sent", "served"}
    /\ IF import[s].pc = "sent" /\ ~Broken(s) THEN Fail ELSE UNCHANGED failures
    /\ import' = [import EXCEPT ![s] = IdleImport]
    /\ UNCHANGED <<deployment, up, end, registry, session>>

\* The client, the peer or the end of the connection ends the stream; a client
\* may also give up while it waits to be served.
ImportEnds(s) ==
    /\ import[s].pc \in {"sent", "served"}
    /\ IF import[s].pc = "sent" /\ ~Broken(s) THEN Fail ELSE UNCHANGED failures
    /\ end' = IF Owns(s) THEN [end EXCEPT ![import[s].conn][s] = "none"] ELSE end
    /\ import' = [import EXCEPT ![s] = IdleImport]
    /\ UNCHANGED <<deployment, up, registry, session>>

\* A call of the agent or the Hub fails (see Links): only the bound is used up.
CallFails == Fail /\ UNCHANGED <<deployment, up, end, registry, session, import>>

SessionStep ==
    \/ \E c \in Conns :
          \/ DialSession(c) \/ Accept(c) \/ Refuse(c) \/ HeartbeatFails(c) \/ ImportDial(c)
          \/ \E s \in Sides : EndCloses(c, s) \/ HandlerReturns(c, s)
    \/ \E s \in Sides :
          \/ ImportChoose(s) \/ OpenStream(s) \/ OpenFails(s) \/ StreamAccepted(s)
          \/ ImportEnds(s) \/ Restart(s)
    \/ NetworkChanges

SessionNext == SessionStep \/ (\E c \in Conns : ProbeDial(c)) \/ CallFails

SessionSpec == SessionInit /\ [][SessionNext]_sessionVars

\* maintainSession dials again and again, handlers and imports run, QUIC
\* delivers what the network carries and notices what it does not.
SessionFairness ==
    /\ WF_sessionVars(\E c \in Conns : DialSession(c))
    /\ \A c \in Conns :
          /\ WF_sessionVars(Accept(c) \/ Refuse(c))
          /\ \A s \in Sides : WF_sessionVars(EndCloses(c, s)) /\ WF_sessionVars(HandlerReturns(c, s))
    /\ \A s \in Sides :
          /\ WF_sessionVars(OpenStream(s) \/ OpenFails(s))
          /\ WF_sessionVars(StreamAccepted(s))
          /\ WF_sessionVars(Broken(s) /\ ImportEnds(s))

\* A stream is opened and accepted within a round trip, a session lasts for
\* minutes: its end does not get ahead of the stream every time.
StreamFairness ==
    \A s \in Sides :
        /\ SF_sessionVars(OpenStream(s) /\ Live(import[s].conn))
        /\ SF_sessionVars(StreamAccepted(s))

FairSessionSpec == SessionSpec /\ SessionFairness /\ StreamFairness

------------------------------------------------------------------------------
(* Properties.                                                             *)

EndStates == [dialer : {"none", "open", "closed"},
              listener : {"none", "pending", "open", "closed"}]

\* Every variable keeps its shape, and the bound is kept.
SessionTypeOK ==
    /\ deployment \in Deployments
    /\ up \in BOOLEAN
    /\ end \in [Conns -> EndStates]
    /\ registry \in [Sides -> Seq(Conns)]
    /\ session \in SessionConns \cup {NoConn}
    /\ import \in [Sides -> [pc : {"idle", "open", "sent", "served"}, conn : Conns \cup {NoConn}]]
    /\ failures \in 0..MaxFailures

\* A gateway's registry has every open connection it handles, and no
\* connection that it does not handle any more, each once: handlers that
\* return late, imports that give up on a connection and restarts lose no
\* session and leave no dead one behind.
RegistryExact ==
    \A s \in Sides :
        /\ IsInjective(registry[s])
        /\ \A c \in Conns :
              /\ c \in Registered(s) => Handled(c, s) /\ end[c][s] \in {"open", "closed"}
              /\ Handled(c, s) /\ end[c][s] = "open" => c \in Registered(s)

\* The connection that imports use is not displaced as long as it is open:
\* neither a probe, nor a connection an import dialed, nor the end of one of
\* these, takes the place of the session.
OldestKept ==
    [][\A s \in Sides :
          LET c == Head(registry[s]) IN
          registry[s] # <<>> /\ end[c][s] = "open" /\ end'[c][s] = "open"
            => registry'[s] # <<>> /\ Head(registry'[s]) = c]_sessionVars

\* Every connection that lives at the dialer's gateway has an owner that will
\* close it: the session the loop that handles it, which handles one at a time,
\* a fallback connection the import that dialed it; and a probe leaves none
\* behind. So no import, client or restart leaks a connection, and imports at
\* the dialer find its session or nothing registered.
ConnectionsOwned ==
    /\ \A c \in SessionConns : end[c].dialer # "none" <=> session = c
    /\ \A c \in ImportConns : end[c].dialer # "none" <=> import["dialer"].conn = c
    /\ \A c \in ProbeConns : end[c].dialer = "none"
    /\ Registered("dialer") \subseteq {session}

\* When the network stays up, both gateways of a deployment with a session have
\* one that is open and registered at both, again and again: the dialer's
\* heartbeats use up the streams of each, and it is closed and dialed anew.
SessionRestored ==
    <>[](up /\ deployment.sessions # {})
        => []<>(session # NoConn /\ Live(session) /\ \A s \in Sides : session \in Registered(s))

\* When the network stays down, both gateways forget every connection, so
\* that /readyz says that there is no session.
DeadSessionNoticed == <>[]~up => <>[](\A s \in Sides : registry[s] = <<>>)

\* Clients come at any time, so also while the connection they get is alive.
ClientsCome(s) == SF_sessionVars(ImportChoose(s) /\ Live(import'[s].conn))

\* When the network stays up and clients keep coming, they are served, on both
\* sides, although sessions end again and again. For the listener this needs
\* that the dialer's imports stop using connections of their own: the listener
\* would choose such a connection, on which the dialer accepts no stream, and
\* wait for as long as it is open.
ImportsServed ==
    \A s \in Sides :
        /\ <>[]up
        /\ s \in deployment.imports /\ deployment.sessions # {}
        /\ ClientsCome(s)
        /\ s = "listener" => <>[]~Owns("dialer")
        => []<>(import[s].pc = "served")
==============================================================================
