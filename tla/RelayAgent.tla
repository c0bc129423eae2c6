----------------------------- MODULE RelayAgent -----------------------------
(***************************************************************************)
(* The relay agent of internal/relayagent/agent.go: it keeps a WebSocket   *)
(* to the relay worker, reads the worker's requests from it, performs each *)
(* on the local backend in a goroutine of its own and writes the answer to *)
(* the connection the request came from. A lost session is replaced after  *)
(* a delay.                                                                *)
(*                                                                         *)
(* The worker and the network are external: a connection may be lost with  *)
(* notice or silently, in which case the kernel's TCP keepalive tells the  *)
(* agent later. A write that fails, be it on the deadline of ten seconds,  *)
(* makes all later writes of that connection fail (gorilla/websocket),     *)
(* while reading from it goes on.                                          *)
(***************************************************************************)
EXTENDS Naturals, FiniteSets

CONSTANTS
    RelayRequests, \* ids of requests; the worker never uses one twice
    MaxLosses      \* bound on failed dials, lost connections and timed-out writes

ASSUME RelayAssumption == MaxLosses \in Nat

VARIABLES
    cancelled, \* SIGTERM has cancelled the context
    agent,     \* the goroutine in Run and runSession
    session,   \* how many connections were made; the last is the present one
    conn,      \* the state of each connection
    mute,      \* connections on which a write has failed
    pinger,    \* the ping loop of each session
    asked,     \* the connection on which the worker sent each request
    unread,    \* requests sent and not yet read
    job,       \* handleRequest of each request, and the connection it was given
    answered,  \* the connection on which the worker got each request's answer
    losses

relayVars == <<cancelled, agent, session, conn, mute, pinger, asked, unread, job,
               answered, losses>>

\* Every session but the first follows a loss.
Sessions == 1..(MaxLosses + 1)
NoSession == 0
MaybeSession == Sessions \cup {NoSession}
NoJob == [pc |-> "none", conn |-> NoSession]

RelayTypeOK ==
    /\ cancelled \in BOOLEAN
    /\ agent \in {"dial", "hello", "read", "delay", "ended"}
    /\ session \in MaybeSession
    /\ conn \in [Sessions -> {"none", "up", "gone", "down", "closed"}]
    /\ mute \subseteq Sessions
    /\ pinger \in [Sessions -> {"off", "on", "ended"}]
    /\ asked \in [RelayRequests -> MaybeSession]
    /\ unread \subseteq RelayRequests
    /\ job \in [RelayRequests -> [pc : {"none", "proxy", "response", "error", "done"},
                                  conn : MaybeSession]]
    /\ answered \in [RelayRequests -> MaybeSession]
    /\ losses \in 0..MaxLosses

Loss == losses < MaxLosses /\ losses' = losses + 1

Unclosed(s) == conn[s] \in {"up", "gone", "down"}

-----------------------------------------------------------------------------
(* writeJSON, one writer at a time. Until the agent is told of the loss,   *)
(* and even once after, a write seems to succeed.                          *)

WriteOK(s) == Unclosed(s) /\ s \notin mute /\ UNCHANGED <<mute, losses>>

WriteFails(s) ==
    /\ mute' = mute \cup {s}
    /\ IF conn[s] = "up" /\ s \notin mute THEN Loss ELSE UNCHANGED losses

-----------------------------------------------------------------------------
(* Run and runSession.                                                     *)

\* Faulty variant: Run returns the session's error.
SessionOverEndsRun ==
    /\ agent' = "ended"
    /\ UNCHANGED <<cancelled, session, asked, unread, job, answered>>

\* Run, when runSession has returned.
SessionOver ==
    /\ agent' = IF cancelled THEN "ended" ELSE "delay"
    /\ UNCHANGED <<cancelled, session, asked, unread, job, answered>>

Dial ==
    /\ agent = "dial" /\ ~cancelled
    /\ session' = session + 1
    /\ conn' = [conn EXCEPT ![session'] = "up"]
    /\ agent' = "hello"
    /\ UNCHANGED <<cancelled, mute, pinger, asked, unread, job, answered, losses>>

DialFails ==
    /\ agent = "dial"
    /\ IF cancelled THEN UNCHANGED losses ELSE Loss
    /\ SessionOver
    /\ UNCHANGED <<conn, mute, pinger>>

SendHello ==
    /\ agent = "hello"
    /\ WriteOK(session)
    /\ pinger' = [pinger EXCEPT ![session] = "on"]
    /\ agent' = "read"
    /\ UNCHANGED <<cancelled, session, conn, asked, unread, job, answered>>

\* Faulty variant: the connection is left open.
SendHelloFailsLeaks ==
    /\ agent = "hello"
    /\ WriteFails(session)
    /\ SessionOver
    /\ UNCHANGED <<conn, pinger>>

\* The deferred cancel and Close follow every return of runSession.
SendHelloFails ==
    /\ agent = "hello"
    /\ WriteFails(session)
    /\ conn' = [conn EXCEPT ![session] = "closed"]
    /\ SessionOver
    /\ UNCHANGED pinger

SessionReadFails ==
    /\ agent = "read"
    /\ conn[session] = "down"
    /\ conn' = [conn EXCEPT ![session] = "closed"]
    /\ SessionOver
    /\ UNCHANGED <<mute, pinger, losses>>

\* When both are ready the select takes either.
DelayOver ==
    /\ agent = "delay"
    /\ agent' \in IF cancelled THEN {"dial", "ended"} ELSE {"dial"}
    /\ UNCHANGED <<cancelled, session, conn, mute, pinger, asked, unread, job, answered, losses>>

-----------------------------------------------------------------------------
(* handleMessage. A hello, a pong, an error and a message that cannot be   *)
(* decoded change nothing, nor does the reply to a ping or to an unknown   *)
(* message when it is sent.                                                *)

HandleRequest(q) ==
    /\ agent = "read"
    /\ q \in unread /\ asked[q] = session
    /\ unread' = unread \ {q}
    /\ job' = [job EXCEPT ![q] = [pc |-> "proxy", conn |-> session]]
    /\ UNCHANGED <<cancelled, agent, session, conn, mute, pinger, asked, answered, losses>>

ReplyFails ==
    /\ agent = "read"
    /\ WriteFails(session)
    /\ UNCHANGED <<cancelled, agent, session, conn, pinger, asked, unread, job, answered>>

-----------------------------------------------------------------------------
(* pingLoop: a tick whose ping is sent changes nothing.                    *)

PingFails(s) ==
    /\ pinger[s] = "on"
    /\ WriteFails(s)
    /\ pinger' = [pinger EXCEPT ![s] = "ended"]
    /\ UNCHANGED <<cancelled, agent, session, conn, asked, unread, job, answered>>

\* The session's context is done when the session or the whole agent is.
PingEnds(s) ==
    /\ pinger[s] = "on"
    /\ cancelled \/ conn[s] = "closed"
    /\ pinger' = [pinger EXCEPT ![s] = "ended"]
    /\ UNCHANGED <<cancelled, agent, session, conn, mute, asked, unread, job, answered, losses>>

-----------------------------------------------------------------------------
(* handleRequest, one goroutine per request.                               *)

JobStep(q, l, m) ==
    /\ job[q].pc = l
    /\ job' = [job EXCEPT ![q].pc = m]
    /\ UNCHANGED <<cancelled, agent, session, conn, pinger, asked, unread>>

\* Also when the session ends just as the backend's response is complete.
ProxyRequest(q) ==
    JobStep(q, "proxy", "response") /\ UNCHANGED <<mute, answered, losses>>

\* Faulty variant: the failure is logged only.
ProxyRequestFailsSilently(q) ==
    JobStep(q, "proxy", "done") /\ UNCHANGED <<mute, answered, losses>>

\* A bad URL or body, a backend that fails or takes longer than RequestTimeout,
\* a session that has ended.
ProxyRequestFails(q) ==
    JobStep(q, "proxy", "error") /\ UNCHANGED <<mute, answered, losses>>

\* Faulty variant: the answer goes to the connection of the moment.
AnswerOnNewest(q) ==
    /\ \E l \in {"response", "error"} : JobStep(q, l, "done")
    /\ WriteOK(session)
    /\ answered' = [answered EXCEPT ![q] = IF conn[session] = "up" THEN session ELSE @]

Answer(q) ==
    LET s == job[q].conn
    IN  /\ \E l \in {"response", "error"} : JobStep(q, l, "done")
        /\ WriteOK(s)
        /\ answered' = [answered EXCEPT ![q] = IF conn[s] = "up" THEN s ELSE @]

AnswerFails(q) ==
    /\ \E l \in {"response", "error"} : JobStep(q, l, "done")
    /\ WriteFails(job[q].conn)
    /\ UNCHANGED answered

-----------------------------------------------------------------------------
(* The worker, the network and the service manager.                        *)

Ask(q) ==
    /\ asked[q] = NoSession
    /\ session \in Sessions /\ conn[session] = "up"
    /\ asked' = [asked EXCEPT ![q] = session]
    /\ unread' = unread \cup {q}
    /\ UNCHANGED <<cancelled, agent, session, conn, mute, pinger, job, answered, losses>>

ConnState(s, from, to) ==
    /\ conn[s] = from
    /\ conn' = [conn EXCEPT ![s] = to]
    /\ UNCHANGED <<cancelled, agent, session, mute, pinger, asked, unread, job, answered>>

\* The worker closes, a message exceeds the read limit, or the network fails.
Lose(s) == Loss /\ \E l \in {"gone", "down"} : ConnState(s, "up", l)

KeepaliveFails(s) == ConnState(s, "gone", "down") /\ UNCHANGED losses

CancelAgent ==
    /\ ~cancelled
    /\ cancelled' = TRUE
    /\ UNCHANGED <<agent, session, conn, mute, pinger, asked, unread, job, answered, losses>>

RelayInit ==
    /\ cancelled = FALSE
    /\ agent = "dial"
    /\ session = NoSession
    /\ conn = [s \in Sessions |-> "none"]
    /\ mute = {}
    /\ pinger = [s \in Sessions |-> "off"]
    /\ asked = [q \in RelayRequests |-> NoSession]
    /\ unread = {}
    /\ job = [q \in RelayRequests |-> NoJob]
    /\ answered = [q \in RelayRequests |-> NoSession]
    /\ losses = 0

AgentStep ==
    \/ Dial \/ DialFails \/ SendHello \/ SendHelloFails \/ SessionReadFails \/ DelayOver
    \/ \E q \in RelayRequests : HandleRequest(q)
Job(q) == ProxyRequest(q) \/ ProxyRequestFails(q) \/ Answer(q) \/ AnswerFails(q)

RelayNext ==
    \/ AgentStep \/ ReplyFails \/ CancelAgent
    \/ \E q \in RelayRequests : Ask(q) \/ Job(q)
    \/ \E s \in Sessions : PingFails(s) \/ PingEnds(s) \/ Lose(s) \/ KeepaliveFails(s)

\* Goroutines go on: dialling, the backend's answer and a write all have a
\* time limit. The kernel notices a silent loss.
RelayFairness ==
    /\ WF_relayVars(AgentStep)
    /\ \A q \in RelayRequests : WF_relayVars(Job(q))
    /\ \A s \in Sessions : WF_relayVars(KeepaliveFails(s))

RelaySpec == RelayInit /\ [][RelayNext]_relayVars /\ RelayFairness

-----------------------------------------------------------------------------
(* Properties.                                                             *)

\* An answer reaches the worker on the connection its request came from and on
\* no other: goroutines that outlive their session never write to its successor.
AnsweredWhereAsked == \A q \in RelayRequests : answered[q] \in {NoSession, asked[q]}

\* The agent holds at most one connection, however its sessions end.
OneConnection == Cardinality({s \in Sessions : Unclosed(s)}) <= 1

Usable(s) == s \in Sessions \ mute /\ conn[s] = "up"

\* Every request is answered, by a response or an error, unless its connection
\* is lost or a write on it has failed; also when the backend never answers and
\* when the agent is told to stop.
RequestsSettled ==
    \A q \in RelayRequests :
        asked[q] # NoSession ~> answered[q] # NoSession \/ ~Usable(asked[q])

\* Once losses stop the agent stays connected and pings, unless a write has
\* failed on the connection that is left. Told to stop it ends, or keeps
\* reading from a connection that is still up: ReadMessage knows no context.
AgentSettles ==
    <>[]( \/ agent = "read" /\ conn[session] = "up"
             /\ (cancelled \/ pinger[session] = "on" \/ session \in mute)
          \/ agent = "ended" /\ cancelled )

=============================================================================
