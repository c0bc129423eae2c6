-------------------------- MODULE RelayAgent_proof --------------------------
(***************************************************************************)
(* Proofs about RelayAgent for every set of requests and every number of   *)
(* losses, whatever the worker and the network do.                         *)
(*                                                                         *)
(* The safety properties are about what outlives a session: its request    *)
(* goroutines, its ping loop and its connection. The inductive invariant   *)
(* says which of them may still be there for each session before, at and   *)
(* after the present one. It also accounts for the losses: a session is    *)
(* over only if one was counted, so that dialling stays within the bound.  *)
(***************************************************************************)
EXTENDS RelayAgent, FiniteSetTheorems, TLAPS

InSession == agent \in {"hello", "read"}

\* Connections: of the sessions before the present one all are closed, and of
\* the present one too unless runSession has not returned.
ConnsOK ==
    /\ InSession => session # NoSession /\ Unclosed(session)
    /\ \A s \in Sessions : /\ s < session => conn[s] = "closed"
                           /\ s > session => conn[s] = "none"
                           /\ s = session /\ ~InSession => conn[s] = "closed"

\* Writers: nobody writes to a connection before its hello is sent.
WritersOK ==
    \A s \in Sessions : s > session \/ (s = session /\ agent = "hello") =>
        /\ s \notin mute
        /\ pinger[s] = "off"
        /\ \A q \in RelayRequests : job[q].conn # s

\* Requests: a goroutine has the connection on which its request was sent.
JobsOK ==
    \A q \in RelayRequests :
        /\ asked[q] <= session
        /\ q \in unread => asked[q] # NoSession /\ job[q].pc = "none"
        /\ job[q].pc # "none" => asked[q] # NoSession /\ job[q].conn = asked[q]
        /\ job[q].pc = "none" => job[q].conn = NoSession
        /\ answered[q] \in {NoSession, asked[q]}

\* Losses: one for every session but one that is up.
LossesOK ==
    /\ session <= losses + 1
    /\ session <= losses \/ (InSession /\ conn[session] = "up")

\* The inductive invariant.
IInv == RelayTypeOK /\ ConnsOK /\ WritersOK /\ JobsOK /\ LossesOK

-----------------------------------------------------------------------------
\* Sessions are numbered from 1; 0 stands for none.
LEMMA SessionsNat == Sessions \subseteq Nat \ {0} /\ MaybeSession \subseteq Nat /\ NoSession \notin Sessions
BY RelayAssumption DEF Sessions, MaybeSession, NoSession

\* The agent that has not dialled satisfies the invariant.
LEMMA InitIInv == RelayInit => IInv
<1> SUFFICES ASSUME RelayInit PROVE IInv
    OBVIOUS
<1> USE RelayAssumption
<1> USE DEF RelayInit, Sessions, MaybeSession, NoSession, NoJob
<1>1. RelayTypeOK
    <2>1. NoSession \in MaybeSession /\ losses \in 0..MaxLosses
        OBVIOUS
    <2>2. /\ conn \in [Sessions -> {"none", "up", "gone", "down", "closed"}]
          /\ pinger \in [Sessions -> {"off", "on", "ended"}]
        OBVIOUS
    <2>3. /\ asked \in [RelayRequests -> MaybeSession]
          /\ answered \in [RelayRequests -> MaybeSession]
          /\ job \in [RelayRequests -> [pc : {"none", "proxy", "response", "error", "done"},
                                        conn : MaybeSession]]
        BY <2>1
    <2> QED
        BY <2>1, <2>2, <2>3 DEF RelayTypeOK
<1>2. ConnsOK /\ LossesOK
    BY DEF ConnsOK, LossesOK, InSession
<1>3. WritersOK /\ JobsOK
    BY DEF WritersOK, JobsOK
<1> QED
    BY <1>1, <1>2, <1>3 DEF IInv

\* What is counted is a number.
LEMMA Numbers ==
    ASSUME IInv
    PROVE  /\ session \in Nat /\ losses \in Nat
           /\ \A q \in RelayRequests : asked[q] \in Nat
<1>1. session \in MaybeSession /\ losses \in 0..MaxLosses
      /\ \A q \in RelayRequests : asked[q] \in MaybeSession
    BY DEF IInv, RelayTypeOK
<1>2. losses \in Nat
    BY <1>1, RelayAssumption
<1>3. MaybeSession \subseteq Nat
    BY SessionsNat
<1> QED
    BY <1>1, <1>2, <1>3

\* A write on a connection on which writing has begun, by whoever may write.
\* Nothing but mute and losses changes by it.
LEMMA WriteFailsTypes ==
    ASSUME IInv, NEW s \in Sessions, WriteFails(s)
    PROVE  /\ mute' \subseteq Sessions /\ mute' = mute \cup {s}
           /\ losses' \in 0..MaxLosses /\ losses' >= losses
           /\ conn[s] = "up" /\ s \notin mute => losses' = losses + 1
BY RelayAssumption DEF WriteFails, Loss, IInv, RelayTypeOK

-----------------------------------------------------------------------------
(* Run and runSession.                                                     *)

\* A connection is made: a session later than all before, within the bound.
LEMMA DialKeeps ==
    ASSUME IInv, Dial
    PROVE  IInv'
<1> USE RelayAssumption
<1>1. ~InSession /\ session \in Nat /\ session <= losses
    BY SessionsNat DEF Dial, InSession, IInv, RelayTypeOK, LossesOK
<1>2. session' = session + 1 /\ session' \in Sessions
    BY <1>1 DEF Dial, IInv, RelayTypeOK, Sessions
<1>3. \A s \in Sessions : conn'[s] = IF s = session' THEN "up" ELSE conn[s]
    BY DEF Dial, IInv, RelayTypeOK
<1>4. RelayTypeOK'
    BY <1>2 DEF Dial, IInv, RelayTypeOK, MaybeSession
<1>5. ConnsOK'
    BY <1>1, <1>2, <1>3, SessionsNat DEF Dial, IInv, ConnsOK, InSession, Unclosed
<1>6. WritersOK'
    BY <1>1, <1>2, SessionsNat DEF Dial, IInv, WritersOK
<1>7. JobsOK'
    BY <1>1, <1>2, Numbers DEF Dial, IInv, JobsOK
<1>8. LossesOK'
    BY <1>1, <1>2, <1>3 DEF Dial, IInv, RelayTypeOK, LossesOK, InSession
<1> QED
    BY <1>4, <1>5, <1>6, <1>7, <1>8 DEF IInv

\* Steps outside a session.
LEMMA BetweenSessionsKeeps ==
    ASSUME IInv, DialFails \/ DelayOver
    PROVE  IInv'
<1> USE RelayAssumption
<1>1. /\ ~InSession /\ agent' \in {"dial", "delay", "ended"}
      /\ UNCHANGED <<cancelled, session, conn, mute, pinger, asked, unread, job, answered>>
      /\ losses' \in 0..MaxLosses /\ losses' >= losses
    BY DEF DialFails, DelayOver, SessionOver, Loss, InSession, IInv, RelayTypeOK
<1>2. RelayTypeOK'
    BY <1>1 DEF IInv, RelayTypeOK
<1>3. ConnsOK'
    BY <1>1 DEF IInv, ConnsOK, InSession
<1>4. WritersOK' /\ JobsOK'
    BY <1>1 DEF IInv, WritersOK, JobsOK
<1>5. LossesOK'
    BY <1>1, Numbers DEF IInv, LossesOK, InSession
<1> QED
    BY <1>2, <1>3, <1>4, <1>5 DEF IInv

\* The hello is sent: from now on others write too.
LEMMA SendHelloKeeps ==
    ASSUME IInv, SendHello
    PROVE  IInv'
<1>1. session \in Sessions
    BY DEF SendHello, InSession, IInv, ConnsOK, RelayTypeOK, MaybeSession
<1>2. RelayTypeOK'
    BY <1>1 DEF SendHello, WriteOK, IInv, RelayTypeOK
<1>3. ConnsOK' /\ JobsOK' /\ LossesOK'
    BY DEF SendHello, WriteOK, IInv, ConnsOK, JobsOK, LossesOK, InSession, Unclosed
<1>4. WritersOK'
    BY <1>1, SessionsNat DEF SendHello, WriteOK, IInv, RelayTypeOK, WritersOK
<1> QED
    BY <1>2, <1>3, <1>4 DEF IInv

\* runSession returns: its connection is closed, and a loss was counted.
LEMMA SessionEndKeeps ==
    ASSUME IInv, SendHelloFails \/ SessionReadFails
    PROVE  IInv'
<1> USE RelayAssumption
<1>1. InSession /\ session \in Sessions /\ Unclosed(session)
    BY DEF SendHelloFails, SessionReadFails, InSession, IInv, ConnsOK, RelayTypeOK, MaybeSession
<1>2. /\ agent' \in {"delay", "ended"}
      /\ conn' = [conn EXCEPT ![session] = "closed"]
      /\ UNCHANGED <<cancelled, session, pinger, asked, unread, job, answered>>
    BY DEF SendHelloFails, SessionReadFails, SessionOver
<1>3. /\ mute' \in SUBSET Sessions /\ mute' \subseteq mute \cup {session}
      /\ losses' \in 0..MaxLosses /\ losses' >= losses
      /\ conn[session] = "up" => losses' = losses + 1
    <2>1. CASE SendHelloFails
        <3>1. session \notin mute
            BY <1>1, <2>1 DEF SendHelloFails, IInv, WritersOK
        <3> QED
            BY <1>1, <2>1, <3>1, WriteFailsTypes DEF SendHelloFails
    <2>2. CASE SessionReadFails
        BY <2>2 DEF SessionReadFails, IInv, RelayTypeOK
    <2> QED
        BY <2>1, <2>2
<1>4. RelayTypeOK'
    BY <1>1, <1>2, <1>3 DEF IInv, RelayTypeOK
<1>5. ConnsOK'
    BY <1>1, <1>2, SessionsNat DEF IInv, RelayTypeOK, ConnsOK, InSession
<1>6. WritersOK'
    BY <1>1, <1>2, <1>3, SessionsNat DEF IInv, WritersOK
<1>7. JobsOK'
    BY <1>2 DEF IInv, JobsOK
<1>8. LossesOK'
    BY <1>1, <1>2, <1>3, Numbers DEF IInv, LossesOK, InSession
<1> QED
    BY <1>4, <1>5, <1>6, <1>7, <1>8 DEF IInv

-----------------------------------------------------------------------------
(* The goroutines of a session.                                            *)

\* A request is read, and given the connection it was read from.
LEMMA HandleRequestKeeps ==
    ASSUME IInv, NEW q \in RelayRequests, HandleRequest(q)
    PROVE  IInv'
<1>1. session \in Sessions /\ agent = "read" /\ asked[q] = session
    BY DEF HandleRequest, InSession, IInv, ConnsOK, RelayTypeOK, MaybeSession
<1>2. \A p \in RelayRequests :
        job'[p] = IF p = q THEN [pc |-> "proxy", conn |-> session] ELSE job[p]
    BY DEF HandleRequest, IInv, RelayTypeOK
<1>3. RelayTypeOK'
    BY <1>1 DEF HandleRequest, IInv, RelayTypeOK, MaybeSession
<1>4. ConnsOK' /\ LossesOK'
    BY DEF HandleRequest, IInv, ConnsOK, LossesOK, InSession, Unclosed
<1>5. WritersOK'
    BY <1>1, <1>2, SessionsNat DEF HandleRequest, IInv, WritersOK
<1>6. JobsOK'
    BY <1>1, <1>2, SessionsNat DEF HandleRequest, IInv, JobsOK
<1> QED
    BY <1>3, <1>4, <1>5, <1>6 DEF IInv

\* Connections that the writers may write to.
Writable(s) == s < session \/ (s = session /\ agent # "hello")

\* A write by a goroutine other than the agent fails or is no matter; ping loops
\* may end.
LEMMA WriterKeeps ==
    ASSUME IInv, NEW s \in Sessions, Writable(s), WriteFails(s),
           UNCHANGED <<cancelled, agent, session, conn, asked, unread, answered>>,
           RelayTypeOK', JobsOK',
           \A t \in Sessions : pinger[t] = "off" => pinger'[t] = "off",
           \A q \in RelayRequests : job'[q].conn = job[q].conn
    PROVE  IInv'
<1>1. mute' = mute \cup {s} /\ losses' >= losses
    BY WriteFailsTypes
<1>2. ConnsOK'
    BY DEF IInv, ConnsOK, InSession, Unclosed
<1>3. WritersOK'
    BY <1>1, SessionsNat DEF IInv, RelayTypeOK, WritersOK, Writable
<1>4. LossesOK'
    <2>1. losses' \in Nat
        BY RelayAssumption DEF RelayTypeOK
    <2> QED
        BY <1>1, <2>1, Numbers DEF IInv, LossesOK, InSession
<1> QED
    BY <1>2, <1>3, <1>4 DEF IInv

\* Replies of the read loop and the ping loops.
LEMMA SessionWritesKeep ==
    ASSUME IInv, ReplyFails \/ \E s \in Sessions : PingFails(s) \/ PingEnds(s)
    PROVE  IInv'
<1>1. CASE ReplyFails
    <2>1. session \in Sessions /\ Writable(session)
        BY <1>1 DEF ReplyFails, InSession, IInv, ConnsOK, RelayTypeOK, MaybeSession, Writable
    <2>2. mute' \subseteq Sessions /\ losses' \in 0..MaxLosses
        BY <1>1, <2>1, WriteFailsTypes DEF ReplyFails
    <2>3. RelayTypeOK' /\ JobsOK'
        BY <1>1, <2>2 DEF ReplyFails, IInv, RelayTypeOK, JobsOK
    <2>4. PICK s \in Sessions : s = session
        BY <2>1
    <2> QED
        BY <1>1, <2>1, <2>3, <2>4, WriterKeeps DEF ReplyFails
<1>2. ASSUME NEW s \in Sessions, PingFails(s) PROVE IInv'
    <2>1. Writable(s)
        BY <1>2, SessionsNat DEF PingFails, IInv, RelayTypeOK, WritersOK, Writable
    <2>2. mute' \subseteq Sessions /\ losses' \in 0..MaxLosses
        BY <1>2, WriteFailsTypes DEF PingFails
    <2>3. RelayTypeOK' /\ JobsOK'
        BY <1>2, <2>2 DEF PingFails, IInv, RelayTypeOK, JobsOK
    <2>4. \A t \in Sessions : pinger[t] = "off" => pinger'[t] = "off"
        BY <1>2 DEF PingFails, IInv, RelayTypeOK
    <2> QED
        BY <1>2, <2>1, <2>3, <2>4, WriterKeeps DEF PingFails
<1>3. ASSUME NEW s \in Sessions, PingEnds(s) PROVE IInv'
    <2>1. \A t \in Sessions : pinger[t] = "off" => pinger'[t] = "off"
        BY <1>3 DEF PingEnds, IInv, RelayTypeOK
    <2>2. RelayTypeOK'
        BY <1>3 DEF PingEnds, IInv, RelayTypeOK
    <2>3. ConnsOK' /\ JobsOK' /\ LossesOK'
        BY <1>3 DEF PingEnds, IInv, ConnsOK, JobsOK, LossesOK, InSession, Unclosed
    <2>4. WritersOK'
        BY <1>3, <2>1 DEF PingEnds, IInv, WritersOK
    <2> QED
        BY <2>2, <2>3, <2>4 DEF IInv
<1> QED
    BY <1>1, <1>2, <1>3

\* The goroutine of a request, whose session may be over long since.
LEMMA JobKeeps ==
    ASSUME IInv, NEW q \in RelayRequests, Job(q)
    PROVE  IInv'
<1> DEFINE s == job[q].conn
<1>1. /\ job[q].pc \in {"proxy", "response", "error"}
      /\ job'[q].pc \in {"response", "error", "done"} /\ job'[q].conn = s
      /\ job' \in [RelayRequests -> [pc : {"none", "proxy", "response", "error", "done"},
                                     conn : MaybeSession]]
      /\ \A p \in RelayRequests : p # q => job'[p] = job[p]
      /\ UNCHANGED <<cancelled, agent, session, conn, pinger, asked, unread>>
    BY DEF Job, ProxyRequest, ProxyRequestFails, Answer, AnswerFails, JobStep, IInv, RelayTypeOK
<1>2. s = asked[q] /\ s \in Sessions
    BY <1>1 DEF IInv, JobsOK, RelayTypeOK, MaybeSession
<1>3. Writable(s)
    <2>1. PICK t \in Sessions : t = s
        BY <1>2
    <2>2. ~(t > session) /\ ~(t = session /\ agent = "hello")
        BY <2>1 DEF IInv, WritersOK
    <2> QED
        BY <2>1, <2>2, SessionsNat, Numbers DEF Writable
<1>4. answered' \in [RelayRequests -> MaybeSession]
      /\ \A p \in RelayRequests : answered'[p] \in {answered[p], asked[p]}
    BY <1>2 DEF Job, ProxyRequest, ProxyRequestFails, Answer, AnswerFails, IInv, RelayTypeOK,
                MaybeSession
<1>5. JobsOK'
    BY <1>1, <1>2, <1>4 DEF IInv, JobsOK
<1>6. CASE UNCHANGED <<mute, losses>>
    <2>1. RelayTypeOK'
        BY <1>1, <1>4, <1>6 DEF IInv, RelayTypeOK
    <2>2. ConnsOK' /\ LossesOK'
        BY <1>1, <1>6 DEF IInv, ConnsOK, LossesOK, InSession, Unclosed
    <2>3. WritersOK'
        BY <1>1, <1>6 DEF IInv, WritersOK
    <2> QED
        BY <1>5, <2>1, <2>2, <2>3 DEF IInv
<1>7. CASE AnswerFails(q)
    <2>1. PICK t \in Sessions : t = s
        BY <1>2
    <2>2. WriteFails(t) /\ Writable(t)
        BY <1>3, <1>7, <2>1 DEF AnswerFails
    <2>3. mute' \subseteq Sessions /\ losses' \in 0..MaxLosses
        BY <2>2, WriteFailsTypes
    <2>4. RelayTypeOK'
        BY <1>1, <1>4, <2>3 DEF IInv, RelayTypeOK
    <2> QED
        BY <1>1, <1>5, <1>7, <2>2, <2>4, WriterKeeps DEF AnswerFails
<1> QED
    BY <1>6, <1>7 DEF Job, ProxyRequest, ProxyRequestFails, Answer, WriteOK

-----------------------------------------------------------------------------
(* The worker, the network and the service manager.                        *)

\* The worker sends a request.
LEMMA AskKeeps ==
    ASSUME IInv, NEW q \in RelayRequests, Ask(q)
    PROVE  IInv'
<1>1. \A p \in RelayRequests : asked'[p] = IF p = q THEN session ELSE asked[p]
    BY DEF Ask, IInv, RelayTypeOK
<1>2. session \in Sessions /\ asked[q] = NoSession
    BY DEF Ask
<1>3. RelayTypeOK'
    BY <1>2 DEF Ask, IInv, RelayTypeOK, MaybeSession
<1>4. ConnsOK' /\ LossesOK' /\ WritersOK'
    BY DEF Ask, IInv, ConnsOK, LossesOK, WritersOK, InSession, Unclosed
<1>5. JobsOK'
    BY <1>1, <1>2, SessionsNat DEF Ask, IInv, JobsOK
<1> QED
    BY <1>3, <1>4, <1>5 DEF IInv

\* A connection that is up is lost; the agent is told then or later.
LEMMA ConnKeeps ==
    ASSUME IInv, NEW s \in Sessions, Lose(s) \/ KeepaliveFails(s)
    PROVE  IInv'
<1> USE RelayAssumption
<1>1. PICK l \in {"gone", "down"} :
        /\ conn' = [conn EXCEPT ![s] = l]
        /\ conn[s] \in {"up", "gone"}
        /\ UNCHANGED <<cancelled, agent, session, mute, pinger, asked, unread, job, answered>>
    BY DEF Lose, KeepaliveFails, ConnState
<1>2. /\ losses' \in 0..MaxLosses /\ losses' >= losses
      /\ conn[s] = "up" => losses' = losses + 1
    BY DEF Lose, KeepaliveFails, ConnState, Loss, IInv, RelayTypeOK
<1>3. s = session /\ InSession
    BY <1>1, SessionsNat DEF IInv, RelayTypeOK, ConnsOK
<1>4. RelayTypeOK'
    BY <1>1, <1>2 DEF IInv, RelayTypeOK
<1>5. \A t \in Sessions : conn'[t] = IF t = s THEN l ELSE conn[t]
    BY <1>1 DEF IInv, RelayTypeOK
<1>6. ConnsOK'
    BY <1>1, <1>3, <1>5, SessionsNat DEF IInv, RelayTypeOK, ConnsOK, InSession, Unclosed
<1>7. WritersOK' /\ JobsOK'
    BY <1>1 DEF IInv, WritersOK, JobsOK
<1>8. LossesOK'
    BY <1>1, <1>2, <1>3, <1>5, Numbers DEF IInv, LossesOK, InSession
<1> QED
    BY <1>4, <1>6, <1>7, <1>8 DEF IInv

\* SIGTERM, and nothing.
LEMMA CancelKeeps ==
    ASSUME IInv, CancelAgent \/ UNCHANGED relayVars
    PROVE  IInv'
<1>1. UNCHANGED <<agent, session, conn, mute, pinger, asked, unread, job, answered, losses>>
    BY DEF CancelAgent, relayVars
<1>2. RelayTypeOK'
    BY DEF CancelAgent, relayVars, IInv, RelayTypeOK
<1> QED
    BY <1>1, <1>2 DEF IInv, ConnsOK, WritersOK, JobsOK, LossesOK, InSession, Unclosed

-----------------------------------------------------------------------------
\* The inductive invariant holds whatever is lost, fails or comes late.
THEOREM RelayInvariance == RelaySpec => []IInv
<1>1. IInv /\ [RelayNext]_relayVars => IInv'
    BY DialKeeps, BetweenSessionsKeeps, SendHelloKeeps, SessionEndKeeps, HandleRequestKeeps,
       SessionWritesKeep, JobKeeps, AskKeeps, ConnKeeps, CancelKeeps
    DEF RelayNext, AgentStep
<1> QED
    BY InitIInv, <1>1, PTL DEF RelaySpec

\* Type correctness: sessions stay within the number of losses.
THEOREM RelayTypeCorrect == RelaySpec => []RelayTypeOK
<1>1. IInv => RelayTypeOK
    BY DEF IInv
<1> QED
    BY <1>1, RelayInvariance, PTL

\* handleRequest is given its session's connection: however long the backend
\* takes and however many sessions follow, its answer goes to no other.
THEOREM AnswersStayInSession == RelaySpec => []AnsweredWhereAsked
<1>1. IInv => AnsweredWhereAsked
    BY DEF IInv, JobsOK, AnsweredWhereAsked
<1> QED
    BY <1>1, RelayInvariance, PTL

\* The deferred Close of runSession leaves no connection behind on any return.
THEOREM NoConnectionLeaks == RelaySpec => []OneConnection
<1>1. ASSUME IInv PROVE OneConnection
    <2> DEFINE U == {s \in Sessions : Unclosed(s)}
    <2>1. U \in SUBSET {session}
        <3>1. \A s \in Sessions : Unclosed(s) => s = session
            BY <1>1, SessionsNat DEF IInv, RelayTypeOK, ConnsOK, Unclosed
        <3> QED
            BY <3>1
    <2>2. IsFiniteSet({session}) /\ Cardinality({session}) = 1
        BY FS_Singleton
    <2>3. Cardinality(U) <= Cardinality({session})
        BY <2>1, <2>2, FS_Subset
    <2> QED
        BY <2>2, <2>3 DEF OneConnection
<1> QED
    BY <1>1, RelayInvariance, PTL

=============================================================================
