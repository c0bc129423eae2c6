-------------------------- MODULE PunchProxy_proof --------------------------
(***************************************************************************)
(* Proofs about PunchProxy for every set of remote addresses and sockets   *)
(* and every idle time.                                                    *)
(*                                                                         *)
(* The read loop leaves the mutex between its lookup and its use of a      *)
(* session. The inductive invariant says what it may count on in between:  *)
(* that no other goroutine gives its remote a session, that the socket it  *)
(* has opened is its own, and that a session which it has found stays in   *)
(* the map while the loop has stood still no longer than MaxIdle, because  *)
(* the session has not been idle for longer than that either.              *)
(***************************************************************************)
EXTENDS PunchProxy, TLAPS

Alive == life \in {"up", "cancelled"}

\* What the read loop may count on at each of its steps.
LoopOK ==
    /\ fwd.pc \in {"listen", "insert"} =>
        fwd.remote \in Remotes /\ sessions[fwd.remote] = NoConn
    /\ fwd.pc \in {"read", "listen", "ended"} => fwd.sess = NoConn
    /\ fwd.pc = "insert" =>
        fwd.sess \in Conns /\ fwd.sess \notin Mapped /\ age[fwd.sess] <= stalled
    /\ fwd.pc = "write" =>
        /\ fwd.remote \in Remotes /\ fwd.sess \in Conns
        /\ Alive /\ stalled <= MaxIdle =>
            sessions[fwd.remote] = fwd.sess /\ age[fwd.sess] <= stalled

\* The inductive invariant.
IInv == ProxyTypeOK /\ SocketsAccounted /\ ReplyPathKept /\ LoopOK

-----------------------------------------------------------------------------

\* The proxy with no session satisfies the invariant.
LEMMA InitIInv == ProxyInit => IInv
<1> SUFFICES ASSUME ProxyInit PROVE IInv
    OBVIOUS
<1>1. Mapped = {}
    BY DEF ProxyInit, Mapped
<1>2. ProxyTypeOK
    BY ProxyAssumption DEF ProxyInit, ProxyTypeOK, Ages, Reading
<1>3. SocketsAccounted /\ ReplyPathKept /\ LoopOK
    BY <1>1 DEF ProxyInit, SocketsAccounted, ReplyPathKept, LoopOK, Reading
<1> QED
    BY <1>2, <1>3 DEF IInv

\* Ages only matter below MaxIdle; the clock makes none younger than another.
LEMMA OlderAges ==
    ASSUME NEW a \in Ages, NEW b \in Ages
    PROVE  Older(a) \in Ages /\ (a <= b => Older(a) <= Older(b)) /\ a <= Older(a)
BY ProxyAssumption DEF Ages, Older

-----------------------------------------------------------------------------
(* The read loop.                                                          *)

\* The lookup of a session.
LEMMA SessionForKeeps ==
    ASSUME IInv, NEW r \in Remotes, SessionFor(r)
    PROVE  IInv'
<1> USE ProxyAssumption
<1>1. /\ fwd = Reading
      /\ fwd' = [pc |-> IF sessions[r] = NoConn THEN "listen" ELSE "write",
                 remote |-> r, sess |-> sessions[r]]
      /\ stalled' = 0
      /\ UNCHANGED <<sessions, open, external, reader, broken, life>>
      /\ sessions[r] \in Conns \cup {NoConn}
    BY DEF SessionFor, IInv, ProxyTypeOK
<1>2. age' = [c \in Conns |-> IF c = sessions[r] THEN 0 ELSE age[c]]
    BY DEF SessionFor
<1>3. Mapped' = Mapped
    BY <1>1 DEF Mapped
<1>4. ProxyTypeOK'
    BY <1>1, <1>2 DEF IInv, ProxyTypeOK, Ages
<1>5. SocketsAccounted' /\ ReplyPathKept'
    BY <1>1, <1>3 DEF IInv, SocketsAccounted, ReplyPathKept, Reading
<1>6. LoopOK'
    BY <1>1, <1>2 DEF LoopOK
<1> QED
    BY <1>4, <1>5, <1>6 DEF IInv

\* A socket is opened for a remote without a session.
LEMMA ListenUDPKeeps ==
    ASSUME IInv, ListenUDP
    PROVE  IInv'
<1> USE ProxyAssumption
<1>1. PICK c \in Unused :
        /\ open' = open \cup {c}
        /\ external' = [external EXCEPT ![c] = fwd.remote]
        /\ age' = [age EXCEPT ![c] = 0]
        /\ broken' = broken \ {c}
        /\ fwd' = [fwd EXCEPT !.pc = "insert", !.sess = c]
    BY DEF ListenUDP
<1>2. fwd.pc = "listen" /\ UNCHANGED <<sessions, reader, stalled, life>>
    BY DEF ListenUDP
<1>3. c \in Conns /\ c \notin open
    BY DEF Unused
<1>4. /\ fwd'.pc = "insert" /\ fwd'.sess = c /\ fwd'.remote = fwd.remote
      /\ fwd.remote \in Remotes /\ sessions[fwd.remote] = NoConn
    BY <1>1, <1>2 DEF IInv, ProxyTypeOK, LoopOK
<1>5. Mapped' = Mapped /\ c \notin Mapped
    BY <1>2, <1>3 DEF IInv, SocketsAccounted, Mapped
<1>6. ProxyTypeOK'
    <2>0. external' \in [Conns -> Remotes \cup {NoRemote}]
        BY <1>1, <1>4 DEF IInv, ProxyTypeOK
    <2>1. age' \in [Conns -> Ages]
        <3>1. 0 \in Ages
            BY DEF Ages
        <3>2. age \in [Conns -> Ages] /\ age' = [age EXCEPT ![c] = 0]
            BY <1>1 DEF IInv, ProxyTypeOK
        <3> QED
            BY <3>1, <3>2
    <2>2. fwd' \in [pc : {"read", "listen", "insert", "write", "ended"},
                    remote : Remotes \cup {NoRemote}, sess : Conns \cup {NoConn}]
        BY <1>1, <1>3 DEF IInv, ProxyTypeOK
    <2> QED
        BY <1>1, <1>2, <1>3, <2>0, <2>1, <2>2 DEF IInv, ProxyTypeOK
<1>7. SocketsAccounted'
    BY <1>1, <1>2, <1>4, <1>5 DEF IInv, SocketsAccounted
<1>8. ReplyPathKept'
    BY <1>1, <1>2, <1>5 DEF IInv, ReplyPathKept
<1>9. LoopOK'
    <2>1. age'[c] = 0 /\ stalled' \in Ages
        BY <1>1, <1>2, <1>3 DEF IInv, ProxyTypeOK
    <2> QED
        BY <1>2, <1>3, <1>4, <1>5, <2>1 DEF LoopOK, Ages
<1> QED
    BY <1>6, <1>7, <1>8, <1>9 DEF IInv

\* The new session goes into the map: there is none of that remote, since only
\* this loop adds any.
LEMMA InsertKeeps ==
    ASSUME IInv, Insert
    PROVE  IInv'
<1> USE ProxyAssumption
<1> DEFINE r == fwd.remote
           c == fwd.sess
<1>1. /\ fwd.pc = "insert" /\ r \in Remotes /\ sessions[r] = NoConn
      /\ c \in Conns /\ c \notin Mapped /\ age[c] <= stalled
    BY DEF Insert, IInv, LoopOK
<1>2. /\ sessions' = [sessions EXCEPT ![r] = c]
      /\ reader' = [reader EXCEPT ![c] = "read"]
      /\ fwd' = [fwd EXCEPT !.pc = "write"]
      /\ UNCHANGED <<open, external, age, broken, stalled, life>>
    BY <1>1 DEF Insert, IInv, ProxyTypeOK
<1>3. \A t \in Remotes : sessions'[t] = IF t = r THEN c ELSE sessions[t]
    BY <1>2 DEF IInv, ProxyTypeOK
<1>4. Mapped' = Mapped \cup {c}
    BY <1>1, <1>3 DEF Mapped
<1>5. fwd'.pc = "write" /\ fwd'.remote = r /\ fwd'.sess = c
    BY <1>2 DEF IInv, ProxyTypeOK
<1>6. ProxyTypeOK'
    BY <1>1, <1>2 DEF IInv, ProxyTypeOK
<1>7. SocketsAccounted'
    BY <1>1, <1>2, <1>4, <1>5 DEF IInv, SocketsAccounted
<1>8. ReplyPathKept'
    BY <1>1, <1>2, <1>4 DEF IInv, ProxyTypeOK, ReplyPathKept
<1>9. LoopOK'
    BY <1>1, <1>2, <1>3, <1>5 DEF LoopOK
<1> QED
    BY <1>6, <1>7, <1>8, <1>9 DEF IInv

\* The loop comes back to its read, or ends.
LEMMA LoopBackKeeps ==
    ASSUME IInv, ListenFails \/ Forward \/ ReadEnds
    PROVE  IInv'
<1>1. /\ fwd.pc # "insert"
      /\ fwd' \in {Reading, [Reading EXCEPT !.pc = "ended"]}
      /\ UNCHANGED <<sessions, open, external, age, reader, broken, stalled, life>>
    BY DEF ListenFails, Forward, ReadEnds, Reading
<1>2. fwd'.pc \in {"read", "ended"} /\ fwd'.sess = NoConn /\ fwd'.remote = NoRemote
    BY <1>1 DEF Reading
<1>3. ProxyTypeOK'
    BY <1>1 DEF IInv, ProxyTypeOK, Reading
<1>4. SocketsAccounted' /\ ReplyPathKept'
    BY <1>1, <1>2 DEF IInv, SocketsAccounted, ReplyPathKept, Mapped
<1>5. LoopOK'
    BY <1>2 DEF LoopOK
<1> QED
    BY <1>3, <1>4, <1>5 DEF IInv

-----------------------------------------------------------------------------
(* The readers.                                                            *)

\* A reader ends only when its socket is closed, and so not in the map, or when
\* its remote cannot be written to.
LEMMA ReaderKeeps ==
    ASSUME IInv, NEW c \in Conns,
           ReadReply(c) \/ WriteReply(c) \/ WriteReplyFails(c) \/ Touch(c)
    PROVE  IInv'
<1> USE ProxyAssumption
<1>1. PICK m \in {"off", "read", "write", "touch"} :
        /\ reader' = [reader EXCEPT ![c] = m]
        /\ m = "off" => c \notin open \/ c \in broken'
    BY DEF ReadReply, WriteReply, WriteReplyFails, Touch, ReaderAt
<1>2. /\ UNCHANGED <<sessions, open, external, fwd, stalled, life>>
      /\ broken \subseteq broken' /\ broken' \subseteq broken \cup {c}
    BY DEF ReadReply, WriteReply, WriteReplyFails, Touch
<1>3. age' = age \/ age' = [age EXCEPT ![c] = 0]
    BY DEF ReadReply, WriteReply, WriteReplyFails, Touch
<1>4. \A d \in Conns : age'[d] \in {0, age[d]} /\ age[d] \in Ages
    BY <1>3 DEF IInv, ProxyTypeOK
<1>5. Mapped' = Mapped
    BY <1>2 DEF Mapped
<1>6. ProxyTypeOK'
    <2>1. age' \in [Conns -> Ages]
        BY <1>3 DEF IInv, ProxyTypeOK, Ages
    <2> QED
        BY <1>1, <1>2, <2>1 DEF IInv, ProxyTypeOK
<1>7. SocketsAccounted'
    BY <1>2, <1>5 DEF IInv, SocketsAccounted
<1>8. ReplyPathKept'
    <2>1. c \in Mapped => c \in open
        BY DEF IInv, SocketsAccounted
    <2> QED
        BY <1>1, <1>2, <1>5, <2>1 DEF IInv, ProxyTypeOK, ReplyPathKept
<1>9. LoopOK'
    <2>1. stalled \in Ages
        BY DEF IInv, ProxyTypeOK
    <2>2. \A d \in Conns : age[d] <= stalled => age'[d] <= stalled
        BY <1>4, <2>1 DEF Ages
    <2> QED
        BY <1>2, <1>5, <2>2 DEF IInv, LoopOK, Alive
<1> QED
    BY <1>6, <1>7, <1>8, <1>9 DEF IInv

-----------------------------------------------------------------------------
(* Cleaning up, closing and time.                                          *)

\* Sessions in R are dropped and their sockets closed, in one critical section.
LEMMA DropKeeps ==
    ASSUME IInv, NEW R \in SUBSET Remotes,
           \A r, t \in Remotes : r \in R /\ sessions[t] = sessions[r] => t \in R,
           open' = open \ {sessions[r] : r \in R},
           sessions' = [r \in Remotes |-> IF r \in R THEN NoConn ELSE sessions[r]],
           UNCHANGED <<external, age, reader, broken, fwd, stalled>>,
           life' \in {"up", "cancelled", "closing", "closed"}, Alive' => Alive,
           Alive' /\ fwd.pc = "write" /\ stalled <= MaxIdle => fwd.remote \notin R
    PROVE  IInv'
<1> USE ProxyAssumption
<1>1. \A r \in Remotes : sessions'[r] = IF r \in R THEN NoConn ELSE sessions[r]
    OBVIOUS
<1>2. Mapped' = Mapped \ {sessions[r] : r \in R}
    BY <1>1 DEF Mapped
<1>3. ProxyTypeOK'
    BY DEF IInv, ProxyTypeOK
<1>4. SocketsAccounted'
    <2>1. fwd.pc = "insert" => fwd.sess \notin {sessions[r] : r \in R}
        <3>1. fwd.pc = "insert" => fwd.sess \in Conns /\ fwd.sess \notin Mapped
            BY DEF IInv, LoopOK
        <3> QED
            BY <3>1 DEF Mapped
    <2> QED
        BY <1>2, <2>1 DEF IInv, SocketsAccounted
<1>5. ReplyPathKept'
    BY <1>2 DEF IInv, ReplyPathKept
<1>6. LoopOK'
    BY <1>1, <1>2 DEF IInv, LoopOK
<1> QED
    BY <1>3, <1>4, <1>5, <1>6 DEF IInv

\* A tick of the cleanup loop spares the session that the read loop uses.
LEMMA CleanupKeeps ==
    ASSUME IInv, CleanupIdleSessions
    PROVE  IInv'
<1> USE ProxyAssumption
<1>1. /\ open' = open \ {sessions[r] : r \in Expired}
      /\ sessions' = [r \in Remotes |-> IF r \in Expired THEN NoConn ELSE sessions[r]]
      /\ UNCHANGED <<external, age, reader, broken, fwd, stalled, life>>
    BY DEF CleanupIdleSessions
<1>2. Expired \in SUBSET Remotes
      /\ \A r, t \in Remotes : r \in Expired /\ sessions[t] = sessions[r] => t \in Expired
    BY DEF Expired
<1>3. ASSUME Alive, fwd.pc = "write", stalled <= MaxIdle PROVE fwd.remote \notin Expired
    <2>1. /\ sessions[fwd.remote] = fwd.sess /\ fwd.sess \in Conns
          /\ age[fwd.sess] <= stalled
        BY <1>3 DEF IInv, LoopOK
    <2>2. age[fwd.sess] \in Ages /\ stalled \in Ages
        BY <2>1 DEF IInv, ProxyTypeOK
    <2> QED
        BY <1>3, <2>1, <2>2 DEF Expired, Ages
<1>4. life' \in {"up", "cancelled", "closing", "closed"} /\ Alive' = Alive
    BY <1>1 DEF Alive, IInv, ProxyTypeOK
<1> QED
    BY <1>1, <1>2, <1>3, <1>4, DropKeeps

\* Close.
LEMMA CloseKeeps ==
    ASSUME IInv, CloseSessions \/ CloseConn \/ CancelProxy
    PROVE  IInv'
<1> USE ProxyAssumption
<1>1. CASE CloseSessions
    <2>1. open' = open \ {sessions[r] : r \in Remotes}
        <3>1. NoConn \notin open
            BY DEF IInv, ProxyTypeOK
        <3> QED
            BY <1>1, <3>1 DEF CloseSessions, Mapped
    <2>2. sessions' = [r \in Remotes |-> IF r \in Remotes THEN NoConn ELSE sessions[r]]
        BY <1>1 DEF CloseSessions
    <2>3. life' = "closing" /\ UNCHANGED <<external, age, reader, broken, fwd, stalled>>
        BY <1>1 DEF CloseSessions
    <2> QED
        BY <2>1, <2>2, <2>3, DropKeeps DEF Alive
<1>2. CASE CloseConn \/ CancelProxy
    <2>1. /\ UNCHANGED <<sessions, open, external, age, reader, broken, fwd, stalled>>
          /\ life' \in {"cancelled", "closed"} /\ (Alive' => Alive)
        BY <1>2 DEF CloseConn, CancelProxy, Alive
    <2>2. Mapped' = Mapped
        BY <2>1 DEF Mapped
    <2>3. ProxyTypeOK'
        BY <2>1 DEF IInv, ProxyTypeOK
    <2>4. SocketsAccounted' /\ ReplyPathKept' /\ LoopOK'
        BY <2>1, <2>2 DEF IInv, SocketsAccounted, ReplyPathKept, LoopOK
    <2> QED
        BY <2>3, <2>4 DEF IInv
<1> QED
    BY <1>1, <1>2

\* Time passes for the sessions and for the read loop alike.
LEMMA ClockKeeps ==
    ASSUME IInv, ClockTicks
    PROVE  IInv'
<1> USE ProxyAssumption
<1>1. /\ age' = [c \in Conns |-> Older(age[c])]
      /\ stalled' = Older(stalled)
      /\ UNCHANGED <<sessions, open, external, reader, broken, fwd, life>>
    BY DEF ClockTicks
<1>2. stalled \in Ages /\ \A c \in Conns : age[c] \in Ages
    BY DEF IInv, ProxyTypeOK
<1>3. Mapped' = Mapped
    BY <1>1 DEF Mapped
<1>4. ProxyTypeOK'
    BY <1>1, <1>2, OlderAges DEF IInv, ProxyTypeOK
<1>5. SocketsAccounted' /\ ReplyPathKept'
    BY <1>1, <1>3 DEF IInv, SocketsAccounted, ReplyPathKept
<1>6. LoopOK'
    <2>1. \A c \in Conns : age[c] <= stalled => age'[c] <= stalled'
        BY <1>1, <1>2, OlderAges
    <2>2. stalled' <= MaxIdle => stalled <= MaxIdle
        BY <1>1, <1>2 DEF Older, Ages
    <2> QED
        BY <1>1, <1>3, <2>1, <2>2 DEF IInv, LoopOK, Alive
<1> QED
    BY <1>4, <1>5, <1>6 DEF IInv

\* Nothing happens.
LEMMA StutterKeeps == IInv /\ UNCHANGED proxyVars => IInv'
BY DEF proxyVars, IInv, ProxyTypeOK, SocketsAccounted, ReplyPathKept, LoopOK, Alive, Mapped

-----------------------------------------------------------------------------
\* The inductive invariant holds however the goroutines interleave.
THEOREM ProxyInvariance == ProxySpec => []IInv
<1>1. IInv /\ [ProxyNext]_proxyVars => IInv'
    BY SessionForKeeps, ListenUDPKeeps, InsertKeeps, LoopBackKeeps, ReaderKeeps, CleanupKeeps,
       CloseKeeps, ClockKeeps, StutterKeeps
    DEF ProxyNext
<1> QED
    BY InitIInv, <1>1, PTL DEF ProxySpec

\* Type correctness of the map, the sockets and the ages.
THEOREM ProxyTypeCorrect == ProxySpec => []ProxyTypeOK
<1>1. IInv => ProxyTypeOK
    BY DEF IInv
<1> QED
    BY <1>1, ProxyInvariance, PTL

\* sessionFor, the cleanup loop and Close leak no socket and leave no session
\* whose socket is closed.
THEOREM SocketsStayAccounted == ProxySpec => []SocketsAccounted
<1>1. IInv => SocketsAccounted
    BY DEF IInv
<1> QED
    BY <1>1, ProxyInvariance, PTL

\* Every session in the map has a reader, or had one that could not write.
THEOREM ReplyPathStays == ProxySpec => []ReplyPathKept
<1>1. IInv => ReplyPathKept
    BY DEF IInv
<1> QED
    BY <1>1, ProxyInvariance, PTL

\* The lookup's lastSeen protects a session that the read loop is about to use
\* for all of MaxIdle.
THEOREM UsedSessionsSpared == ProxySpec => []CleanupSparesUsed
<1>1. ASSUME IInv PROVE CleanupSparesUsed
    <2> SUFFICES ASSUME fwd.pc = "write", ~(stalled > MaxIdle), life \notin {"closing", "closed"}
                 PROVE  fwd.sess \in open
        BY DEF CleanupSparesUsed
    <2>1. stalled <= MaxIdle /\ Alive
        BY <1>1, ProxyAssumption DEF IInv, ProxyTypeOK, Ages, Alive
    <2>2. /\ fwd.remote \in Remotes /\ sessions[fwd.remote] = fwd.sess
          /\ fwd.sess \in Conns
        BY <1>1, <2>1 DEF IInv, LoopOK
    <2>3. fwd.sess \in Mapped
        BY <2>2, ProxyAssumption DEF Mapped
    <2> QED
        BY <1>1, <2>3 DEF IInv, SocketsAccounted
<1> QED
    BY <1>1, ProxyInvariance, PTL

=============================================================================
