----------------------------- MODULE PunchProxy -----------------------------
(***************************************************************************)
(* The UDP proxy of internal/punch/service.go: packets that arrive at the  *)
(* punch socket and are no STUN answers are forwarded to the kernel's      *)
(* WireGuard, from a socket of its own for each remote address, whose      *)
(* reader brings WireGuard's packets back. A cleanup loop closes sessions  *)
(* that were idle too long. The read loop, the readers and the cleanup     *)
(* loop are goroutines that share the sessions map under a mutex.          *)
(***************************************************************************)
EXTENDS Naturals

CONSTANTS
    Remotes, NoRemote, \* addresses that packets come from
    Conns, NoConn,     \* sockets towards WireGuard, with the session that owns them
    MaxIdle            \* five minutes, in units of the clock

ASSUME ProxyAssumption ==
    /\ NoRemote \notin Remotes
    /\ NoConn \notin Conns
    /\ MaxIdle \in Nat

VARIABLES
    sessions, \* s.sessions: the session of each remote
    open,     \* sockets that are not closed
    external, \* whom each socket's session serves
    age,      \* time since each session's lastSeen, up to MaxIdle + 1
    reader,   \* where each socket's readFromWireGuard is
    broken,   \* sockets whose reader has failed to write to its remote
    fwd,      \* the read loop in forwardToWireGuard: step, remote, session
    stalled,  \* time since the read loop looked a session up, up to MaxIdle + 1
    life      \* up, cancelled (context), closing (sessions), closed (punch socket)

proxyVars == <<sessions, open, external, age, reader, broken, fwd, stalled, life>>

Ages == 0..(MaxIdle + 1)
Reading == [pc |-> "read", remote |-> NoRemote, sess |-> NoConn]
Mapped == {sessions[r] : r \in Remotes} \ {NoConn}

ProxyTypeOK ==
    /\ sessions \in [Remotes -> Conns \cup {NoConn}]
    /\ open \subseteq Conns
    /\ external \in [Conns -> Remotes \cup {NoRemote}]
    /\ age \in [Conns -> Ages]
    /\ reader \in [Conns -> {"off", "read", "write", "touch"}]
    /\ broken \subseteq Conns
    /\ fwd \in [pc : {"read", "listen", "insert", "write", "ended"},
                remote : Remotes \cup {NoRemote}, sess : Conns \cup {NoConn}]
    /\ stalled \in Ages
    /\ life \in {"up", "cancelled", "closing", "closed"}

-----------------------------------------------------------------------------
(* forwardToWireGuard and sessionFor, in the one read loop.                *)

\* Faulty variant: the session's lastSeen is not set.
SessionForUntouched(r) ==
    /\ fwd = Reading /\ life # "closed"
    /\ fwd' = [pc |-> IF sessions[r] = NoConn THEN "listen" ELSE "write",
               remote |-> r, sess |-> sessions[r]]
    /\ stalled' = 0
    /\ UNCHANGED <<sessions, open, external, age, reader, broken, life>>

\* The first critical section: a session that exists is used now.
SessionFor(r) ==
    /\ fwd = Reading /\ life # "closed"
    /\ fwd' = [pc |-> IF sessions[r] = NoConn THEN "listen" ELSE "write",
               remote |-> r, sess |-> sessions[r]]
    /\ age' = [c \in Conns |-> IF c = sessions[r] THEN 0 ELSE age[c]]
    /\ stalled' = 0
    /\ UNCHANGED <<sessions, open, external, reader, broken, life>>

Unused == {c \in Conns : c \notin open /\ reader[c] = "off" /\ c # fwd.sess}

ListenUDP ==
    /\ fwd.pc = "listen"
    /\ \E c \in Unused :
        /\ open' = open \cup {c}
        /\ external' = [external EXCEPT ![c] = fwd.remote]
        /\ age' = [age EXCEPT ![c] = 0]
        /\ broken' = broken \ {c}
        /\ fwd' = [fwd EXCEPT !.pc = "insert", !.sess = c]
    /\ UNCHANGED <<sessions, reader, stalled, life>>

ListenFails ==
    /\ fwd.pc = "listen"
    /\ fwd' = Reading
    /\ UNCHANGED <<sessions, open, external, age, reader, broken, stalled, life>>

\* The second critical section: the new session is the remote's, unless there
\* is one by now, which is used instead while the new socket is closed.
Insert ==
    LET r == fwd.remote
        won == sessions[r] = NoConn
    IN  /\ fwd.pc = "insert"
        /\ sessions' = IF won THEN [sessions EXCEPT ![r] = fwd.sess] ELSE sessions
        /\ open' = IF won THEN open ELSE open \ {fwd.sess}
        /\ reader' = IF won THEN [reader EXCEPT ![fwd.sess] = "read"] ELSE reader
        /\ fwd' = [fwd EXCEPT !.pc = "write", !.sess = IF won THEN @ ELSE sessions[r]]
        /\ UNCHANGED <<external, age, broken, stalled, life>>

\* The packet leaves if its socket is still open; else the error is logged.
Forward ==
    /\ fwd.pc = "write"
    /\ fwd' = Reading
    /\ UNCHANGED <<sessions, open, external, age, reader, broken, stalled, life>>

ReadEnds ==
    /\ fwd = Reading
    /\ fwd' = [Reading EXCEPT !.pc = "ended"]
    /\ UNCHANGED <<sessions, open, external, age, reader, broken, stalled, life>>

-----------------------------------------------------------------------------
(* readFromWireGuard, one goroutine per session.                           *)

ReaderAt(c, l, m) == reader[c] = l /\ reader' = [reader EXCEPT ![c] = m]

\* WireGuard sends when it likes; a closed socket ends the reader.
ReadReply(c) ==
    /\ ReaderAt(c, "read", IF c \in open THEN "write" ELSE "off")
    /\ UNCHANGED <<sessions, open, external, age, broken, fwd, stalled, life>>

WriteReply(c) ==
    /\ life # "closed"
    /\ ReaderAt(c, "write", "touch")
    /\ UNCHANGED <<sessions, open, external, age, broken, fwd, stalled, life>>

\* The reader ends and leaves its session in the map.
WriteReplyFails(c) ==
    /\ ReaderAt(c, "write", "off")
    /\ broken' = broken \cup {c}
    /\ UNCHANGED <<sessions, open, external, age, fwd, stalled, life>>

\* Only a session that is still its remote's is seen now.
Touch(c) ==
    /\ ReaderAt(c, "touch", "read")
    /\ age' = IF sessions[external[c]] = c THEN [age EXCEPT ![c] = 0] ELSE age
    /\ UNCHANGED <<sessions, open, external, broken, fwd, stalled, life>>

-----------------------------------------------------------------------------
Expired == {r \in Remotes : sessions[r] # NoConn /\ age[sessions[r]] > MaxIdle}

\* Faulty variant: sessions are dropped and their sockets left open.
CleanupKeepsSockets ==
    /\ life \in {"up", "cancelled"}
    /\ sessions' = [r \in Remotes |-> IF r \in Expired THEN NoConn ELSE sessions[r]]
    /\ UNCHANGED <<open, external, age, reader, broken, fwd, stalled, life>>

\* Faulty variant: sockets are closed and their sessions kept.
CleanupKeepsSessions ==
    /\ life \in {"up", "cancelled"}
    /\ open' = open \ {sessions[r] : r \in Expired}
    /\ UNCHANGED <<sessions, external, age, reader, broken, fwd, stalled, life>>

\* After the cancellation a tick that is due may still be served.
CleanupIdleSessions ==
    /\ life \in {"up", "cancelled"}
    /\ open' = open \ {sessions[r] : r \in Expired}
    /\ sessions' = [r \in Remotes |-> IF r \in Expired THEN NoConn ELSE sessions[r]]
    /\ UNCHANGED <<external, age, reader, broken, fwd, stalled, life>>

CancelProxy ==
    /\ life = "up"
    /\ life' = "cancelled"
    /\ UNCHANGED <<sessions, open, external, age, reader, broken, fwd, stalled>>

\* Close, also after a first probe that failed, when the context is alive: first
\* the sessions, then the punch socket. A session that the read loop inserts
\* after the first step stays until the process ends.
CloseSessions ==
    /\ life \in {"up", "cancelled"}
    /\ life' = "closing"
    /\ open' = open \ Mapped
    /\ sessions' = [r \in Remotes |-> NoConn]
    /\ UNCHANGED <<external, age, reader, broken, fwd, stalled>>

CloseConn ==
    /\ life = "closing"
    /\ life' = "closed"
    /\ UNCHANGED <<sessions, open, external, age, reader, broken, fwd, stalled>>

Older(a) == IF a > MaxIdle THEN a ELSE a + 1

ClockTicks ==
    /\ age' = [c \in Conns |-> Older(age[c])]
    /\ stalled' = Older(stalled)
    /\ UNCHANGED <<sessions, open, external, reader, broken, fwd, life>>

ProxyInit ==
    /\ sessions = [r \in Remotes |-> NoConn]
    /\ open = {}
    /\ external = [c \in Conns |-> NoRemote]
    /\ age = [c \in Conns |-> 0]
    /\ reader = [c \in Conns |-> "off"]
    /\ broken = {}
    /\ fwd = Reading
    /\ stalled = 0
    /\ life = "up"

ProxyNext ==
    \/ \E r \in Remotes : SessionFor(r)
    \/ ListenUDP \/ ListenFails \/ Insert \/ Forward \/ ReadEnds
    \/ \E c \in Conns : ReadReply(c) \/ WriteReply(c) \/ WriteReplyFails(c) \/ Touch(c)
    \/ CleanupIdleSessions
    \/ CancelProxy \/ CloseSessions \/ CloseConn
    \/ ClockTicks

ProxySpec == ProxyInit /\ [][ProxyNext]_proxyVars

-----------------------------------------------------------------------------
(* Properties.                                                             *)

\* No socket is left open without a session and no session is left without its
\* socket: the open sockets are those in the map and the one being inserted.
SocketsAccounted ==
    open = Mapped \cup (IF fwd.pc = "insert" THEN {fwd.sess} ELSE {})

\* A session in the map brings WireGuard's packets back to its remote, unless
\* a write to that remote has failed before: closing, cleaning up and replacing
\* sessions never leave a remote with a session that only sends.
ReplyPathKept == \A c \in Mapped : reader[c] = "off" => c \in broken

\* A packet meets a socket that was closed under it only if the read loop stood
\* still longer than MaxIdle since it found the session, or the proxy is closed:
\* the lookup's lastSeen keeps the cleanup loop away from a session in use.
CleanupSparesUsed ==
    fwd.pc = "write" /\ fwd.sess \notin open => stalled > MaxIdle \/ life \in {"closing", "closed"}

=============================================================================
