---------------------------- MODULE Registration ----------------------------
(***************************************************************************)
(* Registering accounts: auth.Register with the two transactions of        *)
(* internal/store/user_store.go, and the invite codes they consume, which  *)
(* administrators create, change and delete (internal/admin/service.go,    *)
(* internal/store/invite_store.go).                                        *)
(*                                                                         *)
(* The database is PostgreSQL at READ COMMITTED: a statement sees what is  *)
(* committed when it starts. Of its locks the model has those that these   *)
(* statements take: LOCK TABLE users IN EXCLUSIVE MODE keeps out other     *)
(* inserts, but not reads; SELECT ... FOR UPDATE keeps an invite's row;    *)
(* an INSERT waits for an uncommitted INSERT of the same student id. All   *)
(* are held to the end of the transaction, whose writes are only then seen.*)
(***************************************************************************)
EXTENDS Integers, FiniteSets

CONSTANTS
    Students,    \* student ids that may register
    Invites,     \* invite codes that may be generated
    NoInvite,
    Registrars,  \* goroutines serving POST /auth/register
    NoRegistrar,
    Admins,      \* goroutines serving an administrator's requests on invites
    NoStudent,
    MaxUses,     \* values of max_uses that administrators ask for; 0: below 1
    Horizon      \* bound on the clock; an invite that never expires has Never

ASSUME RegistrationAssumption ==
    /\ NoInvite \notin Invites
    /\ NoStudent \notin Students
    /\ NoRegistrar \notin Registrars
    /\ MaxUses \subseteq Nat
    /\ Horizon \in Nat

VARIABLES
    users,     \* committed rows of users: role ("none": no row) and invite_id
    invites,   \* committed rows of invite_codes
    now,       \* the clock
    usersLock, \* who holds the EXCLUSIVE lock on users
    rowLock,   \* who holds the lock of each invite's row
    pc, req,   \* each registration's next step, its student id and invite code
    apc, areq  \* the same of an administrator's request

vars == <<users, invites, now, usersLock, rowLock, pc, req, apc, areq>>

Never == Horizon + 2
Times == 0..Never

\* What UpdateInvite may do to expires_at: set it to a day from now, clear it,
\* or leave it (0). A request may also leave max_uses.
ExpiryChoices == {now + 1, Never, 0}
NoMax == -1

Row == [state : {"none", "live", "deleted"}, max : Nat, uses : Nat,
        usedBy : Students \cup {NoStudent}, expires : Times]
NoInviteRow == [state |-> "none", max |-> 0, uses |-> 0,
                usedBy |-> NoStudent, expires |-> 0]

Steps == {"idle", "find", "count", "code",
          "boot_lock", "boot_count", "boot_insert", "boot_commit",
          "inv_lock", "inv_insert", "inv_commit"}

NoReq == [student |-> NoStudent, code |-> NoInvite]
NoAdminReq == [invite |-> NoInvite, max |-> NoMax, expires |-> 0]

TypeOK ==
    /\ users \in [Students -> [role : {"none", "user", "admin"},
                               invite : Invites \cup {NoInvite}]]
    /\ invites \in [Invites -> Row]
    /\ \A i \in Invites : invites[i].state # "none" => invites[i].max >= 1
    /\ now \in 0..Horizon
    /\ usersLock \in Registrars \cup {NoRegistrar}
    /\ rowLock \in [Invites -> Registrars \cup {NoRegistrar}]
    /\ pc \in [Registrars -> Steps]
    /\ req \in [Registrars -> [student : Students \cup {NoStudent},
                               code : Invites \cup {NoInvite}]]
    /\ apc \in [Admins -> {"idle", "update", "delete"}]
    /\ areq \in [Admins -> [invite : Invites \cup {NoInvite}, max : Nat \cup {NoMax},
                          expires : Times]]

Registered == {s \in Students : users[s].role # "none"}

KeepAdmins == UNCHANGED <<now, apc, areq>>
KeepLocks == UNCHANGED <<usersLock, rowLock>>

-----------------------------------------------------------------------------
(* Register: three reads decide which transaction is tried.                *)

Goto(r, l) == pc' = [pc EXCEPT ![r] = l]

Return(r) ==
    /\ Goto(r, "idle")
    /\ req' = [req EXCEPT ![r] = NoReq]

\* A request names a student id and an invite code, or none, or an unknown one.
Register(r) == \E s \in Students, i \in Invites \cup {NoInvite} :
    /\ pc[r] = "idle"
    /\ Goto(r, "find")
    /\ req' = [req EXCEPT ![r] = [student |-> s, code |-> i]]
    /\ KeepAdmins /\ KeepLocks /\ UNCHANGED <<users, invites>>

Read(r, rejected, l) ==
    /\ IF rejected THEN Return(r) ELSE Goto(r, l) /\ UNCHANGED req
    /\ KeepAdmins /\ KeepLocks /\ UNCHANGED <<users, invites>>

FindByStudentID(r) ==
    /\ pc[r] = "find"
    /\ Read(r, req[r].student \in Registered, "count")

CountUsers(r) ==
    /\ pc[r] = "count"
    /\ Read(r, FALSE, IF Registered = {} THEN "boot_lock" ELSE "code")

\* InviteCode.IsAvailable: an invite is still good at the instant it expires.
IsAvailable(row) ==
    row.state = "live" /\ row.uses < row.max /\ ~(row.expires # Never /\ now > row.expires)

FindByCode(r) ==
    /\ pc[r] = "code"
    /\ Read(r, req[r].code = NoInvite \/ ~IsAvailable(invites[req[r].code]), "inv_lock")

-----------------------------------------------------------------------------
(* The end of a transaction gives its locks back.                          *)

\* Faulty: the invite's row stays locked.
UnlockUsersOnly(r) ==
    /\ usersLock' = IF usersLock = r THEN NoRegistrar ELSE usersLock
    /\ UNCHANGED rowLock

Unlock(r) ==
    /\ usersLock' = IF usersLock = r THEN NoRegistrar ELSE usersLock
    /\ rowLock' = [i \in Invites |-> IF rowLock[i] = r THEN NoRegistrar ELSE rowLock[i]]

Rollback(r) == Unlock(r) /\ Return(r) /\ KeepAdmins /\ UNCHANGED <<users, invites>>

\* Transactions with an uncommitted INSERT into users.
Inserting == {r \in Registrars : pc[r] \in {"boot_commit", "inv_commit"}}

\* An INSERT waits for another's EXCLUSIVE lock and for an uncommitted row
\* with the same student_id; a committed one makes it fail.
InsertWaits(r) ==
    \/ usersLock \notin {r, NoRegistrar}
    \/ \E q \in Inserting \ {r} : req[q].student = req[r].student

Insert(r, l) ==
    /\ ~InsertWaits(r)
    /\ \/ /\ req[r].student \in Registered
          /\ Rollback(r)
       \/ /\ req[r].student \notin Registered
          /\ Goto(r, l)
          /\ KeepAdmins /\ KeepLocks /\ UNCHANGED <<users, invites, req>>

-----------------------------------------------------------------------------
(* RegisterBootstrapAdmin.                                                 *)

\* Faulty: the transaction counts without LOCK TABLE.
LockUsersSkipped(r) ==
    /\ pc[r] = "boot_lock"
    /\ Goto(r, "boot_count")
    /\ KeepAdmins /\ KeepLocks /\ UNCHANGED <<users, invites, req>>

LockUsers(r) ==
    /\ pc[r] = "boot_lock"
    /\ usersLock = NoRegistrar
    /\ Inserting = {}
    /\ usersLock' = r
    /\ Goto(r, "boot_count")
    /\ KeepAdmins /\ UNCHANGED <<users, invites, rowLock, req>>

BootstrapCount(r) ==
    /\ pc[r] = "boot_count"
    /\ \/ /\ Registered # {}
          /\ Rollback(r)
       \/ /\ Registered = {}
          /\ Read(r, FALSE, "boot_insert")

BootstrapInsert(r) == pc[r] = "boot_insert" /\ Insert(r, "boot_commit")

BootstrapCommit(r) ==
    /\ pc[r] = "boot_commit"
    /\ users' = [users EXCEPT ![req[r].student] = [role |-> "admin", invite |-> NoInvite]]
    /\ Unlock(r) /\ Return(r)
    /\ KeepAdmins /\ UNCHANGED invites

-----------------------------------------------------------------------------
(* RegisterWithInvite.                                                     *)

\* Faulty: a plain SELECT, which neither waits for a row lock nor takes one.
LockInviteSkipped(r) ==
    /\ pc[r] = "inv_lock"
    /\ LET row == invites[req[r].code]
       IN  Read(r, row.state # "live" \/ row.uses >= row.max \/ row.expires <= now, "inv_insert")

\* SELECT ... FOR UPDATE waits for the row's lock and then sees the row as last
\* committed. Here an invite has expired at the instant expires_at.
LockInvite(r) ==
    /\ pc[r] = "inv_lock"
    /\ rowLock[req[r].code] = NoRegistrar
    /\ LET row == invites[req[r].code]
       IN  \/ /\ row.state = "live"
              /\ row.uses < row.max
              /\ row.expires > now
              /\ rowLock' = [rowLock EXCEPT ![req[r].code] = r]
              /\ Goto(r, "inv_insert")
              /\ UNCHANGED <<usersLock, req>>
           \/ /\ row.state # "live" \/ row.uses >= row.max \/ row.expires <= now
              /\ KeepLocks
              /\ Return(r)
    /\ KeepAdmins /\ UNCHANGED <<users, invites>>

InviteInsert(r) == pc[r] = "inv_insert" /\ Insert(r, "inv_commit")

\* Faulty: the use is not counted.
InviteCommitUncounted(r) ==
    /\ pc[r] = "inv_commit"
    /\ users' = [users EXCEPT ![req[r].student] = [role |-> "user", invite |-> req[r].code]]
    /\ Unlock(r) /\ Return(r)
    /\ KeepAdmins /\ UNCHANGED invites

\* UPDATE invite_codes SET use_count = use_count + 1, used_by, and COMMIT.
InviteCommit(r) ==
    /\ pc[r] = "inv_commit"
    /\ users' = [users EXCEPT ![req[r].student] = [role |-> "user", invite |-> req[r].code]]
    /\ invites' = [invites EXCEPT ![req[r].code].uses = @ + 1,
                                  ![req[r].code].usedBy = req[r].student]
    /\ Unlock(r) /\ Return(r)
    /\ KeepAdmins

\* A statement fails, the client goes away or the server dies: nothing the
\* transaction did remains.
Abort(r) == pc[r] # "idle" /\ Rollback(r)

-----------------------------------------------------------------------------
(* An administrator's requests on invites. Each reads the invite, checks,  *)
(* and writes in a later statement, which waits for the row's lock.        *)

KeepRegistrars == UNCHANGED <<users, now, usersLock, rowLock, pc, req>>

AdminExists == \E s \in Students : users[s].role = "admin"

\* The handler replaces a max_uses below 1 by the configured default, and the
\* service refuses a default below 1.
CreateInvite(a) == \E i \in Invites, m \in MaxUses :
    /\ m >= 1
    /\ AdminExists
    /\ apc[a] = "idle"
    /\ invites[i].state = "none"
    /\ invites' = [invites EXCEPT ![i] = [NoInviteRow EXCEPT !.state = "live", !.max = m,
                                                             !.expires = now + 1]]
    /\ KeepRegistrars /\ UNCHANGED <<apc, areq>>

AdminReads(a, i, l, m, e) ==
    /\ AdminExists
    /\ apc[a] = "idle"
    /\ invites[i].state = "live"
    /\ apc' = [apc EXCEPT ![a] = l]
    /\ areq' = [areq EXCEPT ![a] = [invite |-> i, max |-> m, expires |-> e]]
    /\ KeepRegistrars /\ UNCHANGED invites

\* Faulty: max_uses is only compared with use_count, which is 0 of a new invite.
UpdateInviteReadUnchecked(a) ==
    \E i \in Invites, m \in MaxUses \cup {NoMax}, e \in ExpiryChoices :
        /\ m # NoMax => m >= invites[i].uses
        /\ AdminReads(a, i, "update", m, e)

UpdateInviteRead(a) == \E i \in Invites, m \in MaxUses \cup {NoMax}, e \in ExpiryChoices :
    /\ m # NoMax => m >= 1 /\ m >= invites[i].uses
    /\ AdminReads(a, i, "update", m, e)

DeleteInviteRead(a) == \E i \in Invites :
    /\ invites[i].uses = 0
    /\ invites[i].usedBy = NoStudent
    /\ AdminReads(a, i, "delete", NoMax, 0)

AdminWrites(a, l, row) ==
    /\ apc[a] = l
    /\ rowLock[areq[a].invite] = NoRegistrar
    /\ invites' = IF invites[areq[a].invite].state = "live"
                  THEN [invites EXCEPT ![areq[a].invite] = row]
                  ELSE invites
    /\ apc' = [apc EXCEPT ![a] = "idle"]
    /\ areq' = [areq EXCEPT ![a] = NoAdminReq]
    /\ KeepRegistrars

UpdateInviteWrite(a) ==
    AdminWrites(a, "update",
        [invites[areq[a].invite] EXCEPT
            !.max = IF areq[a].max = NoMax THEN @ ELSE areq[a].max,
            !.expires = IF areq[a].expires = 0 THEN @ ELSE areq[a].expires])

DeleteInviteWrite(a) ==
    AdminWrites(a, "delete", [invites[areq[a].invite] EXCEPT !.state = "deleted"])

-----------------------------------------------------------------------------
Tick ==
    /\ now < Horizon
    /\ now' = now + 1
    /\ UNCHANGED <<users, invites, usersLock, rowLock, pc, req, apc, areq>>

\* An empty database.
Init ==
    /\ users = [s \in Students |-> [role |-> "none", invite |-> NoInvite]]
    /\ invites = [i \in Invites |-> NoInviteRow]
    /\ now = 0
    /\ usersLock = NoRegistrar
    /\ rowLock = [i \in Invites |-> NoRegistrar]
    /\ pc = [r \in Registrars |-> "idle"]
    /\ req = [r \in Registrars |-> NoReq]
    /\ apc = [a \in Admins |-> "idle"]
    /\ areq = [a \in Admins |-> NoAdminReq]

Reads(r) == FindByStudentID(r) \/ CountUsers(r) \/ FindByCode(r) \/ BootstrapCount(r)
Waits(r) == LockUsers(r) \/ BootstrapInsert(r) \/ LockInvite(r) \/ InviteInsert(r)
Commits(r) == BootstrapCommit(r) \/ InviteCommit(r)
AdminStep(a) == UpdateInviteWrite(a) \/ DeleteInviteWrite(a)

Next ==
    \/ \E r \in Registrars : Register(r) \/ Reads(r) \/ Waits(r) \/ Commits(r) \/ Abort(r)
    \/ \E a \in Admins : CreateInvite(a) \/ UpdateInviteRead(a) \/ DeleteInviteRead(a)
                         \/ AdminStep(a)
    \/ Tick

Spec == Init /\ [][Next]_vars

\* Statements return. PostgreSQL grants a contended lock in the order in which
\* it was asked for, so a waiting statement gets its turn among others.
Fairness ==
    /\ \A r \in Registrars : WF_vars(Reads(r)) /\ SF_vars(Waits(r)) /\ WF_vars(Commits(r))
    /\ \A a \in Admins : SF_vars(AdminStep(a))

LiveSpec == Spec /\ Fairness

-----------------------------------------------------------------------------
(* Properties.                                                             *)

\* As soon as anyone is registered there is exactly one administrator made by
\* registration: registrations racing on the empty table, all of which counted
\* no users, do not make two, and none registers as a user before there is one.
SingleAdmin ==
    Registered # {} => Cardinality({s \in Students : users[s].role = "admin"}) = 1

\* An invite's use_count is the number of accounts that registered with it,
\* whatever transactions raced, failed or were abandoned.
UsageAccounted ==
    \A i \in Invites : invites[i].state = "live"
        => invites[i].uses = Cardinality({s \in Students : users[s].invite = i})

\* No registration takes an invite's use_count past the max_uses of that moment.
NoOveruse ==
    [][\A i \in Invites : invites'[i].uses > invites[i].uses
                            => invites'[i].uses <= invites'[i].max]_vars

\* The rows that are committed, as the ledger of InviteLedger.
Ledger == INSTANCE InviteLedger WITH
    members <- users,
    books <- [i \in Invites |-> [state |-> invites[i].state, max |-> invites[i].max,
                                 uses |-> invites[i].uses]]

\* However their statements interleave, wait and fail, registrations and the
\* administrator's requests have the effect of indivisible steps of the ledger:
\* an account and the use of its invite appear together, for an invite that had
\* a use left at that very moment, and the first account alone needs none.
ImplementsLedger == Ledger!LedgerSpec

\* DeleteInvite never deletes an invite that an account registered with.
UsedInviteKept ==
    \A s \in Registered : users[s].invite # NoInvite => invites[users[s].invite].state = "live"

\* Every registration is answered: the table lock, the row locks and the waits
\* on an uncommitted student id never form a cycle.
RegistrationReturns == \A r \in Registrars : pc[r] # "idle" ~> pc[r] = "idle"

=============================================================================
