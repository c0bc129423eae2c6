------------------------- MODULE Registration_proof -------------------------
(***************************************************************************)
(* Proofs about Registration for every number of students, invites and     *)
(* goroutines: its safety properties, and that it implements InviteLedger. *)
(*                                                                         *)
(* None of the properties is inductive. What a commit may rely on was      *)
(* established by earlier statements of the transaction and is kept true   *)
(* by the locks it holds since; the inductive invariant says which lock    *)
(* each step holds and what that lock guarantees.                          *)
(***************************************************************************)
EXTENDS Registration, FiniteSetTheorems, TLAPS

BootSteps == {"boot_count", "boot_insert", "boot_commit"}
InviteSteps == {"inv_insert", "inv_commit"}

AdminsOf(u) == {s \in Students : u[s].role = "admin"}
UsersOf(u, i) == {s \in Students : u[s].invite = i}

\* The values of max_uses that UpdateInvite lets through.
Asked == {m \in MaxUses : m >= 1} \cup {NoMax}

\* What a request names at each of its steps.
RequestsOK ==
    /\ \A r \in Registrars :
        /\ pc[r] # "idle" => req[r].student \in Students
        /\ pc[r] \in {"inv_lock"} \cup InviteSteps => req[r].code \in Invites
    /\ \A a \in Admins :
        apc[a] # "idle" => areq[a].invite \in Invites /\ areq[a].max \in Asked

\* Which lock each step holds, and what it guards: the count of a bootstrap
\* and the invite that a registration found to have a use left.
LocksOK == \A r \in Registrars :
    /\ pc[r] \in BootSteps => usersLock = r
    /\ pc[r] \in {"boot_insert", "boot_commit"} => Registered = {}
    /\ pc[r] \in InviteSteps =>
        /\ rowLock[req[r].code] = r
        /\ invites[req[r].code].state = "live"
        /\ invites[req[r].code].uses < invites[req[r].code].max

\* Uncommitted rows of users have student ids of their own.
InsertsOK == \A r \in Inserting :
    /\ req[r].student \notin Registered
    /\ \A q \in Inserting \ {r} : req[q].student # req[r].student

\* The committed rows. Only an administrator's request makes an invite.
RowsOK ==
    /\ IsFiniteSet(Registered)
    /\ \A s \in Students : users[s].role = "none" => users[s].invite = NoInvite
    /\ Registered # {} => \E s \in Students : AdminsOf(users) = {s}
    /\ \A i \in Invites :
        /\ invites[i].state # "none" => Registered # {}
        /\ invites[i].state = "none" => invites[i] = NoInviteRow
        /\ invites[i].uses = Cardinality(UsersOf(users, i))

\* The inductive invariant.
IInv == TypeOK /\ RequestsOK /\ LocksOK /\ InsertsOK /\ RowsOK

-----------------------------------------------------------------------------
(* Steps that change nothing that is committed.                            *)

\* The empty database satisfies the invariant.
LEMMA InitIInv == Init => IInv
<1> SUFFICES ASSUME Init PROVE IInv
    OBVIOUS
<1>1. Registered = {}
    BY DEF Init, Registered
<1>2. TypeOK
    BY RegistrationAssumption
    DEF Init, TypeOK, Row, Steps, Times, Never, NoInviteRow, NoReq, NoAdminReq
<1>3. RequestsOK /\ LocksOK /\ InsertsOK
    BY DEF Init, RequestsOK, LocksOK, InsertsOK, Inserting, BootSteps, InviteSteps
<1>4. RowsOK
    <2>1. \A i \in Invites : UsersOf(users, i) = {}
        BY RegistrationAssumption DEF Init, UsersOf
    <2> QED
        BY <1>1, <2>1, FS_EmptySet DEF Init, RowsOK, NoInviteRow
<1> QED
    BY <1>2, <1>3, <1>4 DEF IInv

\* A registration that goes to step l, having what the invariant asks there.
LEMMA GotoKeeps ==
    ASSUME IInv, NEW r \in Registrars, NEW l \in Steps, Goto(r, l),
           UNCHANGED <<users, invites, now, usersLock, rowLock, req, apc, areq>>,
           pc[r] # "idle",
           l \in {"inv_lock"} \cup InviteSteps => req[r].code \in Invites,
           l \in BootSteps => usersLock = r,
           l \in {"boot_insert", "boot_commit"} => Registered = {},
           l \in InviteSteps => /\ rowLock[req[r].code] = r
                                /\ invites[req[r].code].state = "live"
                                /\ invites[req[r].code].uses < invites[req[r].code].max,
           l \in {"boot_commit", "inv_commit"} =>
                /\ req[r].student \notin Registered
                /\ \A q \in Inserting \ {r} : req[q].student # req[r].student
    PROVE  IInv'
<1>1. TypeOK'
    BY DEF IInv, TypeOK, Goto
<1>2. \A q \in Registrars : q # r => pc'[q] = pc[q]
    BY DEF IInv, TypeOK, Goto
<1>3. pc'[r] = l
    BY DEF IInv, TypeOK, Goto
<1>4. Registered' = Registered
    BY DEF Registered
<1>5. RequestsOK'
    BY <1>2, <1>3 DEF IInv, RequestsOK
<1>6. LocksOK'
    BY <1>2, <1>3, <1>4 DEF IInv, LocksOK
<1>7. InsertsOK'
    BY <1>2, <1>3, <1>4 DEF IInv, InsertsOK, Inserting
<1>8. RowsOK'
    BY <1>4 DEF IInv, RowsOK, AdminsOf, UsersOf
<1> QED
    BY <1>1, <1>5, <1>6, <1>7, <1>8 DEF IInv

\* A registration that is answered, with its locks given back if it has any.
LEMMA ReturnKeeps ==
    ASSUME IInv, NEW r \in Registrars, Return(r), Unlock(r) \/ KeepLocks,
           UNCHANGED <<users, invites, now, apc, areq>>
    PROVE  IInv'
<1>1. TypeOK'
    BY DEF IInv, TypeOK, Return, Goto, Unlock, KeepLocks, NoReq, Steps
<1>2. \A q \in Registrars : q # r => pc'[q] = pc[q] /\ req'[q] = req[q]
    BY DEF IInv, TypeOK, Return, Goto
<1>3. pc'[r] = "idle"
    BY DEF IInv, TypeOK, Return, Goto
<1>4. Registered' = Registered
    BY DEF Registered
<1>5. RequestsOK'
    BY <1>2, <1>3 DEF IInv, RequestsOK, InviteSteps
<1>6. LocksOK'
    <2>1. \A q \in Registrars : q # r /\ usersLock = q => usersLock' = q
        BY DEF Unlock, KeepLocks
    <2>2. \A q \in Registrars, i \in Invites : q # r /\ rowLock[i] = q => rowLock'[i] = q
        BY DEF Unlock, KeepLocks
    <2>3. \A q \in Registrars : pc[q] \in InviteSteps => req[q].code \in Invites
        BY DEF IInv, RequestsOK
    <2> QED
        BY <1>2, <1>3, <1>4, <2>1, <2>2, <2>3 DEF IInv, LocksOK, BootSteps, InviteSteps
<1>7. InsertsOK'
    BY <1>2, <1>3, <1>4 DEF IInv, InsertsOK, Inserting
<1>8. RowsOK'
    BY <1>4 DEF IInv, RowsOK, AdminsOf, UsersOf
<1> QED
    BY <1>1, <1>5, <1>6, <1>7, <1>8 DEF IInv

\* A registration begins.
LEMMA RegisterKeeps ==
    ASSUME IInv, NEW r \in Registrars, Register(r)
    PROVE  IInv'
<1> USE DEF KeepAdmins, KeepLocks
<1>1. PICK s \in Students, i \in Invites \cup {NoInvite} :
        /\ pc' = [pc EXCEPT ![r] = "find"]
        /\ req' = [req EXCEPT ![r] = [student |-> s, code |-> i]]
    BY DEF Register, Goto
<1>2. UNCHANGED <<users, invites, now, usersLock, rowLock, apc, areq>>
    BY DEF Register
<1>3. TypeOK'
    BY <1>1, <1>2 DEF IInv, TypeOK, Steps
<1>4. \A q \in Registrars : q # r => pc'[q] = pc[q] /\ req'[q] = req[q]
    BY <1>1 DEF IInv, TypeOK
<1>5. pc'[r] = "find" /\ req'[r].student \in Students
    BY <1>1 DEF IInv, TypeOK
<1>6. Registered' = Registered
    BY <1>2 DEF Registered
<1>7. RequestsOK'
    BY <1>2, <1>4, <1>5 DEF IInv, RequestsOK, InviteSteps
<1>8. LocksOK'
    BY <1>2, <1>4, <1>5, <1>6 DEF IInv, LocksOK, BootSteps, InviteSteps
<1>9. InsertsOK'
    BY <1>4, <1>5, <1>6 DEF IInv, InsertsOK, Inserting
<1>10. RowsOK'
    BY <1>2, <1>6 DEF IInv, RowsOK, AdminsOf, UsersOf
<1> QED
    BY <1>3, <1>7, <1>8, <1>9, <1>10 DEF IInv

\* The reads that decide which transaction is tried, and a bootstrap's count.
LEMMA ReadsKeep ==
    ASSUME IInv, NEW r \in Registrars, Reads(r)
    PROVE  IInv'
<1> USE DEF KeepAdmins, KeepLocks
<1>1. CASE FindByStudentID(r)
    <2>1. CASE Return(r)
        BY <1>1, <2>1, ReturnKeeps DEF FindByStudentID, Read
    <2>2. CASE Goto(r, "count") /\ UNCHANGED req
        BY <1>1, <2>2, GotoKeeps
        DEF FindByStudentID, Read, Steps, BootSteps, InviteSteps
    <2> QED
        BY <1>1, <2>1, <2>2 DEF FindByStudentID, Read
<1>2. CASE CountUsers(r)
    BY <1>2, GotoKeeps DEF CountUsers, Read, Steps, BootSteps, InviteSteps
<1>3. CASE FindByCode(r)
    <2>1. CASE Return(r)
        BY <1>3, <2>1, ReturnKeeps DEF FindByCode, Read
    <2>2. CASE Goto(r, "inv_lock") /\ UNCHANGED req /\ req[r].code # NoInvite
        <3>1. req[r].code \in Invites
            BY <2>2 DEF IInv, TypeOK
        <3> QED
            BY <1>3, <2>2, <3>1, GotoKeeps
            DEF FindByCode, Read, Steps, BootSteps, InviteSteps
    <2> QED
        BY <1>3, <2>1, <2>2 DEF FindByCode, Read
<1>4. CASE BootstrapCount(r)
    <2>1. CASE Rollback(r)
        BY <2>1, ReturnKeeps DEF Rollback
    <2>2. CASE Registered = {} /\ Read(r, FALSE, "boot_insert")
        <3>1. usersLock = r
            BY <1>4 DEF BootstrapCount, IInv, LocksOK, BootSteps
        <3> QED
            BY <1>4, <2>2, <3>1, GotoKeeps
            DEF BootstrapCount, Read, Steps, BootSteps, InviteSteps
    <2> QED
        BY <1>4, <2>1, <2>2 DEF BootstrapCount
<1> QED
    BY <1>1, <1>2, <1>3, <1>4 DEF Reads

\* The statements that wait for locks: each finds what the steps after it rely
\* on under the lock that guards it.
LEMMA WaitsKeep ==
    ASSUME IInv, NEW r \in Registrars, Waits(r)
    PROVE  IInv'
<1> USE DEF KeepAdmins, KeepLocks
<1>1. CASE LockUsers(r)
    <2>1. /\ pc' = [pc EXCEPT ![r] = "boot_count"]
          /\ usersLock' = r
          /\ pc[r] = "boot_lock"
          /\ usersLock = NoRegistrar
          /\ UNCHANGED <<users, invites, now, rowLock, req, apc, areq>>
        BY <1>1 DEF LockUsers, Goto
    <2>2. TypeOK'
        BY <2>1 DEF IInv, TypeOK, Steps
    <2>3. \A q \in Registrars : pc'[q] = IF q = r THEN "boot_count" ELSE pc[q]
        BY <2>1 DEF IInv, TypeOK
    <2>4. Registered' = Registered
        BY <2>1 DEF Registered
    <2>5. RequestsOK'
        BY <2>1, <2>3 DEF IInv, RequestsOK, InviteSteps
    <2>6. LocksOK'
        <3>1. \A q \in Registrars : pc[q] \notin BootSteps
            BY <2>1, RegistrationAssumption DEF IInv, LocksOK
        <3> QED
            BY <2>1, <2>3, <2>4, <3>1 DEF IInv, LocksOK, BootSteps, InviteSteps
    <2>7. InsertsOK'
        BY <2>1, <2>3, <2>4 DEF IInv, InsertsOK, Inserting
    <2>8. RowsOK'
        BY <2>1, <2>4 DEF IInv, RowsOK, AdminsOf, UsersOf
    <2> QED
        BY <2>2, <2>5, <2>6, <2>7, <2>8 DEF IInv
<1>2. CASE BootstrapInsert(r)
    <2>1. CASE Rollback(r)
        BY <2>1, ReturnKeeps DEF Rollback
    <2>2. CASE req[r].student \notin Registered /\ Goto(r, "boot_commit")
               /\ UNCHANGED <<users, invites, now, usersLock, rowLock, req, apc, areq>>
        <3>1. usersLock = r /\ Registered = {}
            BY <1>2 DEF BootstrapInsert, IInv, LocksOK, BootSteps
        <3>2. \A q \in Inserting \ {r} : req[q].student # req[r].student
            BY <1>2 DEF BootstrapInsert, Insert, InsertWaits
        <3> QED
            BY <1>2, <2>2, <3>1, <3>2, GotoKeeps
            DEF BootstrapInsert, Steps, BootSteps, InviteSteps
    <2> QED
        BY <1>2, <2>1, <2>2 DEF BootstrapInsert, Insert
<1>3. CASE LockInvite(r)
    <2> DEFINE c == req[r].code
    <2>1. CASE Return(r) /\ KeepLocks
        BY <1>3, <2>1, ReturnKeeps DEF LockInvite
    <2>2. CASE /\ invites[c].state = "live" /\ invites[c].uses < invites[c].max
               /\ rowLock' = [rowLock EXCEPT ![c] = r]
               /\ Goto(r, "inv_insert")
               /\ UNCHANGED <<usersLock, req>>
        <3>0. /\ c \in Invites /\ rowLock[c] = NoRegistrar /\ pc[r] = "inv_lock"
              /\ UNCHANGED <<users, invites, now, apc, areq>>
            BY <1>3 DEF LockInvite, IInv, RequestsOK
        <3>1. TypeOK'
            BY <2>2, <3>0 DEF IInv, TypeOK, Goto, Steps
        <3>2. \A q \in Registrars : pc'[q] = IF q = r THEN "inv_insert" ELSE pc[q]
            BY <2>2 DEF IInv, TypeOK, Goto
        <3>3. \A i \in Invites : rowLock'[i] = IF i = c THEN r ELSE rowLock[i]
            BY <2>2 DEF IInv, TypeOK
        <3>4. Registered' = Registered
            BY <3>0 DEF Registered
        <3>5. RequestsOK'
            BY <2>2, <3>0, <3>2 DEF IInv, RequestsOK, InviteSteps
        <3>6. LocksOK'
            <4>1. \A q \in Registrars : pc[q] \in InviteSteps
                    => req[q].code \in Invites /\ req[q].code # c
                BY <3>0, RegistrationAssumption DEF IInv, LocksOK, RequestsOK
            <4> QED
                BY <2>2, <3>0, <3>2, <3>3, <3>4, <4>1
                DEF IInv, LocksOK, BootSteps, InviteSteps
        <3>7. InsertsOK'
            BY <2>2, <3>0, <3>2, <3>4 DEF IInv, InsertsOK, Inserting
        <3>8. RowsOK'
            BY <3>0, <3>4 DEF IInv, RowsOK, AdminsOf, UsersOf
        <3> QED
            BY <3>1, <3>5, <3>6, <3>7, <3>8 DEF IInv
    <2> QED
        BY <1>3, <2>1, <2>2 DEF LockInvite
<1>4. CASE InviteInsert(r)
    <2>1. CASE Rollback(r)
        BY <2>1, ReturnKeeps DEF Rollback
    <2>2. CASE req[r].student \notin Registered /\ Goto(r, "inv_commit")
               /\ UNCHANGED <<users, invites, now, usersLock, rowLock, req, apc, areq>>
        <3>1. /\ rowLock[req[r].code] = r
              /\ req[r].code \in Invites
              /\ invites[req[r].code].state = "live"
              /\ invites[req[r].code].uses < invites[req[r].code].max
            BY <1>4 DEF InviteInsert, IInv, LocksOK, RequestsOK, InviteSteps
        <3>2. \A q \in Inserting \ {r} : req[q].student # req[r].student
            BY <1>4 DEF InviteInsert, Insert, InsertWaits
        <3> QED
            BY <1>4, <2>2, <3>1, <3>2, GotoKeeps
            DEF InviteInsert, Steps, BootSteps, InviteSteps
    <2> QED
        BY <1>4, <2>1, <2>2 DEF InviteInsert, Insert
<1> QED
    BY <1>1, <1>2, <1>3, <1>4 DEF Waits

-----------------------------------------------------------------------------
(* Commits.                                                                *)

\* The answered registration's part of a commit.
LEMMA CommitReturns ==
    ASSUME IInv, NEW r \in Registrars, Return(r), Unlock(r)
    PROVE  /\ \A q \in Registrars : q # r => pc'[q] = pc[q] /\ req'[q] = req[q]
           /\ pc'[r] = "idle"
           /\ \A q \in Registrars : q # r /\ usersLock = q => usersLock' = q
           /\ \A q \in Registrars, i \in Invites : q # r /\ rowLock[i] = q => rowLock'[i] = q
    BY DEF IInv, TypeOK, Return, Goto, Unlock

\* While a bootstrap commits no other transaction on users has an insert
\* before it: a second bootstrap would need the lock, and an invite an account.
LEMMA BootstrapAlone ==
    ASSUME IInv, NEW r \in Registrars, pc[r] = "boot_commit"
    PROVE  /\ Registered = {}
           /\ \A q \in Registrars : q # r => pc[q] \notin BootSteps \cup InviteSteps
<1>1. Registered = {} /\ usersLock = r
    BY DEF IInv, LocksOK, BootSteps
<1>2. ASSUME NEW q \in Registrars, pc[q] \in InviteSteps PROVE FALSE
    BY <1>1, <1>2 DEF IInv, LocksOK, RequestsOK, RowsOK
<1> QED
    BY <1>1, <1>2 DEF IInv, LocksOK

\* The first account.
LEMMA BootstrapCommitKeeps ==
    ASSUME IInv, NEW r \in Registrars, BootstrapCommit(r)
    PROVE  IInv'
<1> DEFINE s == req[r].student
<1>1. /\ pc[r] = "boot_commit"
      /\ s \in Students
      /\ users' = [users EXCEPT ![s] = [role |-> "admin", invite |-> NoInvite]]
      /\ Unlock(r) /\ Return(r)
      /\ UNCHANGED <<invites, now, apc, areq>>
    BY DEF BootstrapCommit, KeepAdmins, IInv, RequestsOK
<1>2. TypeOK'
    BY <1>1 DEF IInv, TypeOK, Return, Goto, Unlock, NoReq, Steps
<1>3. /\ Registered = {}
      /\ \A q \in Registrars : q # r => pc[q] \notin BootSteps \cup InviteSteps
    BY <1>1, BootstrapAlone
<1>4. /\ \A q \in Registrars : q # r => pc'[q] = pc[q] /\ req'[q] = req[q]
      /\ pc'[r] = "idle"
    BY <1>1, CommitReturns
<1>5. \A t \in Students : users'[t] = IF t = s THEN [role |-> "admin", invite |-> NoInvite]
                                              ELSE users[t]
    BY <1>1 DEF IInv, TypeOK
<1>6. Registered' = {s}
    BY <1>1, <1>3, <1>5 DEF Registered
<1>7. RequestsOK'
    BY <1>1, <1>4 DEF IInv, RequestsOK, InviteSteps
<1>8. LocksOK'
    BY <1>3, <1>4 DEF LocksOK, BootSteps, InviteSteps
<1>9. InsertsOK'
    BY <1>3, <1>4 DEF InsertsOK, Inserting, BootSteps, InviteSteps
<1>10. RowsOK'
    <2>1. \A t \in Students : users[t].role = "none" /\ users[t].invite = NoInvite
        BY <1>3 DEF Registered, IInv, RowsOK
    <2>2. AdminsOf(users') = {s}
        BY <1>1, <1>5, <2>1 DEF AdminsOf
    <2>3. \A i \in Invites : UsersOf(users', i) = UsersOf(users, i)
        BY <1>5, <2>1 DEF UsersOf
    <2>4. IsFiniteSet(Registered')
        BY <1>6, FS_Singleton
    <2>5. \A t \in Students : users'[t].role = "none" => users'[t].invite = NoInvite
        BY <1>5, <2>1
    <2>6. \A i \in Invites : /\ invites'[i].state = "none" => invites'[i] = NoInviteRow
                             /\ invites'[i].uses = Cardinality(UsersOf(users', i))
        BY <1>1, <2>3 DEF IInv, RowsOK
    <2> QED
        BY <1>1, <1>6, <2>2, <2>4, <2>5, <2>6 DEF RowsOK
<1> QED
    BY <1>2, <1>7, <1>8, <1>9, <1>10 DEF IInv

\* What the locks guarantee a registration that is about to commit: its invite
\* has a use left and its student id is still free.
LEMMA InviteCommitFinds ==
    ASSUME IInv, NEW r \in Registrars, pc[r] = "inv_commit"
    PROVE  /\ req[r].student \in Students /\ req[r].code \in Invites
           /\ rowLock[req[r].code] = r
           /\ invites[req[r].code].state = "live"
           /\ invites[req[r].code].uses < invites[req[r].code].max
           /\ req[r].student \notin Registered
           /\ users[req[r].student] = [role |-> "none", invite |-> NoInvite]
<1>1. /\ req[r].student \in Students /\ req[r].code \in Invites
      /\ rowLock[req[r].code] = r
      /\ invites[req[r].code].state = "live"
      /\ invites[req[r].code].uses < invites[req[r].code].max
    BY DEF IInv, RequestsOK, LocksOK, InviteSteps
<1>2. req[r].student \notin Registered
    BY DEF IInv, InsertsOK, Inserting
<1> QED
    BY <1>1, <1>2 DEF IInv, RowsOK, TypeOK, Registered

\* An account for an invite.
LEMMA InviteCommitKeeps ==
    ASSUME IInv, NEW r \in Registrars, InviteCommit(r)
    PROVE  IInv'
<1> DEFINE s == req[r].student
           c == req[r].code
<1>0. /\ s \in Students /\ c \in Invites /\ s \notin Registered
      /\ rowLock[c] = r /\ invites[c].state = "live"
      /\ users[s] = [role |-> "none", invite |-> NoInvite]
    BY InviteCommitFinds DEF InviteCommit
<1>1. /\ pc[r] = "inv_commit"
      /\ users' = [users EXCEPT ![s] = [role |-> "user", invite |-> c]]
      /\ invites' = [invites EXCEPT ![c].uses = @ + 1, ![c].usedBy = s]
      /\ Unlock(r) /\ Return(r)
      /\ UNCHANGED <<now, apc, areq>>
    BY DEF InviteCommit, KeepAdmins
<1>2. TypeOK'
    <2>1. users' \in [Students -> [role : {"none", "user", "admin"},
                                   invite : Invites \cup {NoInvite}]]
        BY <1>0, <1>1 DEF IInv, TypeOK
    <2>2. invites' \in [Invites -> Row]
        <3>1. invites \in [Invites -> Row]
            BY DEF IInv, TypeOK
        <3> QED
            BY <1>0, <1>1, <3>1 DEF Row
    <2>3. \A i \in Invites : invites'[i].state = invites[i].state
                             /\ invites'[i].max = invites[i].max
        BY <1>0, <1>1 DEF IInv, TypeOK, Row
    <2> QED
        BY <1>1, <2>1, <2>2, <2>3 DEF IInv, TypeOK, Return, Goto, Unlock, NoReq, Steps
<1>3. /\ \A q \in Registrars : q # r => pc'[q] = pc[q] /\ req'[q] = req[q]
      /\ pc'[r] = "idle"
      /\ \A q \in Registrars : q # r /\ usersLock = q => usersLock' = q
      /\ \A q \in Registrars, i \in Invites : q # r /\ rowLock[i] = q => rowLock'[i] = q
    BY <1>1, CommitReturns
<1>4. \A t \in Students : users'[t] = IF t = s THEN [role |-> "user", invite |-> c]
                                              ELSE users[t]
    BY <1>1 DEF IInv, TypeOK
<1>5. /\ invites'[c].uses = invites[c].uses + 1 /\ invites'[c].state = "live"
      /\ \A i \in Invites : i # c => invites'[i] = invites[i]
    BY <1>0, <1>1 DEF IInv, TypeOK, Row
<1>6. Registered' = Registered \cup {s}
    BY <1>0, <1>4 DEF Registered
<1>7. Registered # {}
    BY <1>0 DEF IInv, RowsOK
<1>8. RequestsOK'
    BY <1>1, <1>3 DEF IInv, RequestsOK, InviteSteps
<1>9. LocksOK'
    <2>1. \A q \in Registrars : q # r /\ pc[q] \in InviteSteps
            => req[q].code \in Invites /\ req[q].code # c
        BY <1>0 DEF IInv, LocksOK, RequestsOK
    <2> QED
        BY <1>3, <1>5, <1>7, <2>1 DEF IInv, LocksOK, BootSteps, InviteSteps
<1>10. InsertsOK'
    BY <1>1, <1>3, <1>6 DEF IInv, InsertsOK, Inserting
<1>11. RowsOK'
    <2>1. IsFiniteSet(Registered) /\ IsFiniteSet(Registered')
        BY <1>6, FS_AddElement DEF IInv, RowsOK
    <2>2. AdminsOf(users') = AdminsOf(users)
        BY <1>0, <1>4 DEF AdminsOf
    <2>3. \A i \in Invites : i # c => UsersOf(users', i) = UsersOf(users, i)
        BY <1>0, <1>4, RegistrationAssumption DEF UsersOf
    <2>4. UsersOf(users', c) = UsersOf(users, c) \cup {s}
        BY <1>0, <1>4 DEF UsersOf
    <2>5. s \notin UsersOf(users, c)
        BY <1>0, RegistrationAssumption DEF UsersOf
    <2>6. UsersOf(users, c) \in SUBSET Registered
        BY <1>0, RegistrationAssumption DEF UsersOf, Registered, IInv, RowsOK
    <2>7. IsFiniteSet(UsersOf(users, c))
        BY <2>1, <2>6, FS_Subset
    <2>8. Cardinality(UsersOf(users', c)) = Cardinality(UsersOf(users, c)) + 1
        BY <2>4, <2>5, <2>7, FS_AddElement
    <2>9. \A i \in Invites : invites'[i].uses = Cardinality(UsersOf(users', i))
        BY <1>5, <2>3, <2>8 DEF IInv, RowsOK
    <2>10. \A t \in Students : users'[t].role = "none" => users'[t].invite = NoInvite
        BY <1>4 DEF IInv, RowsOK
    <2>11. \E t \in Students : AdminsOf(users') = {t}
        BY <1>7, <2>2 DEF IInv, RowsOK
    <2>12. \A i \in Invites : /\ invites'[i].state # "none" => Registered' # {}
                              /\ invites'[i].state = "none" => invites'[i] = NoInviteRow
        BY <1>5, <1>6 DEF IInv, RowsOK
    <2> QED
        BY <2>1, <2>9, <2>10, <2>11, <2>12 DEF RowsOK
<1> QED
    BY <1>2, <1>8, <1>9, <1>10, <1>11 DEF IInv

-----------------------------------------------------------------------------
(* Administrators.                                                         *)

\* An administrator's request that leaves every use_count alone, and the rows
\* that are locked.
LEMMA InvitesKeep ==
    ASSUME IInv, TypeOK', KeepRegistrars,
           \A a \in Admins : apc'[a] # "idle" =>
                areq'[a].invite \in Invites /\ areq'[a].max \in Asked,
           \A i \in Invites : /\ invites'[i].uses = invites[i].uses
                              /\ invites'[i].state # "none" => Registered # {}
                              /\ invites'[i].state = "none" => invites'[i] = NoInviteRow
                              /\ invites[i].state = "live" /\ rowLock[i] # NoRegistrar
                                    => invites'[i] = invites[i]
    PROVE  IInv'
<1> USE DEF KeepRegistrars
<1>1. Registered' = Registered
    BY DEF Registered
<1>2. RequestsOK'
    BY DEF IInv, RequestsOK
<1>3. LocksOK'
    <2>1. \A q \in Registrars : pc[q] \in InviteSteps
            => invites'[req[q].code] = invites[req[q].code]
        BY RegistrationAssumption DEF IInv, LocksOK, RequestsOK
    <2> QED
        BY <1>1, <2>1 DEF IInv, LocksOK
<1>4. InsertsOK'
    BY <1>1 DEF IInv, InsertsOK, Inserting
<1>5. RowsOK'
    BY <1>1 DEF IInv, RowsOK, AdminsOf, UsersOf
<1> QED
    BY <1>2, <1>3, <1>4, <1>5 DEF IInv

\* A new invite.
LEMMA CreateInviteKeeps ==
    ASSUME IInv, NEW a \in Admins, CreateInvite(a)
    PROVE  IInv'
<1>1. PICK i \in Invites, m \in MaxUses :
        /\ m >= 1
        /\ AdminExists
        /\ invites[i].state = "none"
        /\ invites' = [invites EXCEPT ![i] = [NoInviteRow EXCEPT !.state = "live", !.max = m,
                                                                 !.expires = now + 1]]
        /\ KeepRegistrars /\ UNCHANGED <<apc, areq>>
    BY DEF CreateInvite
<1>2. now + 1 \in Times /\ m \in Nat
    BY <1>1, RegistrationAssumption DEF IInv, TypeOK, Times, Never
<1>3. invites'[i] = [state |-> "live", max |-> m, uses |-> 0,
                     usedBy |-> NoStudent, expires |-> now + 1]
    BY <1>1 DEF NoInviteRow, IInv, TypeOK
<1>4. TypeOK'
    <2>1. invites' \in [Invites -> Row]
        BY <1>1, <1>2 DEF NoInviteRow, IInv, TypeOK, Row
    <2> QED
        BY <1>1, <1>3, <2>1 DEF KeepRegistrars, IInv, TypeOK
<1>5. invites[i].uses = 0
    BY <1>1 DEF IInv, RowsOK, NoInviteRow
<1>6. Registered # {}
    BY <1>1 DEF AdminExists, Registered
<1>7. \A j \in Invites : j # i => invites'[j] = invites[j]
    BY <1>1 DEF IInv, TypeOK
<1>8. \A j \in Invites : /\ invites'[j].uses = invites[j].uses
                         /\ invites'[j].state # "none" => Registered # {}
                         /\ invites'[j].state = "none" => invites'[j] = NoInviteRow
                         /\ invites[j].state = "live" /\ rowLock[j] # NoRegistrar
                                => invites'[j] = invites[j]
    BY <1>1, <1>3, <1>5, <1>6, <1>7 DEF IInv, RowsOK
<1> QED
    BY <1>1, <1>4, <1>8, InvitesKeep DEF IInv, RequestsOK

\* A request on an invite reads its row.
LEMMA AdminReadsKeep ==
    ASSUME IInv, NEW a \in Admins, NEW i \in Invites, NEW m \in Asked,
           NEW e \in Times, NEW l \in {"update", "delete"}, AdminReads(a, i, l, m, e)
    PROVE  IInv'
<1>1. m \in Nat \cup {NoMax}
    BY RegistrationAssumption DEF Asked
<1>2. TypeOK'
    BY <1>1 DEF AdminReads, KeepRegistrars, IInv, TypeOK
<1>3. \A b \in Admins : apc'[b] # "idle" =>
        areq'[b].invite \in Invites /\ areq'[b].max \in Asked
    BY DEF AdminReads, IInv, TypeOK, RequestsOK
<1>4. invites' = invites /\ KeepRegistrars
    BY DEF AdminReads
<1> QED
    BY <1>2, <1>3, <1>4, InvitesKeep DEF IInv, RowsOK

\* The row of an administrator's write: the invite's, changed by the request.
WrittenRow(a) ==
    {[invites[areq[a].invite] EXCEPT
         !.max = IF areq[a].max = NoMax THEN @ ELSE areq[a].max,
         !.expires = IF areq[a].expires = 0 THEN @ ELSE areq[a].expires],
     [invites[areq[a].invite] EXCEPT !.state = "deleted"]}

\* A request on an invite writes its row, unless it was deleted meanwhile.
LEMMA AdminWritesKeep ==
    ASSUME IInv, NEW a \in Admins, NEW l \in {"update", "delete"},
           NEW row \in WrittenRow(a), AdminWrites(a, l, row)
    PROVE  IInv'
<1> DEFINE i == areq[a].invite
<1>1. /\ i \in Invites
      /\ areq[a].max \in Asked
    BY DEF AdminWrites, IInv, RequestsOK
<1>2. /\ areq[a].max # NoMax => areq[a].max \in Nat /\ areq[a].max >= 1
      /\ areq[a].expires \in Times /\ invites[i] \in Row
    BY <1>1, RegistrationAssumption DEF IInv, TypeOK, Asked
<1>3. row \in Row /\ row.uses = invites[i].uses
      /\ (invites[i].state = "live" => row.state # "none" /\ row.max >= 1)
    BY <1>1, <1>2 DEF WrittenRow, Row, IInv, TypeOK
<1>4. /\ apc' = [apc EXCEPT ![a] = "idle"]
      /\ areq' = [areq EXCEPT ![a] = NoAdminReq]
      /\ rowLock[i] = NoRegistrar
      /\ KeepRegistrars
      /\ invites' = IF invites[i].state = "live" THEN [invites EXCEPT ![i] = row] ELSE invites
    BY DEF AdminWrites
<1>5. TypeOK'
    <2>1. NoAdminReq \in [invite : Invites \cup {NoInvite}, max : Nat \cup {NoMax},
                         expires : Times]
        BY RegistrationAssumption DEF NoAdminReq, Times, Never
    <2>2. invites' \in [Invites -> Row]
        BY <1>1, <1>3, <1>4 DEF IInv, TypeOK
    <2>3. \A j \in Invites : invites'[j].state # "none" => invites'[j].max >= 1
        BY <1>1, <1>3, <1>4 DEF IInv, TypeOK
    <2> QED
        BY <1>4, <2>1, <2>2, <2>3 DEF KeepRegistrars, IInv, TypeOK
<1>6. \A b \in Admins : apc'[b] # "idle" =>
        areq'[b].invite \in Invites /\ areq'[b].max \in Asked
    BY <1>4 DEF IInv, TypeOK, RequestsOK
<1>7. \A j \in Invites : j # i \/ invites[i].state # "live" => invites'[j] = invites[j]
    BY <1>4 DEF IInv, TypeOK
<1>8. invites[i].state = "live" => invites'[i] = row
    BY <1>1, <1>4 DEF IInv, TypeOK
<1>9. \A j \in Invites : /\ invites'[j].uses = invites[j].uses
                         /\ invites'[j].state # "none" => Registered # {}
                         /\ invites'[j].state = "none" => invites'[j] = NoInviteRow
                         /\ invites[j].state = "live" /\ rowLock[j] # NoRegistrar
                                => invites'[j] = invites[j]
    BY <1>1, <1>3, <1>4, <1>7, <1>8 DEF IInv, RowsOK
<1> QED
    BY <1>4, <1>5, <1>6, <1>9, InvitesKeep

\* Every administrator's step.
LEMMA AdminKeeps ==
    ASSUME IInv, NEW a \in Admins,
           CreateInvite(a) \/ UpdateInviteRead(a) \/ DeleteInviteRead(a) \/ AdminStep(a)
    PROVE  IInv'
<1>1. ExpiryChoices \subseteq Times /\ 0 \in Times
    BY RegistrationAssumption DEF IInv, TypeOK, ExpiryChoices, Times, Never
<1>2. CASE UpdateInviteRead(a)
    BY <1>1, <1>2, AdminReadsKeep DEF UpdateInviteRead, Asked
<1>3. CASE DeleteInviteRead(a)
    BY <1>1, <1>3, AdminReadsKeep DEF DeleteInviteRead, Asked
<1>4. CASE AdminStep(a)
    BY <1>4, AdminWritesKeep DEF AdminStep, UpdateInviteWrite, DeleteInviteWrite, WrittenRow
<1> QED
    BY <1>2, <1>3, <1>4, CreateInviteKeeps

-----------------------------------------------------------------------------
(* The invariant and what follows from it.                                 *)

\* Time passes.
LEMMA TickKeeps == IInv /\ Tick => IInv'
<1> SUFFICES ASSUME IInv, Tick PROVE IInv'
    OBVIOUS
<1>1. TypeOK'
    BY RegistrationAssumption DEF Tick, IInv, TypeOK
<1>2. RequestsOK' /\ LocksOK' /\ InsertsOK' /\ RowsOK'
    BY DEF Tick, IInv, RequestsOK, LocksOK, InsertsOK, Inserting, RowsOK,
           Registered, AdminsOf, UsersOf
<1> QED
    BY <1>1, <1>2 DEF IInv

\* Nothing happens.
LEMMA StutterKeeps == IInv /\ UNCHANGED vars => IInv'
<1> SUFFICES ASSUME IInv, UNCHANGED vars PROVE IInv'
    OBVIOUS
<1>1. TypeOK' /\ RequestsOK'
    BY DEF vars, IInv, TypeOK, RequestsOK
<1>2. LocksOK' /\ InsertsOK'
    BY DEF vars, IInv, LocksOK, InsertsOK, Inserting, Registered
<1>3. RowsOK'
    BY DEF vars, IInv, RowsOK, Registered, AdminsOf, UsersOf
<1> QED
    BY <1>1, <1>2, <1>3 DEF IInv

\* Every step keeps the invariant.
LEMMA NextIInv == IInv /\ [Next]_vars => IInv'
<1> SUFFICES ASSUME IInv, [Next]_vars PROVE IInv'
    OBVIOUS
<1>1. ASSUME NEW r \in Registrars, Commits(r) PROVE IInv'
    BY <1>1, BootstrapCommitKeeps, InviteCommitKeeps DEF Commits
<1>2. ASSUME NEW r \in Registrars, Abort(r) PROVE IInv'
    BY <1>2, ReturnKeeps DEF Abort, Rollback, KeepAdmins
<1> QED
    BY <1>1, <1>2, RegisterKeeps, ReadsKeep, WaitsKeep, AdminKeeps, TickKeeps, StutterKeeps
    DEF Next

\* The inductive invariant holds however registrations and the requests of
\* administrators interleave, wait for locks and fail.
THEOREM Invariance == Spec => []IInv
    BY InitIInv, NextIInv, PTL DEF Spec

\* Type correctness of every transaction, abandoned ones included.
THEOREM TypeCorrect == Spec => []TypeOK
<1>1. IInv => TypeOK
    BY DEF IInv
<1> QED
    BY <1>1, Invariance, PTL

\* However many registrations race on the empty table of users, one of them
\* makes the administrator, and none makes an account before it.
THEOREM OneAdmin == Spec => []SingleAdmin
<1>1. IInv => SingleAdmin
    BY FS_Singleton DEF IInv, RowsOK, AdminsOf, SingleAdmin
<1> QED
    BY <1>1, Invariance, PTL

\* use_count is the number of accounts that registered with the invite.
THEOREM UsesCounted == Spec => []UsageAccounted
<1>1. IInv => UsageAccounted
    BY DEF IInv, RowsOK, UsersOf, UsageAccounted
<1> QED
    BY <1>1, Invariance, PTL

\* The steps that change what is committed.
LEMMA Writers ==
    ASSUME [Next]_vars
    PROVE  \/ UNCHANGED <<users, invites>>
           \/ \E r \in Registrars : Commits(r)
           \/ \E a \in Admins : CreateInvite(a) \/ AdminStep(a)
<1>1. ASSUME NEW r \in Registrars, Register(r) \/ Reads(r) \/ Abort(r)
      PROVE  UNCHANGED <<users, invites>>
    BY <1>1 DEF Register, Reads, Abort, Rollback, FindByStudentID, CountUsers, FindByCode,
                BootstrapCount, Read
<1>2. ASSUME NEW r \in Registrars, Waits(r) PROVE UNCHANGED <<users, invites>>
    BY <1>2 DEF Waits, LockUsers, BootstrapInsert, LockInvite, InviteInsert, Insert, Rollback
<1>3. ASSUME NEW a \in Admins, UpdateInviteRead(a) \/ DeleteInviteRead(a)
      PROVE  UNCHANGED <<users, invites>>
    BY <1>3 DEF UpdateInviteRead, DeleteInviteRead, AdminReads, KeepRegistrars
<1> QED
    BY <1>1, <1>2, <1>3 DEF Next, Tick, vars

\* What a commit writes, in a state that the invariant describes.
LEMMA InviteCommitWrites ==
    ASSUME IInv, NEW r \in Registrars, InviteCommit(r)
    PROVE  LET c == req[r].code
           IN  /\ c \in Invites
               /\ invites' = [invites EXCEPT ![c] =
                    [invites[c] EXCEPT !.uses = @ + 1, !.usedBy = req[r].student]]
               /\ invites[c].uses < invites[c].max
    BY InviteCommitFinds DEF InviteCommit, IInv, TypeOK, Row

\* An administrator's write, if the invite is still there.
LEMMA AdminStepWrites ==
    ASSUME IInv, NEW a \in Admins, AdminStep(a)
    PROVE  LET i == areq[a].invite
           IN  /\ i \in Invites /\ areq[a].max \in Asked
               /\ UNCHANGED users
               /\ \/ UNCHANGED invites
                  \/ /\ invites[i].state = "live"
                     /\ \E row \in WrittenRow(a) : invites' = [invites EXCEPT ![i] = row]
<1>1. areq[a].invite \in Invites /\ areq[a].max \in Asked
    BY DEF AdminStep, UpdateInviteWrite, DeleteInviteWrite, AdminWrites, IInv, RequestsOK
<1> QED
    BY <1>1 DEF AdminStep, UpdateInviteWrite, DeleteInviteWrite, AdminWrites, WrittenRow,
                KeepRegistrars

\* The row that a registration found to have a use left is still that row when
\* it commits, so no race takes use_count past max_uses, also when a request
\* that lowers max_uses is under way.
THEOREM UsesBounded == Spec => NoOveruse
<1>1. ASSUME IInv, [Next]_vars, NEW i \in Invites, invites'[i].uses > invites[i].uses
      PROVE  invites'[i].uses <= invites'[i].max
    <2>0. invites[i] \in Row /\ invites \in [Invites -> Row]
        BY <1>1 DEF IInv, TypeOK
    <2>1. CASE UNCHANGED <<users, invites>>
        BY <1>1, <2>0, <2>1 DEF Row
    <2>2. ASSUME NEW r \in Registrars, BootstrapCommit(r) PROVE FALSE
        BY <1>1, <2>0, <2>2 DEF BootstrapCommit, Row
    <2>3. ASSUME NEW r \in Registrars, InviteCommit(r)
          PROVE  invites'[i].uses <= invites'[i].max
        <3>1. PICK c \in Invites :
                /\ c = req[r].code /\ invites[c].uses < invites[c].max
                /\ invites' = [invites EXCEPT ![c] =
                    [invites[c] EXCEPT !.uses = @ + 1, !.usedBy = req[r].student]]
            BY <1>1, <2>3, InviteCommitWrites
        <3>2. i = c
            BY <1>1, <2>0, <3>1 DEF Row
        <3>3. invites'[i] = [invites[i] EXCEPT !.uses = @ + 1, !.usedBy = req[r].student]
            BY <2>0, <3>1, <3>2
        <3> QED
            BY <2>0, <3>1, <3>2, <3>3 DEF Row
    <2>4. ASSUME NEW a \in Admins, CreateInvite(a) PROVE FALSE
        <3>1. PICK j \in Invites :
                /\ invites[j].state = "none"
                /\ \A k \in Invites : k # j => invites'[k] = invites[k]
                /\ invites'[j].uses = 0
            BY <2>0, <2>4 DEF CreateInvite, NoInviteRow
        <3> QED
            BY <1>1, <2>0, <3>1 DEF Row
    <2>5. ASSUME NEW a \in Admins, AdminStep(a) PROVE FALSE
        <3>1. PICK j \in Invites :
                /\ j = areq[a].invite
                /\ \/ UNCHANGED invites
                   \/ \E row \in WrittenRow(a) : invites' = [invites EXCEPT ![j] = row]
            BY <1>1, <2>5, AdminStepWrites
        <3>2. \A row \in WrittenRow(a) : row.uses = invites[j].uses
            <4>1. invites[j] \in Row
                BY <2>0, <3>1
            <4> QED
                BY <3>1, <4>1 DEF WrittenRow, Row
        <3>3. invites'[i].uses = invites[i].uses
            BY <2>0, <3>1, <3>2
        <3> QED
            BY <1>1, <2>0, <3>3 DEF Row
    <2> QED
        BY <1>1, <2>1, <2>2, <2>3, <2>4, <2>5, Writers DEF Commits
<1>2. IInv /\ [Next]_vars =>
        [\A i \in Invites : invites'[i].uses > invites[i].uses
                              => invites'[i].uses <= invites'[i].max]_vars
    BY <1>1
<1> QED
    BY <1>2, Invariance, PTL DEF Spec, NoOveruse

-----------------------------------------------------------------------------
(* Registration implements InviteLedger.                                   *)

Book(row) == [state |-> row.state, max |-> row.max, uses |-> row.uses]

\* A step of the ledger, in terms of the committed rows.
LEMMA LedgerSteps ==
    ASSUME IInv, [Next]_vars
    PROVE  [Ledger!LedgerNext]_<<users, [i \in Invites |-> Book(invites[i])]>>
<1> DEFINE books == [i \in Invites |-> Book(invites[i])]
<1>0. users \in [Students -> [role : {"none", "user", "admin"},
                              invite : Invites \cup {NoInvite}]]
      /\ invites \in [Invites -> Row]
    BY DEF IInv, TypeOK
<1>1. CASE UNCHANGED <<users, invites>>
    BY <1>1
<1>2. ASSUME NEW r \in Registrars, BootstrapCommit(r) PROVE Ledger!LedgerNext
    <2>1. PICK s \in Students :
            /\ UNCHANGED invites
            /\ users' = [users EXCEPT ![s] = [role |-> "admin", invite |-> NoInvite]]
        BY <1>2 DEF BootstrapCommit, IInv, RequestsOK
    <2>2. Registered = {}
        BY <1>2, BootstrapAlone DEF BootstrapCommit
    <2>3. \A t \in Students : users[t] = Ledger!NotMember
        BY <1>0, <2>2 DEF Registered, IInv, RowsOK, Ledger!NotMember
    <2>4. Ledger!Found(s)
        BY <2>1, <2>3 DEF Ledger!Found
    <2> QED
        BY <2>1, <2>4 DEF Ledger!LedgerNext
<1>3. ASSUME NEW r \in Registrars, InviteCommit(r) PROVE Ledger!LedgerNext
    <2>1. PICK s \in Students, c \in Invites :
            /\ s = req[r].student /\ c = req[r].code
            /\ invites[c].state = "live" /\ invites[c].uses < invites[c].max
            /\ users[s] = Ledger!NotMember
        BY <1>3, InviteCommitFinds DEF InviteCommit, Ledger!NotMember
    <2>2. users' = [users EXCEPT ![s] = [role |-> "user", invite |-> c]]
        BY <1>3, <2>1 DEF InviteCommit
    <2>3. books' = [books EXCEPT ![c].uses = @ + 1]
        <3>1. invites' = [invites EXCEPT ![c] =
                    [invites[c] EXCEPT !.uses = @ + 1, !.usedBy = s]]
            BY <1>3, <2>1, InviteCommitWrites
        <3> QED
            BY <1>0, <2>1, <3>1 DEF Book, Row
    <2>4. Ledger!Join(s, c)
        BY <2>1, <2>2, <2>3 DEF Ledger!Join, Book
    <2> QED
        BY <2>1, <2>4 DEF Ledger!LedgerNext
<1>4. ASSUME NEW a \in Admins, CreateInvite(a) PROVE Ledger!LedgerNext
    <2>1. PICK i \in Invites, m \in MaxUses :
            /\ m >= 1
            /\ AdminExists
            /\ invites[i].state = "none"
            /\ invites' = [invites EXCEPT ![i] =
                    [NoInviteRow EXCEPT !.state = "live", !.max = m, !.expires = now + 1]]
            /\ UNCHANGED users
        BY <1>4 DEF CreateInvite, KeepRegistrars
    <2>2. books' = [books EXCEPT ![i] = [state |-> "live", max |-> m, uses |-> 0]]
        BY <1>0, <2>1 DEF Book, NoInviteRow
    <2>3. books[i] = Ledger!NotIssued
        BY <2>1 DEF IInv, RowsOK, NoInviteRow, Book, Ledger!NotIssued
    <2>4. Ledger!Issue(i, m)
        BY <2>1, <2>2, <2>3 DEF Ledger!Issue, AdminExists, Book
    <2> QED
        BY <2>4 DEF Ledger!LedgerNext
<1>5. ASSUME NEW a \in Admins, AdminStep(a)
      PROVE  Ledger!LedgerNext \/ UNCHANGED <<users, books>>
    <2>1. PICK i \in Invites, m \in Asked :
            /\ i = areq[a].invite /\ m = areq[a].max /\ UNCHANGED users
            /\ \/ UNCHANGED invites
               \/ /\ invites[i].state = "live"
                  /\ \E row \in WrittenRow(a) : invites' = [invites EXCEPT ![i] = row]
        BY <1>5, AdminStepWrites
    <2>2. CASE UNCHANGED invites
        BY <2>1, <2>2
    <2>3. ASSUME NEW row \in WrittenRow(a), invites[i].state = "live",
                 invites' = [invites EXCEPT ![i] = row]
          PROVE  Ledger!LedgerNext \/ UNCHANGED books
        <3>1. books' = [books EXCEPT ![i] = Book(row)]
            BY <1>0, <2>1, <2>3 DEF Book
        <3>2. CASE row.state = "deleted" /\ row.max = invites[i].max
                   /\ row.uses = invites[i].uses
            <4>1. Ledger!Withdraw(i)
                BY <2>1, <2>3, <3>1, <3>2 DEF Ledger!Withdraw, Book
            <4> QED
                BY <2>1, <4>1 DEF Ledger!LedgerNext
        <3>3. CASE row.state = "live" /\ row.max = m /\ m # NoMax
                   /\ row.uses = invites[i].uses
            <4>0. Book(row) = [books[i] EXCEPT !.max = m]
                BY <2>1, <2>3, <3>3 DEF Book
            <4>1. books' = [books EXCEPT ![i].max = m]
                BY <3>1, <4>0
            <4>2. Ledger!Amend(i, m)
                BY <2>1, <2>3, <3>3, <4>1 DEF Ledger!Amend, Book, Asked
            <4> QED
                BY <2>1, <3>3, <4>2 DEF Ledger!LedgerNext, Asked
        <3>4. CASE row.state = "live" /\ row.max = invites[i].max
                   /\ row.uses = invites[i].uses
            BY <2>1, <2>3, <3>1, <3>4 DEF Book
        <3> QED
            BY <1>0, <2>1, <2>3, <3>2, <3>3, <3>4 DEF WrittenRow, Row
    <2> QED
        BY <2>1, <2>2, <2>3
<1> QED
    BY <1>1, <1>2, <1>3, <1>4, <1>5, Writers DEF Commits

\* Registrations and the requests of administrators, however their statements
\* interleave, wait and fail, have the effect of the ledger's single steps.
THEOREM Refinement == Spec => ImplementsLedger
<1>1. Init => Ledger!LedgerInit
    BY DEF Init, Ledger!LedgerInit, Ledger!NotMember, Ledger!NotIssued, NoInviteRow
<1>2. IInv /\ [Next]_vars => [Ledger!LedgerNext]_(Ledger!ledgerVars)
    BY LedgerSteps DEF Ledger!ledgerVars, Book
<1> QED
    BY <1>1, <1>2, Invariance, PTL DEF Spec, ImplementsLedger, Ledger!LedgerSpec

=============================================================================
