---------------------------- MODULE Account_proof ----------------------------
(***************************************************************************)
(* Proofs about Account for every number of accounts, passwords and        *)
(* goroutines, however their requests interleave and fail.                 *)
(*                                                                         *)
(* Three of the properties follow from the checks each step makes. That a  *)
(* password is replaced only by its holder does not: the check is made     *)
(* some statements before the UPDATE. Its inductive invariant says of the  *)
(* history variable what a request may count on at each of its steps.      *)
(***************************************************************************)
EXTENDS Account, TLAPS

AdminSteps == {"admin_auth", "admin_update"}
PasswordSteps == {"password_auth", "password_find", "password_update"}
Request == [at : {"idle", "find", "sign", "me_auth", "me_find", "me_update",
                  "password_auth", "password_find", "password_update",
                  "admin_auth", "admin_update"},
            user : Accounts \cup {NoAccount}, given : MaybePassword, new : MaybePassword,
            target : Accounts \cup {NoAccount}, status : Statuses]
UserRow == [status : Statuses, password : Passwords]

\* What request v may hold, and f, the passwords in force since it began.
RequestOK(v, f) ==
    /\ v.at # "idle" => v.user \in Accounts
    /\ v.at \in AdminSteps => v.target \in Accounts
    /\ v.at \in PasswordSteps => v.new \in Passwords
    /\ v.at \in {"password_auth", "password_find"} => account[v.user].password \in f
    /\ v.at = "password_update" => v.given \in f

\* The inductive invariant.
IInv == AccountTypeOK /\ \A w \in Workers : RequestOK(worker[w], inForce[w])

-----------------------------------------------------------------------------
(* The forms that steps have.                                              *)

\* A goroutine without a request.
LEMMA IdleWorkerType == IdleWorker \in Request /\ IdleWorker.at = "idle"
BY DEF IdleWorker, Request, MaybePassword, Statuses

\* A request begins.
LEMMA BeginKeeps ==
    ASSUME IInv, NEW w \in Workers, NEW request \in Request, Begin(w, request),
           request.user \in Accounts,
           request.at \in {"find", "me_auth", "password_auth", "admin_auth"},
           request.at \in AdminSteps => request.target \in Accounts,
           request.at = "password_auth" => request.new \in Passwords
    PROVE  IInv'
<1>1. worker' \in [Workers -> Request] /\ account \in [Accounts -> UserRow]
    BY DEF Begin, IInv, AccountTypeOK, Request, UserRow
<1>2. account[request.user].password \in Passwords
    BY <1>1 DEF UserRow
<1>3. inForce' \in [Workers -> SUBSET Passwords]
    BY <1>2 DEF Begin, IInv, AccountTypeOK
<1>4. AccountTypeOK'
    BY <1>1, <1>3 DEF Begin, IInv, AccountTypeOK, Request
<1>5. \A v \in Workers : v # w => worker'[v] = worker[v] /\ inForce'[v] = inForce[v]
    BY DEF Begin, IInv, AccountTypeOK
<1>6. worker'[w] = request
      /\ (request.new # NoPassword => inForce'[w] = {account[request.user].password})
    BY DEF Begin, IInv, AccountTypeOK
<1>7. RequestOK(worker[w], inForce[w])'
    BY <1>6, AccountAssumption DEF Begin, RequestOK, AdminSteps, PasswordSteps
<1>8. \A v \in Workers : v # w => RequestOK(worker[v], inForce[v])'
    BY <1>5 DEF Begin, IInv, RequestOK
<1> QED
    BY <1>4, <1>7, <1>8 DEF IInv

\* A request ends without a write.
LEMMA FinishKeeps ==
    ASSUME IInv, NEW w \in Workers, Finish(w), UNCHANGED account,
           tokens' \subseteq Accounts
    PROVE  IInv'
<1>1. AccountTypeOK'
    BY IdleWorkerType DEF Finish, IInv, AccountTypeOK, Request
<1>2. \A v \in Workers : v # w => worker'[v] = worker[v] /\ inForce'[v] = inForce[v]
    BY DEF Finish, IInv, AccountTypeOK
<1>3. worker'[w].at = "idle"
    BY IdleWorkerType DEF Finish, IInv, AccountTypeOK
<1> QED
    BY <1>1, <1>2, <1>3 DEF IInv, RequestOK, AdminSteps, PasswordSteps

\* A check sends a request from step l to step m of the same kind.
LEMMA CheckKeeps ==
    ASSUME IInv, NEW w \in Workers, NEW STATE passed, NEW l, NEW m, Check(w, l, passed, m),
           <<l, m>> \in {<<"find", "sign">>, <<"me_auth", "me_find">>,
                         <<"me_find", "me_update">>, <<"admin_auth", "admin_update">>,
                         <<"password_auth", "password_find">>,
                         <<"password_find", "password_update">>},
           passed /\ l = "password_find" => account[worker[w].user].password = worker[w].given
    PROVE  IInv'
<1>1. CASE Finish(w) /\ UNCHANGED <<account, tokens>>
    BY <1>1, FinishKeeps DEF IInv, AccountTypeOK
<1>2. CASE passed /\ worker' = [worker EXCEPT ![w].at = m]
           /\ UNCHANGED <<account, tokens, inForce>>
    <2>1. AccountTypeOK'
        BY <1>2 DEF IInv, AccountTypeOK
    <2>2. \A v \in Workers : v # w => worker'[v] = worker[v]
        BY <1>2 DEF IInv, AccountTypeOK
    <2>3. /\ worker'[w].at = m /\ worker[w].at = l
          /\ worker'[w].user = worker[w].user /\ worker'[w].target = worker[w].target
          /\ worker'[w].new = worker[w].new /\ worker'[w].given = worker[w].given
        BY <1>2 DEF IInv, AccountTypeOK, Check, At
    <2>4. RequestOK(worker[w], inForce[w])
        BY DEF IInv
    <2>5. RequestOK(worker[w], inForce[w])'
        BY <1>2, <2>3, <2>4 DEF RequestOK, AdminSteps, PasswordSteps
    <2>6. \A v \in Workers : v # w => RequestOK(worker[v], inForce[v])'
        BY <1>2, <2>2 DEF IInv, RequestOK
    <2> QED
        BY <2>1, <2>5, <2>6 DEF IInv
<1> QED
    BY <1>1, <1>2 DEF Check

\* A request writes a row. Whoever changes that account's password meanwhile
\* has the row's password among those in force since it began.
LEMMA WriteKeeps ==
    ASSUME IInv, NEW w \in Workers, NEW u \in Accounts, NEW row \in UserRow, Write(w, row, u)
    PROVE  IInv'
<1>1. account' \in [Accounts -> UserRow] /\ worker' \in [Workers -> Request]
    BY IdleWorkerType DEF Write, IInv, AccountTypeOK, UserRow, Request
<1>2. inForce' \in [Workers -> SUBSET Passwords]
    <2>1. row.password \in Passwords
        BY DEF UserRow
    <2> QED
        BY <2>1 DEF Write, IInv, AccountTypeOK
<1>3. AccountTypeOK'
    BY <1>1, <1>2 DEF Write, IInv, AccountTypeOK, UserRow, Request
<1>4. worker'[w].at = "idle"
    BY IdleWorkerType DEF Write, IInv, AccountTypeOK
<1>5. ASSUME NEW v \in Workers, v # w PROVE RequestOK(worker[v], inForce[v])'
    <2>1. worker'[v] = worker[v] /\ RequestOK(worker[v], inForce[v])
        BY <1>5 DEF Write, IInv, AccountTypeOK
    <2>2. inForce[v] \subseteq inForce'[v]
        BY <1>5 DEF Write, IInv, AccountTypeOK
    <2>3. worker[v].user = u /\ worker[v].new # NoPassword => row.password \in inForce'[v]
        BY <1>5 DEF Write
    <2>4. \A a \in Accounts : account'[a] = IF a = u THEN row ELSE account[a]
        BY DEF Write, IInv, AccountTypeOK
    <2> QED
        BY <2>1, <2>2, <2>3, <2>4, AccountAssumption DEF RequestOK, AdminSteps, PasswordSteps
<1> QED
    BY <1>3, <1>4, <1>5 DEF IInv, RequestOK, AdminSteps, PasswordSteps

-----------------------------------------------------------------------------
(* The actions.                                                            *)

\* Every request that a client sends.
LEMMA BeginsKeep ==
    ASSUME IInv, NEW w \in Workers,
           Login(w) \/ UpdateMe(w) \/ ChangePassword(w) \/ UpdateUser(w)
    PROVE  IInv'
<1>1. CASE Login(w)
    <2>1. PICK u \in Accounts, p \in Passwords :
            Begin(w, [IdleWorker EXCEPT !.at = "find", !.user = u, !.given = p])
        BY <1>1 DEF Login
    <2> DEFINE request == [IdleWorker EXCEPT !.at = "find", !.user = u, !.given = p]
    <2>2. request \in Request /\ request.at = "find" /\ request.user = u
        BY DEF IdleWorker, Request, MaybePassword, Statuses
    <2> HIDE DEF request
    <2> QED
        BY <2>1, <2>2, BeginKeeps DEF AdminSteps, request
<1>2. CASE UpdateMe(w)
    <2>1. PICK u \in Accounts : Begin(w, [IdleWorker EXCEPT !.at = "me_auth", !.user = u])
        BY <1>2 DEF UpdateMe
    <2> DEFINE request == [IdleWorker EXCEPT !.at = "me_auth", !.user = u]
    <2>2. request \in Request /\ request.at = "me_auth" /\ request.user = u
        BY DEF IdleWorker, Request, MaybePassword, Statuses
    <2>3. Begin(w, request)
        BY <2>1
    <2> HIDE DEF request
    <2> QED
        BY <2>2, <2>3, BeginKeeps DEF AdminSteps
<1>3. CASE ChangePassword(w)
    <2>1. PICK u \in Accounts, p \in Passwords, n \in Passwords :
            Begin(w, [IdleWorker EXCEPT !.at = "password_auth", !.user = u,
                                        !.given = p, !.new = n])
        BY <1>3 DEF ChangePassword
    <2> DEFINE request == [IdleWorker EXCEPT !.at = "password_auth", !.user = u,
                                             !.given = p, !.new = n]
    <2>2. request \in Request /\ request.at = "password_auth" /\ request.user = u
          /\ request.new = n
        BY DEF IdleWorker, Request, MaybePassword, Statuses
    <2>3. Begin(w, request)
        BY <2>1
    <2> HIDE DEF request
    <2> QED
        BY <2>2, <2>3, BeginKeeps DEF AdminSteps
<1>4. CASE UpdateUser(w)
    <2>1. PICK u \in Accounts, t \in Accounts, s \in Statuses :
            Begin(w, [IdleWorker EXCEPT !.at = "admin_auth", !.user = u,
                                        !.target = t, !.status = s])
        BY <1>4 DEF UpdateUser
    <2> DEFINE request == [IdleWorker EXCEPT !.at = "admin_auth", !.user = u,
                                             !.target = t, !.status = s]
    <2>2. request \in Request /\ request.at = "admin_auth" /\ request.user = u
          /\ request.target = t
        BY DEF IdleWorker, Request, MaybePassword
    <2>3. Begin(w, request)
        BY <2>1
    <2> HIDE DEF request
    <2> QED
        BY <2>2, <2>3, BeginKeeps DEF AdminSteps
<1> QED
    BY <1>1, <1>2, <1>3, <1>4

\* The steps that only read and check.
Checks(w) ==
    \/ LoginFind(w) \/ RequireActiveUser(w) \/ RequireAdmin(w)
    \/ UpdateMeFind(w) \/ ChangePasswordFind(w)

\* They keep the invariant.
LEMMA ChecksKeep ==
    ASSUME IInv, NEW w \in Workers, Checks(w)
    PROVE  IInv'
<1>1. CASE LoginFind(w)
    BY <1>1, CheckKeeps DEF LoginFind
<1>2. CASE RequireActiveUser(w)
    BY <1>2, CheckKeeps DEF RequireActiveUser
<1>3. CASE RequireAdmin(w)
    BY <1>3, CheckKeeps DEF RequireAdmin
<1>4. CASE UpdateMeFind(w)
    BY <1>4, CheckKeeps DEF UpdateMeFind
<1>5. CASE ChangePasswordFind(w)
    BY <1>5, CheckKeeps DEF ChangePasswordFind
<1> QED
    BY <1>1, <1>2, <1>3, <1>4, <1>5 DEF Checks

\* Which row a write puts where.
Writing(w, row, u) ==
    \/ At(w, "me_update") /\ u = worker[w].user /\ row = account[u]
    \/ /\ At(w, "password_update") /\ u = worker[w].user
       /\ row = [account[u] EXCEPT !.password = worker[w].new]
    \/ /\ At(w, "admin_update") /\ u = worker[w].target
       /\ row = [account[u] EXCEPT !.status = worker[w].status]

\* Every UPDATE writes one row, of the account its request names.
LEMMA Writes ==
    ASSUME IInv, NEW w \in Workers,
           UpdateMeWrite(w) \/ UpdatePassword(w) \/ UpdateUserWrite(w)
    PROVE  \E u \in Accounts, row \in UserRow : Writing(w, row, u) /\ Write(w, row, u)
<1>0. account \in [Accounts -> UserRow] /\ worker \in [Workers -> Request]
      /\ RequestOK(worker[w], inForce[w])
    BY DEF IInv, AccountTypeOK, UserRow, Request
<1>1. CASE UpdateMeWrite(w)
    <2>1. worker[w].user \in Accounts
        BY <1>0, <1>1 DEF UpdateMeWrite, At, RequestOK
    <2> QED
        BY <1>0, <1>1, <2>1 DEF UpdateMeWrite, Writing
<1>2. CASE UpdatePassword(w)
    <2>1. worker[w].user \in Accounts /\ worker[w].new \in Passwords
        BY <1>0, <1>2 DEF UpdatePassword, At, RequestOK, PasswordSteps
    <2>2. [account[worker[w].user] EXCEPT !.password = worker[w].new] \in UserRow
        BY <1>0, <2>1 DEF UserRow
    <2> QED
        BY <1>2, <2>1, <2>2 DEF UpdatePassword, Writing
<1>3. CASE UpdateUserWrite(w)
    <2>1. worker[w].target \in Accounts /\ worker[w].status \in Statuses
        BY <1>0, <1>3 DEF UpdateUserWrite, At, RequestOK, AdminSteps, Request
    <2>2. [account[worker[w].target] EXCEPT !.status = worker[w].status] \in UserRow
        BY <1>0, <2>1 DEF UserRow
    <2> QED
        BY <1>3, <2>1, <2>2 DEF UpdateUserWrite, Writing
<1> QED
    BY <1>1, <1>2, <1>3

\* What a step is: a write, or it leaves the rows alone.
LEMMA StepKinds ==
    ASSUME IInv, [AccountNext]_accountVars
    PROVE  \/ UNCHANGED account
           \/ \E w \in Workers, u \in Accounts, row \in UserRow :
                 Writing(w, row, u) /\ Write(w, row, u)
<1>1. ASSUME NEW w \in Workers,
             Login(w) \/ UpdateMe(w) \/ ChangePassword(w) \/ UpdateUser(w) \/ Fail(w)
      PROVE  UNCHANGED account
    BY <1>1 DEF Login, UpdateMe, ChangePassword, UpdateUser, Begin, Fail
<1>2. ASSUME NEW w \in Workers, Checks(w) \/ LoginSign(w) PROVE UNCHANGED account
    BY <1>2 DEF Checks, LoginFind, RequireActiveUser, RequireAdmin, UpdateMeFind,
                ChangePasswordFind, Check, LoginSign
<1> QED
    BY <1>1, <1>2, Writes DEF AccountNext, Serve, Checks, TokenExpires, accountVars

\* Every step keeps the invariant.
LEMMA NextIInv == IInv /\ [AccountNext]_accountVars => IInv'
<1> SUFFICES ASSUME IInv, [AccountNext]_accountVars PROVE IInv'
    OBVIOUS
<1>1. ASSUME NEW w \in Workers, LoginSign(w) PROVE IInv'
    <2>1. worker[w].user \in Accounts
        BY <1>1 DEF LoginSign, At, IInv, RequestOK
    <2> QED
        BY <1>1, <2>1, FinishKeeps DEF LoginSign, IInv, AccountTypeOK
<1>2. ASSUME NEW w \in Workers,
             UpdateMeWrite(w) \/ UpdatePassword(w) \/ UpdateUserWrite(w)
      PROVE  IInv'
    BY <1>2, Writes, WriteKeeps
<1>3. ASSUME NEW w \in Workers, Fail(w) PROVE IInv'
    BY <1>3, FinishKeeps DEF Fail, IInv, AccountTypeOK
<1>4. ASSUME NEW u \in Accounts, TokenExpires(u) PROVE IInv'
    BY <1>4 DEF TokenExpires, IInv, AccountTypeOK, RequestOK
<1>5. CASE UNCHANGED accountVars
    BY <1>5 DEF accountVars, IInv, AccountTypeOK, RequestOK
<1> QED
    BY <1>1, <1>2, <1>3, <1>4, <1>5, BeginsKeep, ChecksKeep DEF AccountNext, Serve, Checks

\* The inductive invariant holds however requests interleave and fail.
THEOREM AccountInvariance == AccountSpec => []IInv
<1>1. AccountInit => IInv
    BY IdleWorkerType, AccountAssumption
    DEF AccountInit, IInv, AccountTypeOK, Request, Statuses, RequestOK, AdminSteps, PasswordSteps
<1> QED
    BY <1>1, NextIInv, PTL DEF AccountSpec

\* Type correctness: no request writes a status or a password that is none.
THEOREM AccountTypeCorrect == AccountSpec => []AccountTypeOK
<1>1. IInv => AccountTypeOK
    BY DEF IInv
<1> QED
    BY <1>1, AccountInvariance, PTL

-----------------------------------------------------------------------------
(* The action properties.                                                  *)

\* What a write leaves: the row written, the others as they were.
LEMMA WriteEffect ==
    ASSUME IInv, NEW w \in Workers, NEW u \in Accounts, NEW row \in UserRow, Write(w, row, u)
    PROVE  /\ worker'[w] = IdleWorker
           /\ \A v \in Workers : v # w => worker'[v] = worker[v]
           /\ \A a \in Accounts : account'[a] = IF a = u THEN row ELSE account[a]
BY DEF Write, IInv, AccountTypeOK

\* UpdateProfile and UpdatePassword set no status, so what an administrator has
\* suspended stays suspended whichever requests were under way.
THEOREM StatusByAdministrators == AccountSpec => SuspensionKept
<1>1. ASSUME IInv, [AccountNext]_accountVars, NEW u \in Accounts,
             account'[u].status # account[u].status
      PROVE  \E w \in Workers : At(w, "admin_update") /\ worker[w].target = u
                                /\ worker'[w] = IdleWorker
    <2>1. PICK w \in Workers, a \in Accounts, row \in UserRow :
            Writing(w, row, a) /\ Write(w, row, a)
        BY <1>1, StepKinds
    <2>2. a = u /\ row.status # account[u].status /\ worker'[w] = IdleWorker
        BY <1>1, <2>1, WriteEffect
    <2>3. account[u] \in UserRow
        BY <1>1 DEF IInv, AccountTypeOK, UserRow
    <2>4. At(w, "admin_update") /\ worker[w].target = u
        BY <2>1, <2>2, <2>3 DEF Writing, UserRow
    <2> QED
        BY <2>2, <2>4
<1>2. IInv /\ [AccountNext]_accountVars =>
        [\A u \in Accounts : account'[u].status # account[u].status
            => \E w \in Workers : At(w, "admin_update") /\ worker[w].target = u
                                  /\ worker'[w] = IdleWorker]_accountVars
    BY <1>1
<1> QED
    BY <1>2, AccountInvariance, PTL DEF AccountSpec, SuspensionKept

\* UpdatePassword is an unconditional UPDATE after a check made on an earlier
\* read; still the password the request gave was in force after it began.
THEOREM PasswordByHolder == AccountSpec => ReplacedByHolder
<1>1. ASSUME IInv, [AccountNext]_accountVars, NEW u \in Accounts,
             account'[u].password # account[u].password
      PROVE  \E w \in Workers : /\ At(w, "password_update") /\ worker[w].user = u
                                /\ worker'[w] = IdleWorker
                                /\ worker[w].given \in inForce[w]
    <2>1. PICK w \in Workers, a \in Accounts, row \in UserRow :
            Writing(w, row, a) /\ Write(w, row, a)
        BY <1>1, StepKinds
    <2>2. a = u /\ row.password # account[u].password /\ worker'[w] = IdleWorker
        BY <1>1, <2>1, WriteEffect
    <2>3. account[u] \in UserRow
        BY <1>1 DEF IInv, AccountTypeOK, UserRow
    <2>4. At(w, "password_update") /\ worker[w].user = u
        BY <2>1, <2>2, <2>3 DEF Writing, UserRow
    <2>5. worker[w].given \in inForce[w]
        BY <1>1, <2>4 DEF At, IInv, RequestOK
    <2> QED
        BY <2>2, <2>4, <2>5
<1>2. IInv /\ [AccountNext]_accountVars =>
        [\A u \in Accounts : account'[u].password # account[u].password
            => \E w \in Workers : /\ At(w, "password_update") /\ worker[w].user = u
                                  /\ worker'[w] = IdleWorker
                                  /\ worker[w].given \in inForce[w]]_accountVars
    BY <1>1
<1> QED
    BY <1>2, AccountInvariance, PTL DEF AccountSpec, ReplacedByHolder

ActingSteps == {"sign", "me_update", "password_update", "admin_update"}

\* A worker comes to a step at which it acts only by a check of an account that
\* is active then and, if it acts as an administrator, is one.
LEMMA IntoActing ==
    ASSUME IInv, [AccountNext]_accountVars, NEW v \in Workers,
           worker'[v].at \in ActingSteps, worker'[v] # worker[v]
    PROVE  /\ UNCHANGED account
           /\ worker'[v].user = worker[v].user
           /\ Active(worker[v].user)
           /\ worker'[v].at = "admin_update" => IsAdmin(worker[v].user)
<1>0. worker \in [Workers -> Request]
    BY DEF IInv, AccountTypeOK, Request
<1> USE DEF ActingSteps
<1>1. ASSUME NEW w \in Workers, Finish(w) PROVE FALSE
    BY <1>0, <1>1, IdleWorkerType DEF Finish
<1>2. ASSUME NEW w \in Workers, NEW m, worker' = [worker EXCEPT ![w].at = m]
      PROVE  v = w /\ worker'[v].at = m /\ worker'[v].user = worker[v].user
    BY <1>0, <1>2 DEF Request
<1>3. ASSUME NEW w \in Workers,
             Login(w) \/ UpdateMe(w) \/ ChangePassword(w) \/ UpdateUser(w)
      PROVE  FALSE
    <2>1. PICK request :
            /\ request.at \in {"find", "me_auth", "password_auth", "admin_auth"}
            /\ worker' = [worker EXCEPT ![w] = request]
        <3>1. CASE Login(w)
            BY <3>1 DEF Login, Begin, IdleWorker
        <3>2. CASE UpdateMe(w)
            BY <3>2 DEF UpdateMe, Begin, IdleWorker
        <3>3. CASE ChangePassword(w)
            BY <3>3 DEF ChangePassword, Begin, IdleWorker
        <3>4. CASE UpdateUser(w)
            BY <3>4 DEF UpdateUser, Begin, IdleWorker
        <3> QED
            BY <1>3, <3>1, <3>2, <3>3, <3>4
    <2> QED
        BY <1>0, <2>1
<1>4. ASSUME NEW w \in Workers, Checks(w)
      PROVE  /\ UNCHANGED account
             /\ worker'[v].user = worker[v].user
             /\ Active(worker[v].user)
             /\ worker'[v].at = "admin_update" => IsAdmin(worker[v].user)
    <2>1. CASE LoginFind(w)
        BY <1>1, <1>2, <2>1 DEF LoginFind, Check
    <2>2. CASE RequireActiveUser(w)
        BY <1>1, <1>2, <2>2 DEF RequireActiveUser, Check
    <2>3. CASE RequireAdmin(w)
        BY <1>1, <1>2, <2>3 DEF RequireAdmin, Check
    <2>4. CASE UpdateMeFind(w)
        BY <1>1, <1>2, <2>4 DEF UpdateMeFind, Check
    <2>5. CASE ChangePasswordFind(w)
        BY <1>1, <1>2, <2>5 DEF ChangePasswordFind, Check
    <2> QED
        BY <1>4, <2>1, <2>2, <2>3, <2>4, <2>5 DEF Checks
<1>5. ASSUME NEW w \in Workers,
             LoginSign(w) \/ Fail(w) \/ UpdateMeWrite(w) \/ UpdatePassword(w)
             \/ UpdateUserWrite(w)
      PROVE  FALSE
    <2>1. worker' = [worker EXCEPT ![w] = IdleWorker]
        BY <1>5 DEF LoginSign, Fail, Finish, UpdateMeWrite, UpdatePassword,
                    UpdateUserWrite, Write
    <2> QED
        BY <1>0, <2>1, IdleWorkerType
<1> QED
    BY <1>3, <1>4, <1>5 DEF AccountNext, Serve, Checks, TokenExpires, accountVars

\* With no active administrator and none past RequireAdmin nobody's status ever
\* changes again: tokens of suspended administrators open nothing.
THEOREM LockoutStays == AccountSpec => LockoutFinal
<1>1. ASSUME IInv, [AccountNext]_accountVars, LockedOut
      PROVE  LockedOut' /\ \A u \in Accounts : account'[u].status = account[u].status
    <2>1. \A u \in Accounts : account'[u].status = account[u].status
        <3>1. CASE UNCHANGED account
            BY <3>1
        <3>2. ASSUME NEW w \in Workers, NEW a \in Accounts, NEW row \in UserRow,
                     Writing(w, row, a), Write(w, row, a)
              PROVE  \A u \in Accounts : account'[u].status = account[u].status
            <4>1. row.status = account[a].status
                BY <1>1, <3>2 DEF LockedOut, Writing, IInv, AccountTypeOK
            <4> QED
                BY <1>1, <3>2, <4>1, WriteEffect
        <3> QED
            BY <1>1, <3>1, <3>2, StepKinds
    <2>2. \A u \in Administrators : ~Active(u)'
        BY <1>1, <2>1, AccountAssumption DEF LockedOut, Active
    <2>3. ASSUME NEW w \in Workers, At(w, "admin_update")' PROVE FALSE
        <3>1. worker'[w].at = "admin_update" /\ worker'[w] # worker[w]
            BY <1>1, <2>3 DEF LockedOut, At
        <3>2. Active(worker[w].user) /\ IsAdmin(worker[w].user)
            BY <1>1, <3>1, IntoActing DEF ActingSteps
        <3> QED
            BY <1>1, <3>2 DEF LockedOut, IsAdmin
    <2> QED
        BY <2>1, <2>2, <2>3 DEF LockedOut
<1>2. IInv /\ [AccountNext]_accountVars =>
        [LockedOut => LockedOut' /\ \A u \in Accounts :
            account'[u].status = account[u].status]_accountVars
    BY <1>1
<1> QED
    BY <1>2, AccountInvariance, PTL DEF AccountSpec, LockoutFinal

\* Status is read again after the middleware by every service, so a suspended
\* account gets nothing done but what was past its last check.
THEOREM SuspensionHolds == AccountSpec => SuspensionTakesHold
<1>1. ASSUME IInv, [AccountNext]_accountVars, NEW u \in Accounts, ~Active(u), ~Active(u)'
      PROVE  Acting(u)' \subseteq Acting(u)
    <2>1. ASSUME NEW w \in Workers, worker'[w].user = u, worker'[w].at \in ActingSteps
          PROVE  worker'[w] = worker[w]
        BY <1>1, <2>1, IntoActing
    <2> QED
        BY <2>1 DEF Acting, ActingSteps
<1>2. IInv /\ [AccountNext]_accountVars =>
        [\A u \in Accounts : ~Active(u) /\ ~Active(u)'
            => Acting(u)' \subseteq Acting(u)]_accountVars
    BY <1>1
<1> QED
    BY <1>2, AccountInvariance, PTL DEF AccountSpec, SuspensionTakesHold

=============================================================================
