------------------------------ MODULE Account ------------------------------
(***************************************************************************)
(* Logging in, and what accounts may do with the token they get: change    *)
(* their own profile and password (internal/account/service.go) or, as an  *)
(* administrator, the status of accounts (UpdateUser of                    *)
(* internal/admin/service.go), behind the middleware of                    *)
(* internal/api/middleware.go.                                             *)
(*                                                                         *)
(* Every statement is a step of its own; requests and the administrators'  *)
(* changes interleave between them. A token says who its bearer is and     *)
(* when it expires, nothing else of it is used: role and status are read   *)
(* from the table by each request. Roles never change once registered.     *)
(* Of the columns of a row the model has the two that checks depend on;    *)
(* names and contacts are left out, and max_peers is in PeerManager. Input *)
(* that is refused ends a request like any failure.                        *)
(***************************************************************************)
CONSTANTS
    Accounts, NoAccount,
    Administrators,      \* accounts whose role is admin
    Passwords, NoPassword,
    FirstPassword,       \* the password each account registered with
    Workers              \* goroutines that serve requests

ASSUME AccountAssumption ==
    /\ NoAccount \notin Accounts
    /\ Administrators \subseteq Accounts
    /\ NoPassword \notin Passwords
    /\ FirstPassword \in [Accounts -> Passwords]

VARIABLES
    account, \* rows of users
    tokens,  \* accounts that have a token which has not expired
    worker,  \* what each goroutine does, for whom and with which input
    inForce  \* history: the passwords in force since each change of password began

accountVars == <<account, tokens, worker, inForce>>

Statuses == {"active", "suspended"}
MaybePassword == Passwords \cup {NoPassword}

IdleWorker == [at |-> "idle", user |-> NoAccount, given |-> NoPassword, new |-> NoPassword,
               target |-> NoAccount, status |-> "active"]

AccountTypeOK ==
    /\ account \in [Accounts -> [status : Statuses, password : Passwords]]
    /\ tokens \subseteq Accounts
    /\ worker \in [Workers ->
          [at : {"idle", "find", "sign", "me_auth", "me_find", "me_update",
                 "password_auth", "password_find", "password_update", "admin_auth", "admin_update"},
           user : Accounts \cup {NoAccount}, given : MaybePassword, new : MaybePassword,
           target : Accounts \cup {NoAccount}, status : Statuses]]
    /\ inForce \in [Workers -> SUBSET Passwords]

At(w, l) == worker[w].at = l
Active(u) == account[u].status = "active"
IsAdmin(u) == u \in Administrators

\* A worker that is served a request.
Begin(w, request) ==
    /\ At(w, "idle")
    /\ worker' = [worker EXCEPT ![w] = request]
    /\ inForce' = [inForce EXCEPT
                      ![w] = IF request.new = NoPassword THEN {} ELSE {account[request.user].password}]
    /\ UNCHANGED <<account, tokens>>

Finish(w) ==
    /\ worker' = [worker EXCEPT ![w] = IdleWorker]
    /\ inForce' = [inForce EXCEPT ![w] = {}]

\* A read, and a check that ends the request or lets it go on.
Check(w, l, passed, m) ==
    /\ At(w, l)
    /\ IF passed THEN worker' = [worker EXCEPT ![w].at = m] /\ UNCHANGED inForce ELSE Finish(w)
    /\ UNCHANGED <<account, tokens>>

-----------------------------------------------------------------------------
(* Login.                                                                  *)

Login(w) == \E u \in Accounts, p \in Passwords :
    Begin(w, [IdleWorker EXCEPT !.at = "find", !.user = u, !.given = p])

\* FindByStudentID, the status and the password: all of one row as it was read.
LoginFind(w) ==
    LET u == worker[w].user
    IN  Check(w, "find", Active(u) /\ account[u].password = worker[w].given, "sign")

LoginSign(w) ==
    /\ At(w, "sign")
    /\ tokens' = tokens \cup {worker[w].user}
    /\ Finish(w)
    /\ UNCHANGED account

-----------------------------------------------------------------------------
(* A request with a token: AuthMiddleware validates it and reads the       *)
(* account, RequireActiveUser or RequireAdmin check what it read.          *)

ValidToken(u) == u \in tokens

UpdateMe(w) == \E u \in Accounts :
    ValidToken(u) /\ Begin(w, [IdleWorker EXCEPT !.at = "me_auth", !.user = u])

ChangePassword(w) == \E u \in Accounts, p, n \in Passwords :
    /\ ValidToken(u)
    /\ Begin(w, [IdleWorker EXCEPT !.at = "password_auth", !.user = u, !.given = p, !.new = n])

\* Faulty: any status of the model package is accepted.
UpdateUserAnyStatus(w) == \E u, t \in Accounts, s \in Statuses \cup {"deleted"} :
    /\ ValidToken(u)
    /\ Begin(w, [IdleWorker EXCEPT !.at = "admin_auth", !.user = u, !.target = t, !.status = s])

UpdateUser(w) == \E u, t \in Accounts, s \in Statuses :
    /\ ValidToken(u)
    /\ Begin(w, [IdleWorker EXCEPT !.at = "admin_auth", !.user = u, !.target = t, !.status = s])

RequireActiveUser(w) ==
    \/ Check(w, "me_auth", Active(worker[w].user), "me_find")
    \/ Check(w, "password_auth", Active(worker[w].user), "password_find")

\* Faulty: the role alone is checked.
RequireRole(w) == Check(w, "admin_auth", IsAdmin(worker[w].user), "admin_update")

RequireAdmin(w) ==
    Check(w, "admin_auth", IsAdmin(worker[w].user) /\ Active(worker[w].user), "admin_update")

-----------------------------------------------------------------------------
(* The services. Each UPDATE sets the columns it names and no other, of    *)
(* the row as it is when the statement runs.                               *)

Write(w, row, u) ==
    /\ account' = [account EXCEPT ![u] = row]
    /\ worker' = [worker EXCEPT ![w] = IdleWorker]
    /\ inForce' = [v \in Workers |->
                     IF v = w THEN {}
                     ELSE IF worker[v].user = u /\ worker[v].new # NoPassword
                          THEN inForce[v] \cup {row.password}
                          ELSE inForce[v]]
    /\ UNCHANGED tokens

\* Faulty: what the middleware read is taken to be still so.
UpdateMeFindUnchecked(w) == Check(w, "me_find", TRUE, "me_update")

UpdateMeFind(w) == Check(w, "me_find", Active(worker[w].user), "me_update")

\* Faulty: the whole row is written back as it was read, when it was active.
UpdateMeWriteRow(w) ==
    LET u == worker[w].user
    IN  At(w, "me_update") /\ Write(w, [account[u] EXCEPT !.status = "active"], u)

\* Display name and contacts are set; status and password stay as they are.
UpdateMeWrite(w) ==
    LET u == worker[w].user
    IN  At(w, "me_update") /\ Write(w, account[u], u)

\* Faulty: the current password is not checked.
ChangePasswordFindUnchecked(w) ==
    Check(w, "password_find", Active(worker[w].user), "password_update")

ChangePasswordFind(w) ==
    LET u == worker[w].user
    IN  Check(w, "password_find",
              /\ Active(u)
              /\ account[u].password = worker[w].given
              /\ worker[w].given # worker[w].new,
              "password_update")

UpdatePassword(w) ==
    LET u == worker[w].user
    IN  At(w, "password_update") /\ Write(w, [account[u] EXCEPT !.password = worker[w].new], u)

UpdateUserWrite(w) ==
    LET t == worker[w].target
    IN  At(w, "admin_update") /\ Write(w, [account[t] EXCEPT !.status = worker[w].status], t)

\* A statement fails, the input is refused or the client goes away.
Fail(w) == ~At(w, "idle") /\ Finish(w) /\ UNCHANGED <<account, tokens>>

\* The last token of an account expires; requests that it let in go on.
TokenExpires(u) ==
    /\ u \in tokens
    /\ tokens' = tokens \ {u}
    /\ UNCHANGED <<account, worker, inForce>>

AccountInit ==
    /\ account = [u \in Accounts |-> [status |-> "active", password |-> FirstPassword[u]]]
    /\ tokens = {}
    /\ worker = [w \in Workers |-> IdleWorker]
    /\ inForce = [w \in Workers |-> {}]

Serve(w) ==
    \/ LoginFind(w) \/ LoginSign(w)
    \/ RequireActiveUser(w) \/ RequireAdmin(w)
    \/ UpdateMeFind(w) \/ UpdateMeWrite(w)
    \/ ChangePasswordFind(w) \/ UpdatePassword(w)
    \/ UpdateUserWrite(w)

AccountNext ==
    \/ \E w \in Workers : \/ Login(w) \/ UpdateMe(w) \/ ChangePassword(w) \/ UpdateUser(w)
                          \/ Serve(w) \/ Fail(w)
    \/ \E u \in Accounts : TokenExpires(u)

AccountSpec == AccountInit /\ [][AccountNext]_accountVars

-----------------------------------------------------------------------------
(* Properties.                                                             *)

\* A status changes by an administrator's request and in no other way: a change
\* of the profile or password that read the account before it was suspended
\* does not undo the suspension.
SuspensionKept ==
    [][\A u \in Accounts : account'[u].status # account[u].status
        => \E w \in Workers : At(w, "admin_update") /\ worker[w].target = u
                              /\ worker'[w] = IdleWorker]_accountVars

\* A password is replaced only by a request that gave one in force since the
\* request began. Of two changes that overlap both may succeed, but a request
\* with a password that is older than itself never does.
ReplacedByHolder ==
    [][\A u \in Accounts : account'[u].password # account[u].password
        => \E w \in Workers : /\ At(w, "password_update") /\ worker[w].user = u
                              /\ worker'[w] = IdleWorker
                              /\ worker[w].given \in inForce[w]]_accountVars

LockedOut ==
    /\ \A u \in Administrators : ~Active(u)
    /\ \A w \in Workers : ~At(w, "admin_update")

\* When no administrator is active and no request of one is past its check, it
\* stays so and statuses never change again, although tokens of administrators
\* are still valid: an account cannot reinstate itself or another, and nothing
\* but the database's operator can give the server an administrator.
LockoutFinal ==
    [][LockedOut => LockedOut' /\ \A u \in Accounts : account'[u].status = account[u].status]_accountVars

\* Requests that will write, or sign a token, for an account.
Acting(u) == {w \in Workers : worker[w].user = u /\
                worker[w].at \in {"sign", "me_update", "password_update", "admin_update"}}

\* A suspension takes hold although tokens stay valid: while it lasts only the
\* requests act for the account that were past their checks when it came.
SuspensionTakesHold ==
    [][\A u \in Accounts : ~Active(u) /\ ~Active(u)'
        => Acting(u)' \subseteq Acting(u)]_accountVars

=============================================================================
