\* Registrations are answered; accounts, the rate limiter and the migrations.
SPECIFICATION MCSpec
CONSTANTS
    Students = {s1, s2}
    Invites = {i1}
    NoInvite = NoInvite
    Registrars = {r1, r2}
    NoRegistrar = NoRegistrar
    Admins = {a1}
    NoStudent = NoStudent
    MaxUses = {1}
    Horizon = 1
    admin = admin
    user = user
    Accounts = {admin, user}
    NoAccount = NoAccount
    Administrators = {admin}
    p1 = p1
    Passwords = {p1, p2}
    NoPassword = NoPassword
    FirstPassword <- SamePassword
    Workers = {w1, w2}
    login = login
    peer = peer
    LimitKeys = {login, peer}
    NoLimitKey = NoLimitKey
    Limit <- Limits
    Window <- Windows
    Callers = {c1, c2}
    LastTick = 6
    MaxFiles = 2
    MaxDeaths = 2
INVARIANTS ServicesTypeOK WindowBound ServesMigrated ExecutedOnce
PROPERTIES RegistrationReturns SuspensionKept ReplacedByHolder LockoutFinal
    SuspensionTakesHold RefusedOnlyAtLimit
CHECK_DEADLOCK FALSE
