\* Racing registrations of four students and an administrator.
SPECIFICATION Spec
CONSTANTS
    Students = {s1, s2, s3, s4}
    Invites = {i1}
    NoInvite = NoInvite
    Registrars = {r1, r2}
    NoRegistrar = NoRegistrar
    Admins = {a1}
    NoStudent = NoStudent
    MaxUses = {0, 1, 2}
    Horizon = 1
SYMMETRY Interchangeable
INVARIANTS TypeOK SingleAdmin UsageAccounted
PROPERTIES NoOveruse ImplementsLedger
