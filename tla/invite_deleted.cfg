\* An administrator deletes an invite while a registration uses it.
SPECIFICATION Spec
CONSTANTS
    Students = {s1, s2}
    Invites = {i1}
    NoInvite = NoInvite
    Registrars = {r1}
    NoRegistrar = NoRegistrar
    Admins = {a1}
    NoStudent = NoStudent
    MaxUses = {1}
    Horizon = 1
INVARIANTS UsedInviteKept
