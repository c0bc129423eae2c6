\* Two users race; writes fail after they were applied; the server restarts.
SPECIFICATION Spec
CONSTANTS
    Users = {u1, u2}
    Keys = {k1, k2}
    NoKey = NoKey
    Rows = {1, 2}
    NoRow = NoRow
    NoUser = NoUser
    TotalHosts = 4
    ServerAddr = 1
    ServerKeys = {s1}
    NoServerKey = NoServerKey
    h1 = h1
    h2 = h2
    Handlers = {h1, h2}
    Requests <- AddsAndChanges
    Events = {"ambiguous", "restart"}
    DefaultMaxPeers = 1
    MaxPeersChoices = {2}
    ConfigKey = s1
INVARIANTS ServerAddressReserved
PROPERTIES UsersKeepToOwnRows
SYMMETRY UsersAndKeys
