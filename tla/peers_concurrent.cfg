\* Registrations race with revocations, changes of the limit and reconciliation.
SPECIFICATION Spec
CONSTANTS
    Users = {u1}
    Keys = {k1, k2}
    NoKey = NoKey
    Rows = {1, 2}
    NoRow = NoRow
    NoUser = NoUser
    TotalHosts = 4
    ServerAddr = 3
    ServerKeys = {s1}
    NoServerKey = NoServerKey
    h1 = h1
    h2 = h2
    Handlers = {h1, h2}
    Requests <- AddsAndRevokes
    Events = {}
    DefaultMaxPeers = 1
    MaxPeersChoices = {2}
    ConfigKey = s1
INVARIANTS ActiveAddressesDistinct
PROPERTIES WithinQuota
SYMMETRY KeysOnly
