\* A registration is served after a restart, before the first reconciliation.
SPECIFICATION Spec
CONSTANTS
    Users = {u1}
    Keys = {k1, k2}
    NoKey = NoKey
    Rows = {1, 2}
    NoRow = NoRow
    NoUser = NoUser
    TotalHosts = 4
    ServerAddr = 3
    ServerKeys = {s1}
    NoServerKey = NoServerKey
    h1 = h1
    h2 = h2
    Handlers = {h1}
    Requests <- AddsAndRemoves
    Events = {"restart"}
    DefaultMaxPeers = 2
    MaxPeersChoices = {2}
    ConfigKey = s1
INVARIANTS NoSharedAddress
SYMMETRY KeysOnly
