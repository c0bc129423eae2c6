\* A registration of a disconnected key races with its revocation.
SPECIFICATION Spec
CONSTANTS
    Users = {u1}
    Keys = {k1}
    NoKey = NoKey
    Rows = {1}
    NoRow = NoRow
    NoUser = NoUser
    TotalHosts = 4
    ServerAddr = 3
    ServerKeys = {s1}
    NoServerKey = NoServerKey
    h1 = h1
    h2 = h2
    Handlers = {h1, h2}
    Requests <- AddsAndAdmin
    Events = {}
    DefaultMaxPeers = 2
    MaxPeersChoices = {2}
    ConfigKey = s1
PROPERTIES RevokedStaysRevoked
