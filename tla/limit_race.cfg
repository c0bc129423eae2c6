\* Two registrations of one user race past the peer limit.
SPECIFICATION Spec
CONSTANTS
    Users = {u1}
    Keys = {k1, k2}
    NoKey = NoKey
    Rows = {1, 2}
    NoRow = NoRow
    NoUser = NoUser
    TotalHosts = 4
    ServerAddr = 3
    ServerKeys = {s1}
    NoServerKey = NoServerKey
    h1 = h1
    h2 = h2
    Handlers = {h1, h2}
    Requests <- TwoAdders
    Events = {}
    DefaultMaxPeers = 1
    MaxPeersChoices = {2}
    ConfigKey = s1
INVARIANTS PeerLimit
SYMMETRY KeysOnly
