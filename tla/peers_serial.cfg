\* One request at a time, of every kind, beside the reconciliation loop; calls fail.
SPECIFICATION Spec
CONSTANTS
    Users = {u1}
    Keys = {k1, k2}
    NoKey = NoKey
    Rows = {1, 2}
    NoRow = NoRow
    NoUser = NoUser
    TotalHosts = 4
    ServerAddr = 1
    ServerKeys = {s1, s2}
    NoServerKey = NoServerKey
    h1 = h1
    h2 = h2
    Handlers = {h1}
    Requests <- Serial
    Events = {"lost"}
    DefaultMaxPeers = 1
    MaxPeersChoices = {0, 1}
    ConfigKey = s1
INVARIANTS TypeOK ActiveAddressesDistinct ServerKeyInStep
PROPERTIES WithinQuota RevokedStaysRevoked ImplementsPeerLedger
SYMMETRY KeysOnly
