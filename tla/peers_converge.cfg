\* After requests and failures stop, reconciliation repairs the device.
SPECIFICATION LiveSpec
CONSTANTS
    Users = {u1}
    Keys = {k1, k2}
    NoKey = NoKey
    Rows = {1, 2}
    NoRow = NoRow
    NoUser = NoUser
    TotalHosts = 4
    ServerAddr = 1
    ServerKeys = {s1}
    NoServerKey = NoServerKey
    h1 = h1
    h2 = h2
    Handlers = {h1, h2}
    Requests <- AddsAndToggles
    Events = {"lost", "settle"}
    DefaultMaxPeers = 2
    MaxPeersChoices = {2}
    ConfigKey = s1
PROPERTIES Converges
