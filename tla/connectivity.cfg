\* Probes, late answers and reports; forwarding sessions; the relay agent's sessions.
SPECIFICATION MCSpec
CONSTANTS
    Servers = 2
    Tx = {t1, t2}
    NoTx = NoTx
    MaxMappings = 2
    MaxFaults = 2
    Remotes = {r1, r2}
    NoRemote = NoRemote
    Conns = {c1, c2}
    NoConn = NoConn
    MaxIdle = 1
    RelayRequests = {q1, q2}
    MaxLosses = 2
INVARIANTS TypeOK PendingReclaimed SocketsAccounted ReplyPathKept CleanupSparesUsed
    AnsweredWhereAsked OneConnection
PROPERTIES EndpointNeverOlder EndpointPublished RequestsSettled AgentReconnects
CHECK_DEADLOCK FALSE
