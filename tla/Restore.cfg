SPECIFICATION Spec
CONSTANTS
    Ids = {s1, s2}
    TcpClients = {c1}
    HttpClients = {}
    Handles = {h1, h2, h3, h4}
    MaxRespawnAttempts = 2
    None = None
INVARIANT
    PendingRestoreIsPersisted
