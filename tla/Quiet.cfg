SPECIFICATION QuietSpec
CONSTANTS
    Ids = {s1, s2}
    TcpClients = {c1}
    HttpClients = {c2}
    Handles = {h1, h2, h3}
    MaxRespawnAttempts = 1
    None = None
INVARIANTS
    ShutdownIsClean
PROPERTIES
    KeepsPromise
    StopIsRemembered
