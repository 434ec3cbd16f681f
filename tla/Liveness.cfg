SPECIFICATION FairSpec
CONSTANTS
    Ids = {s1}
    TcpClients = {c1}
    HttpClients = {}
    Handles = {h1, h2}
    MaxRespawnAttempts = 1
    None = None
PROPERTIES
    EveryCallReturns
    DeadHandleLeaves
    ShutdownEnds
