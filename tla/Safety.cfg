SPECIFICATION Spec
CONSTANTS
    Ids = {s1, s2}
    TcpClients = {c1}
    HttpClients = {}
    Handles = {h1, h2}
    MaxRespawnAttempts = 1
    None = None
SYMMETRY Symmetry
INVARIANTS
    TypeOK
    RunningIsPersisted
    RegisteredIsWatched
    MarkedIsInHand
    SpawnedIsPrivate
