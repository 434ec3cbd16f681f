SPECIFICATION SpecServing
CONSTANTS
    Ids = {s1}
    TcpClients = {c1}
    HttpClients = {}
    Handles = {h1, h2}
    MaxRespawnAttempts = 2
    None = None
PROPERTY
    StopLeavesNoProcess
