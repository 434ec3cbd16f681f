CONSTANTS
    Ids = {s1}
    Tasks = {t1, t2}
    Pids = {p1, p2, p3}
    Ops = {"start", "stop", "restart"}
    None = None
SPECIFICATION FairSpec
INVARIANTS TypeOK LiveIsWatched
PROPERTIES AutoRestart
