CONSTANTS
    Ids = {s1}
    Tasks = {t1}
    Pids = {p1, p2}
    Ops = {"start", "stop"}
    None = None
SPECIFICATION Spec
PROPERTIES StoppedStaysStopped
