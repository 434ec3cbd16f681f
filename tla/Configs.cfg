CONSTANTS
    DefaultRoot = r1
    Tasks = {t1, t2}
    Ids = {s1}
    Roots = {r1, r2}
    Torn = torn
    Names = {n1, n2}
    Flags = {plain, tuned}
    Default = plain
    Keep = keep
    Jars = {j1, j2}
    Long = {j2}
    Absent = absent
    Empty = empty
    None = none
    MaxCalls = 3
    MaxFaults = 1
SPECIFICATION Spec
INVARIANTS TypeOK AloneAsPromised 
PROPERTIES GoneUntilCreated
CHECK_DEADLOCK FALSE
