CONSTANTS
    Ids = {s1, s2}
    Streams = {k1, k2}
    Slots = {c1}
    Cap = 1
    NetCap = 1
    None = none
SPECIFICATION FairSpec
INVARIANTS TypeOK CursorOnARow NeverStranded NoStreamForgotten
PROPERTIES SavesWhatItShows QuitEnds
CHECK_DEADLOCK FALSE
