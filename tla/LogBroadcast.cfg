SPECIFICATION FairSpec
CHECK_DEADLOCK FALSE
CONSTANTS
    Pipes = {out, err}
    Subscribers = {a, b}
    SseHandlers = {b}
    Reading = {a}
    Capacity = 2
    MaxLines = 2
INVARIANTS
    TypeOK
    OpenIffSubscribed
    NothingLostUnlessFull
    OrderKept
PROPERTIES
    StreamsEnd
    ReadersEnd
