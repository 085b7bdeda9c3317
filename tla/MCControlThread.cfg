\* Two threads that push, a buffer that a header and a payload fill, and a client
\* that keeps reading.
CONSTANTS
    p1 = p1
    p2 = p2
    Pushers = {p1, p2}
    Messages = {"quiet", "answered", "oversize"}
    InboxBound = 1
    WireBound = 2
SPECIFICATION ReadingClientSpec
INVARIANTS NoWriteAfterClose StoppedIsQuiet PushesDoNotInterleave
PROPERTIES StopReturns
