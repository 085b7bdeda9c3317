\* OSC: two clients and one sending thread, a second start() after a stop().
\* nomos-mcp: three requests, with kairos going down once.  MIDI: two sending
\* threads, every port opened twice.
CONSTANTS
    Clients = {"c1", "c2"}
    Senders = {"s1"}
    Wired = TRUE
    QueueBound = 1
    MaxPackets = 3
    MaxStarts = 2
    Requests <- McpRequests
    MaxRequests = 3
    MaxPushes = 1
    MaxDowns = 1
    Threads = {"t1", "t2"}
    MaxSends = 2
    MaxInput = 3
    MaxOpens = 2
SPECIFICATION MCSpec
INVARIANTS LifeCycle RoutedToItsEnd AnsweredOnce TapMirrorsWire InputQueueIsThere
PROPERTIES WaitsForPeersOnly
\* The last stop() is not followed by a start(), nor the last close by an open.
CHECK_DEADLOCK FALSE
