\* Two staged events at most, one queued datagram; ring sizes chosen so that
\* both queues fill.
CONSTANTS
    StagingBound = 2
    OscBound = 1
    Bundles <- MCBundles
    MaxBeat = 2
    MaxMessages = 2
SPECIFICATION Spec
INVARIANTS EachEventOnce FiresInBeatOrder FiresWhenFirstDue
