\* More events than the buffer, the collector or the MIDI queue holds.
CONSTANTS
    Sources <- TwoSources
    QueueBound = 1
    MaxIn = 2
    MaxOut = 3
    BlockSize = 2
    MidiBound = 1
    MaxEvents = 2
    MaxMade = 4
SPECIFICATION FairSpec
INVARIANTS InputOnceInOrder OutputInOrder
PROPERTIES AcceptedIsSeen
