\* No symmetry: liveness is checked.
CONSTANTS
    o1 = o1  o2 = o2  o3 = o3
    w1 = w1  w2 = w2
    x = x  y = y
    EventThread = EventThread
    Objects = {o1, o2, o3}
    Readers = {EventThread}
    Writers = {w1, w2}
    NoObject = NoObject
    Ids = {x, y}
    MaxStarts = 2
SPECIFICATION FairSpec
INVARIANTS NoUseAfterFree TickSeesOneSnapshot ModOutIsFresh
PROPERTIES ImplementsRegistry RemovedIsDestroyed
\* A destroyed engine does nothing more.
CHECK_DEADLOCK FALSE
