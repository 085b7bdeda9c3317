CONSTANTS
    p1 = p1
    p2 = p2
    Pushers = {p1}
    Messages = {"quiet", "answered"}
    InboxBound = 1
    WireBound = 3
SPECIFICATION Spec
INVARIANTS ClientSeesWholeFrames
