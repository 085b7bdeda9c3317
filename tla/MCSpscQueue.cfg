CONSTANTS
    a = a
    b = b
    p1 = p1
    p2 = p2
    NoItem = NoItem
    Capacity = 4
    Items = {a, b}
    Producers = {p1}
SPECIFICATION Spec
INVARIANTS NoSlotRace SizeIsSafeEstimate
PROPERTIES ImplementsFifo
