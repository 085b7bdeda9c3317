CONSTANTS
    m1 = m1
    m2 = m2
    m3 = m3
    Mods = {m1, m2, m3}
    StyleOf <- OneOfEach
    MaxArms = 2
    LfsrLengths = {1, 3, 4, 5, 6, 7, 8, 9, 10}
    LoopLengths = {2, 3, 5}
    kMaxLength = 3
    DefaultLength = 2
    MaxPairs = 7
    MaxTicks = 3
    Top = 4
    Width = 4
    Volt = 1
    Logic = {"xor", "or", "and", "nor", "nand", "xnor"}
    Channels = 3
    Fine = 2
    Addresses = {0, 1, 2}
    Segments <- SegmentDefs
    Full = 8
    Rates = {1, 3, 8}
SPECIFICATION MCSpec
INVARIANTS PulseIsKept PulseIsOneShot CipherPattern InStep
INVARIANTS RegisterPeriod DejaVuSettings GraphComputesExpression EnvelopeShape
PROPERTIES HeldValues
