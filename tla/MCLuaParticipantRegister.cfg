CONSTANTS
    Programs <- AllPrograms
    EffectOf <- AllEffects
    PushWired = TRUE
    MaxBeat = 1
    MaxCalls = 2
SPECIFICATION FairSpec
PROPERTIES CallsReturn
CHECK_DEADLOCK FALSE
