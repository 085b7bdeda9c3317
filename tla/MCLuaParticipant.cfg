CONSTANTS
    Programs <- AllPrograms
    EffectOf <- AllEffects
    PushWired = TRUE
    MaxBeat = 2
    MaxCalls = 2
SPECIFICATION FairSpec
INVARIANTS ThunkRunsOnceWhenDue
PROPERTIES OnlySelfLockBlocks ThunkRuns
\* A destroyed participant does nothing more.
CHECK_DEADLOCK FALSE
