SPECIFICATION Spec
CONSTANTS
    MB = 8
    KB = 2
    Wrap = 64
    MemoryMap <- NoMap
    HasSimple = TRUE
    MemUpper = 4
    MallocMayFail = FALSE
    Starts = {0}
    Sizes = {4}
    Aligns = {0}
    MaxLive = 2
INVARIANTS
    NothingLost
CHECK_DEADLOCK FALSE
