SPECIFICATION Spec
CONSTANTS
    MB = 8
    KB = 2
    Wrap = 64
    MemoryMap <- OverlappingMap
    HasSimple = FALSE
    MemUpper = 4
    MallocMayFail = FALSE
    Starts = {0}
    Sizes = {4}
    Aligns = {0}
    MaxLive = 3
INVARIANTS
    NoDoubleAllocation
CHECK_DEADLOCK FALSE
