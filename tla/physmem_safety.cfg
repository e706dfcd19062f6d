SPECIFICATION Spec
CONSTANTS
    MB = 8
    KB = 2
    Wrap = 64
    MemoryMap <- UsualMap
    HasSimple = TRUE
    MemUpper = 4
    MallocMayFail = TRUE
    Starts = {0, 10}
    Sizes = {0, 3, 6}
    Aligns = {0, 8}
    MaxLive = 3
INVARIANTS
    TypeOK
    FreeListDisjoint
    NoDoubleAllocation
    OnlyUsableMemory
CHECK_DEADLOCK FALSE
