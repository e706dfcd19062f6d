SPECIFICATION Spec
CONSTANTS
    FatSecSize = 4
    LastCluster = 10
    IoMayFail = FALSE
    GarbageNext = {268435455}
    Disks <- SixDisks
    Paths <- SixPaths
    BaseLen = 2
    ExtLen = 1
    FragLen = 2
    EntrySize = 256
INVARIANT
    LongNamesOpen
CHECK_DEADLOCK FALSE
