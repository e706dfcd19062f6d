SPECIFICATION Spec
CONSTANTS
    FatSecSize = 4
    LastCluster = 10
    IoMayFail = FALSE
    GarbageNext = {268435455}
    Disks <- LoopDisks
    Paths <- LoopPaths
    BaseLen = 2
    ExtLen = 1
    FragLen = 2
    EntrySize = 256
PROPERTY EveryOpenReturns
CHECK_DEADLOCK FALSE
