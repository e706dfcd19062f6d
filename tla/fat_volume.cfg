SPECIFICATION Spec
CONSTANTS
    FatSecSize = 4
    LastCluster = 10
    IoMayFail = TRUE
    GarbageNext = {268435455}
    Disks <- SmallDisks
    Paths <- SmallPaths
    BaseLen = 2
    ExtLen = 1
    FragLen = 2
    EntrySize = 256
INVARIANTS
    OpenIsLookup
    MountedAsFormatted
    NothingKept
PROPERTY
    EveryOpenReturns
CHECK_DEADLOCK FALSE
