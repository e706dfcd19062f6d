SPECIFICATION FileSpec
CONSTANTS
    BytsPerClus = 2
    FatSecSize = 4
    LastCluster = 8
    Reserved = 0
    Word = 16
    Volumes <- SmallVolumes
    Requests <- Calls
    BytsPerSec = 2
    DevSectors = 4
    RawRequests <- RawCalls
    IoMayFail = TRUE
    GarbageNext = {268435455}
INVARIANTS
    ClusterTracksCursor
    ReadyToRead
PROPERTIES
    Refines
    RawRefines
    EveryFileCallReturns
