SPECIFICATION FileSpec
CONSTANTS
    BytsPerClus = 2
    FatSecSize = 4
    LastCluster = 8
    Reserved = 0
    Word = 16
    Volumes <- Fragmented
    Requests <- Calls
    BytsPerSec = 2
    DevSectors = 4
    RawRequests <- RawCalls
    IoMayFail = FALSE
    GarbageNext = {268435455}
INVARIANT FullRead
