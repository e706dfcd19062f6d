SPECIFICATION MainSpec
CONSTANTS
    Machines <- SmallMachines
    HeapRoom = 5
    ConfigFiles <- SmallFiles
    Word = 65536
    MemoryMayFail = TRUE
    ReadMayStop = TRUE
    ChaseEnds = {TRUE}
INVARIANTS
    MemoryInfoIsTrue
    ConfigIsMeaning
PROPERTY
    MainReturns
