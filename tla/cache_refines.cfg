SPECIFICATION Spec
CONSTANTS
    CACHE_SIZE = 2
    MAX_READ_TRY = 2
    StartSector = 10
    DevSectors = 3
    Requests <- AllRequests
    TimeWrap = 6
INVARIANTS
    CacheCoherent
    NoBlockLeaked
    MostRecentCached
PROPERTIES
    Refines
    EveryCallReturns
