SPECIFICATION Spec
CONSTANTS
    Page = 64
    ImageEnd = 32
    MemEnd = 232
    TailFree = FALSE
    Requests = {1, 10, 16, 27, 48}
    MaxLive = 4
INVARIANTS
    Tiling
    FreeListExact
    NoPageCrossing
    AllFreedIsInitial
CHECK_DEADLOCK FALSE
