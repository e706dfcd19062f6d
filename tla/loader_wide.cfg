SPECIFICATION Spec
CONSTANTS
    Images <- WideKernels
    Memories <- SomeMemories
    MaxAddress = 14
    Machines <- OneMachine
    MallocMayFail = FALSE
    ModeMayFail = FALSE
    IoMayFail = FALSE
INVARIANT
    SegmentsLoaded
CHECK_DEADLOCK FALSE
