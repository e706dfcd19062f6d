SPECIFICATION Spec
CONSTANTS
    Images <- GraphicsKernels
    Memories <- SomeMemories
    MaxAddress = 14
    Machines <- OneMachine
    MallocMayFail = FALSE
    ModeMayFail = FALSE
    IoMayFail = FALSE
INVARIANT
    BestModeSet
CHECK_DEADLOCK FALSE
