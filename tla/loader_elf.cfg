SPECIFICATION Spec
CONSTANTS
    Images <- ElfKernels
    Memories <- SomeMemories
    MaxAddress = 14
    Machines <- OneMachine
    MallocMayFail = FALSE
    ModeMayFail = FALSE
    IoMayFail = FALSE
INVARIANT
    EverythingFreed
CHECK_DEADLOCK FALSE
