SPECIFICATION Spec
CONSTANTS
    Images <- GraphicsKernels
    Memories <- SomeMemories
    MaxAddress = 14
    Machines <- ShutMachine
    MallocMayFail = FALSE
    ModeMayFail = FALSE
    IoMayFail = FALSE
INVARIANT
    A20Enabled
CHECK_DEADLOCK FALSE
