SPECIFICATION Spec
CONSTANTS
    Images <- Kernels
    Memories <- SomeMemories
    MaxAddress = 14
    Machines <- SomeMachines
    MallocMayFail = TRUE
    ModeMayFail = FALSE
    IoMayFail = TRUE
INVARIANTS
    ImageIntact
    ModulesIntact
    FailureReleases
    GraphicsAsTold
    ClosestFound
CHECK_DEADLOCK FALSE
