SPECIFICATION Spec
CONSTANTS
    Disks <- FourDisks
    BootDevice <- BsdPartition
    Paths <- AllPaths
    NoNumber = 999
    MaxDevices = 2
INVARIANTS
    DeviceIsPartition
    ReturnsWanted
PROPERTY
    WalkEnds
