SPECIFICATION Spec
CONSTANTS
    Disks <- TwoDisks
    BootDevice <- FirstPartition
    Paths <- Logical
    NoNumber = 999
    MaxDevices = 2
PROPERTY
    OpenReturns
