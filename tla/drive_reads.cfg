SPECIFICATION DriveSpec
CONSTANTS
    DRIVE_INFO_LENGTH = 2
    Geometry <- FourDrives
    Absent = {1}
    Unready = {}
    MaxBlocks = 4
    MaxCylinders = 4
    MaxCount = 7
INVARIANTS
    OneEntryPerDrive
    ReadsWhatWasAsked
