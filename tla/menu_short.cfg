SPECIFICATION Spec
CONSTANTS
    nImages = 4
    Default = 2
    Timeout = 2
    Word = 1024
    Codes = {28, 67, 81}
    EarlyKeys = FALSE
    MaxSecs = 3
    Moments <- NoonOnly
INVARIANT
    RebootRequested
