SPECIFICATION Spec
CONSTANTS
    nImages = 16
    Default = 2
    Timeout = 2
    Word = 1024
    Codes = {1, 2, 15, 28, 67, 71, 72, 73, 79, 80, 81}
    EarlyKeys = FALSE
    MaxSecs = 3
    Moments <- AroundMidnight
INVARIANTS
    RebootRequested
    MarkedIsSelected
    TimeIsOfTheCall
PROPERTIES
    KeyStopsCountdown
    CountdownEnds
