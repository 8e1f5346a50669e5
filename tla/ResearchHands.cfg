SPECIFICATION Spec
CONSTANTS
    p1 = p1
    p2 = p2
    Log = Log
    Pages <- ErrorPages
    Heat <- FirstIsHotter
    Limit = 2
    MaxEpochs = 1
    MaxRuns = 2
    MaxHands = 1
    MaxKills = 0
    MaxFaults = 0
PROPERTIES
    HandsAreKept
CHECK_DEADLOCK FALSE
