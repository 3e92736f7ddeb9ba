CONSTANTS
    Nodes <- MCNodes
    MaxMerges = 3
    MaxUpdates = 1
    MaxFaults = 1
    MaxCrashes = 0
CHECK_DEADLOCK FALSE
SPECIFICATION FormedSpec
PROPERTY StampAdvances
