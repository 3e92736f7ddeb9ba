CONSTANTS
    Nodes <- MCNodes
    MaxMerges = 2
    MaxUpdates = 1
    MaxFaults = 1
    MaxCrashes = 1
CHECK_DEADLOCK FALSE
SPECIFICATION FormedSpec
INVARIANTS TypeOK InSync AckedSurviveUnless GenerationUnique StampNamesData
CONSTRAINT NoLapse
