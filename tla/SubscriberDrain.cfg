CONSTANTS
    Records <- MCCostLink
    MaxEvents = 3
    MaxBurst = 2
    MaxFinders = 2
CHECK_DEADLOCK FALSE
SPECIFICATION FairSpec
PROPERTY ShutdownReturns
