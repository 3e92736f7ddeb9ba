CONSTANTS
    Records <- MCAllRecords
    MaxEvents = 4
    MaxBurst = 2
    MaxFinders = 2
CHECK_DEADLOCK FALSE
SPECIFICATION FairSpec
INVARIANTS
    TypeOK
    OutstandingCounted
    NoStuckEvents
    EventsConserved
    ReapedIsReported
    ShutdownDrains
    OnlyRetryAssertFails
PROPERTIES
    OrderedDelivery
    ShutdownReturnsUnlessCostly
