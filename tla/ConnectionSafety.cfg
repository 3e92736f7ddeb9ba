CONSTANTS
    c1 = c1
    c2 = c2
    c3 = c3
    Calls <- MCCalls
    Caller <- MCCaller
    Twoway <- MCMixedTwoway
    Async <- MCAsync
    Ops <- MCOps
    Environments <- MCEnvironments
    ReadAndWrite = TRUE
    Capacity = 2
CHECK_DEADLOCK FALSE
SPECIFICATION Spec
INVARIANTS
    TypeOK
    CloseIsLast
    CloseGuaranteesRepeat
    DispatchCounted
    RepliesExpected
    ReapedOnce
    GracefulLosesNothing
PROPERTIES
    AtMostOnceUnlessTorn
