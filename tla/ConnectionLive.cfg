CONSTANTS
    c1 = c1
    c2 = c2
    c3 = c3
    Calls <- MCTwoCalls
    Caller <- MCTwoCaller
    Twoway <- MCTwoTwoway
    Async <- MCTwoAsync
    Ops <- LiveOps
    Environments <- MCGraceful
    ReadAndWrite = FALSE
    Capacity = 2
CHECK_DEADLOCK FALSE
SPECIFICATION FairSpec
PROPERTIES
    ClosingFinishes
    CallsEnd
    CloseReturns
    WaitReturns
