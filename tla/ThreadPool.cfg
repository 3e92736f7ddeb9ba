CONSTANTS
    Handlers = {h1, h2}
    Threads = {t1, t2, t3, t4}
    Pools <- MCPools
    MaxMessages = 1
    MaxUnjoined = 1
    WorkQueue = WorkQueue
    None = None
CHECK_DEADLOCK FALSE
SPECIFICATION FairSpec
INVARIANTS
    Consistent
    FinishedIsLast
    Serialized
    ThreadAvailable
PROPERTIES
    ReadyServed
    ThreadsEnd
