CONSTANTS
    Fragile = {cb}
    a1 = a1
    a2 = a2
    s1 = s1
    ca = ca
    cb = cb
    Async = {a1, a2}
    Sync = {s1}
    Destroyer = Destroyer
    Connectors = {ca, cb}
    Ids = {1, 2, 3, 4, 5}
    None = None
    Resolutions <- MCResolutions
CHECK_DEADLOCK FALSE
SPECIFICATION FairSpec
INVARIANTS
    Consistent
    OneConnection
    QuietOnceFinishing
PROPERTIES
    EveryoneAnswered
