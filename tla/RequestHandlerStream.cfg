CONSTANTS
    c1 = c1
    c2 = c2
    c3 = c3
    Callers = {c1, c2, c3}
    None = None
    Handlers = {h1, h2}
    Connections = {k1}
    MaxCalls = 2
    Scripts <- MCScripts
CHECK_DEADLOCK FALSE
SPECIFICATION Spec
INVARIANTS
    BatchStreamReleased
