SPECIFICATION Spec
CONSTANTS
    Conns = {k1}
    None = None
    Workers = TRUE
    Faults = {}
    MaxExtra = 0
INVARIANT EstablishedReachesConnection
CHECK_DEADLOCK FALSE
