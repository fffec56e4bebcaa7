SPECIFICATION Spec
CONSTANTS
    Conns = {k1, k2}
    None = None
    Workers = FALSE
    Faults = {}
    MaxExtra = 0
INVARIANTS ConnsOutliveEndpoint
CHECK_DEADLOCK FALSE
SYMMETRY ConnSymmetry
