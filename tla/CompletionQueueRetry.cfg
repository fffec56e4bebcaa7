CONSTANTS
    Cqs = {cq, rcq}
    MainCq = cq
    Shared = TRUE
    SharedChannel = channel
    NonBlocking = FALSE
    Failures = {"notify"}
    WaitsAgain = TRUE
    BatchSizes = {1, 2}
    MaxCompletions = 3
SPECIFICATION Spec
INVARIANT NoLostWakeup
CHECK_DEADLOCK FALSE
