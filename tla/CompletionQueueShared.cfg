CONSTANTS
    Cqs = {cq, rcq}
    MainCq = cq
    Shared = TRUE
    SharedChannel = channel
    NonBlocking = TRUE
    Failures = {"notify", "poll", "event"}
    WaitsAgain = FALSE
    BatchSizes = {1, 2}
    MaxCompletions = 4
SPECIFICATION FairSpec
INVARIANTS NoLostWakeup DeleteNeverBlocks
PROPERTIES ServiceSpec
CHECK_DEADLOCK FALSE
