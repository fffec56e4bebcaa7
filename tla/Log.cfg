SPECIFICATION FairSpec
CONSTANTS
    Threads = {t1, t2}
    Messages = {2, 3}
    Exits = TRUE
    MaxCalls = 2
INVARIANTS NullOnlyAtExit MessageWanted
PROPERTY SettersFinish
CHECK_DEADLOCK FALSE
