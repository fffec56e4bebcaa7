SPECIFICATION Spec
CONSTANTS
    Regions = {pmem}
    Pmem = {pmem}
    Usages = {{"READ_SRC"}, {"WRITE_DST", "FLUSH_PERSISTENT"},
              {"READ_SRC", "WRITE_DST", "FLUSH_VISIBILITY", "FLUSH_PERSISTENT"}}
    Apis = {"read", "write", "atomic_write", "flush"}
    Flags = {"ON_ERROR", "ALWAYS"}
    Faults = {"crash", "link"}
    SqSize = 3
    MaxOps = 3
INVARIANTS FlushPersists AtomicWriteOrdered ValueAsGiven
    SuccessCoversEarlier
CHECK_DEADLOCK FALSE
