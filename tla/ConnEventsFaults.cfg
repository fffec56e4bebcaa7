SPECIFICATION FairSpec
CONSTANTS
    Conns = {k1}
    None = None
    Workers = FALSE
    Faults = {"from_id", "store", "ack", "accept", "conn_new", "device"}
    MaxExtra = 1
INVARIANTS DataDelivered
PROPERTIES ConnectAnswered EstablishedSignalled DisconnectSignalled
CHECK_DEADLOCK FALSE
