SPECIFICATION FairSpec
CONSTANTS
    e1 = e1
    e2 = e2
    e3 = e3
    c1 = c1
    c2 = c2
    Event = {e1, e2, e3}
    Conv = {c1, c2}
    NoConv = NoConv
    ConvOf <- LiveConvOf
    TimeOf <- MCTimeOf
    Topic <- LiveTopic
    BatchSize = 2
    Timers = {"timer"}
    BulkFaults = {"writeErrors", "unavailable"}
    MaxFaults = 2
    MaxDeaths = 1
    MaxRebalances = 0
INVARIANTS
    AckedIsStored
PROPERTIES
    KeepsLedger
    EveryRecordBecomesDurable
CHECK_DEADLOCK FALSE
