SPECIFICATION Spec
CONSTANTS
    e1 = e1
    e2 = e2
    e3 = e3
    c1 = c1
    c2 = c2
    Event = {e1, e2}
    Conv = {c1, c2}
    NoConv = NoConv
    ConvOf <- MCConvOf
    TimeOf <- MCTimeOf
    Topic <- MCTopic
    BatchSize = 2
    Timers = {"timer"}
    BulkFaults = {"writeErrors", "unavailable", "driverError"}
    MaxFaults = 1
    MaxDeaths = 1
    MaxRebalances = 1
INVARIANTS
    TypeOK
    HeadIsStored
PROPERTIES
    DropOnlyWhenDone
CHECK_DEADLOCK FALSE
