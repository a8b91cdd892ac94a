SPECIFICATION Spec
CONSTANTS
    Process = {p1}
    Nobody = Nobody
    NoHash = NoHash
    Flush = {f1}
    Events = 2
    BatchSize = 2
    MaxFaults = 0
INVARIANTS
    LinksFormChain
CHECK_DEADLOCK FALSE
