SPECIFICATION FairSpec
CONSTANTS
    Process = {p1}
    Nobody = Nobody
    NoHash = NoHash
    Flush = {f1, f2}
    Events = 3
    BatchSize = 2
    MaxFaults = 2
INVARIANTS
    TypeOK
    AcceptedIsKept
    HeldOnce
PROPERTIES
    LinksPointBack
    KeepsTree
    AcceptedIsStored
CHECK_DEADLOCK FALSE
