SPECIFICATION Spec
CONSTANTS
    User = {u1, u2}
    Call = {c1}
    Request = {r1}
    RedisFaults = {}
    MaxFaults = 0
    MaxEvents = 2
INVARIANTS
    AnsweredNotMissed
CHECK_DEADLOCK FALSE
