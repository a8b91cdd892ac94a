SPECIFICATION FairSpec
CONSTANTS
    User = {u1, u2}
    Request = {r1, r2}
    Timer = {t1, t2, t3}
    NoTimer = NoTimer
    Nobody = Nobody
    MaxFaults = 1
INVARIANTS
    TypeOK
    EveryIndicatorIsTimed
PROPERTIES
    TypingEnds
    SilenceClears
CHECK_DEADLOCK FALSE
