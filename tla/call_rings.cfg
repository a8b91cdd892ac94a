SPECIFICATION FairSpec
CONSTANTS
    User = {u1, u2}
    Call = {c1, c2}
    Request = {r1, r2}
    RedisFaults = {"getActiveCalls", "getCall", "saveCall", "deleteCall"}
    MaxFaults = 1
    MaxEvents = 3
INVARIANTS
    TypeOK
    OneCallUnlessOvertaken
    RingingIsTimed
PROPERTIES
    OrderUnlessOvertaken
    NeverRingsAgain
    EveryCallStopsRinging
CHECK_DEADLOCK FALSE
