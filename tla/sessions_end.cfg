SPECIFICATION FairSpec
CONSTANTS
    Session = {s1}
    NoSession = NoSession
    Request = {r1, r2}
    MaxTokens = 2
INVARIANTS
    TypeOK
    OnlyLateFillsOutlive
PROPERTIES
    GoneStaysGone
    TerminationTakesHold
    RevocationTakesHold
CHECK_DEADLOCK FALSE
