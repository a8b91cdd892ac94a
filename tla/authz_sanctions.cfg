SPECIFICATION FairSpec
CONSTANTS
    User = {m, u}
    Target = {u}
    Role = {"moderator", "member"}
    Moderating = {"moderator"}
    NoRole = "none"
    Project = "default"
    Request = {r1, r2}
    Nobody = Nobody
    InitRole <- MCInitRole
    Offered <- MCOffered
INVARIANTS
    TypeOK
    OnlyLateAnswersSurviveBan
PROPERTIES
    CheckedSanctionsHold
    BanTakesHold
    CacheFollowsRole
CHECK_DEADLOCK FALSE
