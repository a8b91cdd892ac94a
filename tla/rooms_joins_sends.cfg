SPECIFICATION Spec
CONSTANTS
    s1 = s1
    s2 = s2
    s3 = s3
    u1 = u1
    u2 = u2
    Socket = {s1, s2, s3}
    User = {u1, u2}
    UserOf <- MCUserOf
    Message = {m1, m2}
    Request = {r1, r2}
    NoRoom <- MCNoRoom
    NoSocket = NoSocket
    NoMessage = NoMessage
    MaxFaults = 1
SYMMETRY Symmetric
INVARIANTS
    TypeOK
    JoinedIsRecorded
    OkMeansPublished
CHECK_DEADLOCK FALSE
