CONSTANTS
    s1 = s1
    s2 = s2
    Requests = {s1, s2}
    Skew <- ClockSkew
    MaxSkew = 1
    CacheTTL = 2
    Capacity = 1
    Unit = 2
    BucketTTL = 4
    Window = 3
    MaxWait = 1
    MaxTime = 6
    MaxRequests = 4
CHECK_DEADLOCK FALSE
SPECIFICATION AccessSpec
INVARIANTS
    AdmissionBounded
    OneNoticePerWindow
PROPERTIES
    RevocationSticks
    RevocationBounded
