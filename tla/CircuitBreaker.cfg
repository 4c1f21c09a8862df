CONSTANTS
    Callers = {c1, c2}
    FailureThreshold = 2
    FailureWindow = 2
    OpenDuration = 3
    TTL = 4
    MaxCall = 2
    MaxTime = 7
SPECIFICATION FairSpec
INVARIANTS
    ClosedBelowThreshold
    SingleProbe
PROPERTIES
    QuietPeriod
    KeepsContract
    HalfOpenEnds
