CONSTANTS
    e1 = e1
    e2 = e2
    Endpoints = {e1, e2}
    Targets <- MCTargets
    Asked <- MCAsked
    Events <- MCEvents
    MaxRuns = 2
    Workers = {w1, w2}
    MaxAttempts = 2
    MaxStalls = 1
    Watched <- FirstRow
    None = None
CHECK_DEADLOCK FALSE
SPECIFICATION FairSpec
INVARIANTS
    PostsBounded
    HonestLog
PROPERTIES
    FannedOut
    DeliverySettles
