CONSTANTS
    Slots = {s1, s2}
    Budget = 1
    LowBudget = 2
    LockRetries = 1
    FlagSets <- BothKinds
    KeyInput = {TRUE}
    StreamInput = {TRUE, FALSE}
    MaxResponses = 3
SPECIFICATION FairSpec
INVARIANTS
    OverageBounded
    ServedIsBilled
PROPERTIES
    ReleaseOnlyOwn
    RequestEnds
