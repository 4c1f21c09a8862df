CONSTANTS
    Requests = {r1, r2, r3}
    Absent = Absent
    Processing = Processing
    Failed = Failed
    Broken = Broken
SPECIFICATION FairSpec
INVARIANTS
    ReturnedIsReal
    OneExecution
PROPERTIES
    RequestEnds
CHECK_DEADLOCK FALSE
