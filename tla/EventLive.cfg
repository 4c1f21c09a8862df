CONSTANTS
    Events = {1, 2}
    Pollers = {p1, p2}
    BatchSize = 2
    Unpublishable = {1}
    MaxCopies = 2
    Kinds = {"audit"}
    Typings <- MCTypings
    Workers = {w1}
    Poison = {}
    MaxDeliver = 2
    None = None
CHECK_DEADLOCK FALSE
SPECIFICATION FairSpec
PROPERTIES
    EventuallyLogged
