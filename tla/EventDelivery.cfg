CONSTANTS
    Events = {1, 2}
    Pollers = {p1}
    BatchSize = 2
    Unpublishable = {}
    MaxCopies = 2
    Kinds = {"analytics", "audit", "billing", "email"}
    Typings <- MCTypings
    Workers = {w1, w2}
    Poison = {2}
    MaxDeliver = 2
    None = None
CHECK_DEADLOCK FALSE
SPECIFICATION Spec
SYMMETRY Symmetry
INVARIANTS
    AuditOnce
    AckedIsLogged
