CONSTANTS
    t1 = t1
    t2 = t2
    r1 = r1
    r2 = r2
    Tabs = {t1, t2}
    Registrants = {r1, r2}
    MaxTokens = 3
SYMMETRY Symmetry
CHECK_DEADLOCK FALSE
SPECIFICATION Spec
INVARIANTS
    OneAccount
    CookieUsable
    ReplayRefused
