SPECIFICATION Spec
CONSTANTS
    w1 = w1
    w2 = w2
    s1 = s1
    s2 = s2
    bad = bad
    none = none
    a = a
    b = b
    Worker = {w1, w2}
    Site = {s1, s2}
    BadSite = {bad}
    BadPassword = {none}
    Password = {a, b}
    First <- MCFirst
    MaxRequests = 3
INVARIANTS
    TypeOK
    AcceptedIsApplied
    RefusedIsHarmless
PROPERTY PersistBeforeSwap
CHECK_DEADLOCK FALSE
