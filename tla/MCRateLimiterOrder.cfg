SPECIFICATION MCSpec
CONSTANTS
    p1 = p1
    p2 = p2
    p3 = p3
    Peer = {p1, p2, p3}
    MaxEntries = 2
    Requests = 1
    WindowSecs = 3
    BanSecs = 2
    WordSize = 1000
    MaxSkew = 0
    StartTime = 2
    MaxTime = 7
    MaxChecks = 5
INVARIANT BurstBounded
PROPERTY ImplementsQuotaTable
CHECK_DEADLOCK FALSE
