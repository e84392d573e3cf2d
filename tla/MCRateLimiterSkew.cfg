SPECIFICATION MCSpec
CONSTANTS
    p1 = p1
    p2 = p2
    Peer = {p1, p2}
    MaxEntries = 1
    Requests = 1
    WindowSecs = 3
    BanSecs = 2
    WordSize = 1000
    MaxSkew = 1
    StartTime = 2
    MaxTime = 7
    MaxChecks = 5
INVARIANTS
    TypeOK
    Bounded
    BanMatchesCount
    BanIsKept
    RetryAfterSuffices
CHECK_DEADLOCK FALSE
