SPECIFICATION FairSpec
CONSTANTS
    c1 = c1
    c2 = c2
    Client = {c1, c2}
    Closers = {c2}
    Prompt = {c2}
    Listener = Listener
    MaxConns = 1
    MaxRequests = 2
    RespLen = 2
    SendBuf = 2
    IdleTimeout = 1
    Grace = 1
    AcceptErrors = FALSE
    SignalOnReactor = FALSE
INVARIANTS
    TypeOK
    CapRespected
    NoLostWakeup
    InterestMatches
    NothingLost
    ShutdownDrains
PROPERTIES
    EveryRequestServed
    SignalStops
    SilentReaped
CHECK_DEADLOCK FALSE
