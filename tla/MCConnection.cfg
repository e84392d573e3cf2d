SPECIFICATION FairSpec
CONSTANTS
    MaxHead = 5
    MaxChunkLine = 3
    MaxBody = 3
    Streams <- MCStreams
INVARIANTS
    TypeOK
    AnswersAsSent
    InterimInPlace
    NothingLeftBehind
PROPERTY EveryRequestAnswered
CHECK_DEADLOCK FALSE
