SPECIFICATION FairSpec
CONSTANTS
    MaxClients = 2
    MaxRequests = 4
    Closing = {3}
    TxBuf = 1
INVARIANTS
    TypeOK
    ResponsesInOrder
    OwedIsPending
PROPERTIES
    ClosingFreesTheSocket
    RequestsAnswered
