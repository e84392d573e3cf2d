SPECIFICATION Spec
CONSTANTS
    Routes <- MCRoutes
    Root <- MCRoot
    Links <- MCLinks
    IndexFiles <- MCIndexFiles
    MimeOverrides <- MCMimeOverrides
    Requests <- MCRequests
    Files <- MCFiles
    Lengths <- MCLengths
    Gzip = TRUE
    MinBytes = 2
    MaxWrites = 2
    MaxClock = 1
INVARIANTS
    TypeOK
    NotModifiedIsHonest
    PartsAreParts
    AllowAgrees
    StaysInRoot
