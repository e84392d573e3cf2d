SPECIFICATION Spec
CONSTANTS
    MAX_DEPTH = 3
    MantissaBits = 5
    U64Max = 63
    U16Max = 15
    Numerals <- MCNumerals
    Runs <- MCRuns
    Decimal <- MCDecimal
    Preset = 3
    Documents <- MCDocuments
    Explicit = FALSE
    NewHash <- MCNewHash
    NoAddress <- MCNoAddress
INVARIANTS
    TypeOK
    RestartKeepsConfig
    AcceptedIsAsWritten
    RestartIsAnnounced
