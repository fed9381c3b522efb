CONSTANTS
    HalfSpace = 8
    ByteSize = 4
    MaxWidth = 3
    IntLimit = 32
    Lines <- MCLines
    Files <- MCFiles
SPECIFICATION Spec
INVARIANTS
    TypeOK
    ResultValid
    ReadsAsWritten
    ErrorStopsCommand
    FreesAll
    IntsExact
    RequestsFit
    OwnData
PROPERTIES
    LineEnds
\* glydb ends.
CHECK_DEADLOCK FALSE
