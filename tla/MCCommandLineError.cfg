CONSTANTS
    HalfSpace = 8
    ByteSize = 4
    MaxWidth = 3
    IntLimit = 32
    Lines <- MCLoadLines
    Files <- MCFiles
SPECIFICATION Spec
INVARIANTS
    Survives
CHECK_DEADLOCK FALSE
