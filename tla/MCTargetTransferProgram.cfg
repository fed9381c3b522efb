CONSTANTS
    HalfSpace = 16
    SectorStride = 8
    ChipSector = 2
    MaxDataLength = 6
    Bits <- MCBits
    Writes <- MCWrites
    Reads <- MCReads
    InitMem <- MCInitMem
    MaxCommands = 2
SPECIFICATION Spec
INVARIANT ProgramWrites
CHECK_DEADLOCK FALSE
