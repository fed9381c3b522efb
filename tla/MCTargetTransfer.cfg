CONSTANTS
    HalfSpace = 16
    SectorStride = 8
    ChipSector = 2
    MaxDataLength = 6
    Bits <- MCBits
    Writes <- MCWrites
    Reads <- MCReads
    InitMem <- MCInitMem
    MaxCommands = 2
SPECIFICATION Spec
INVARIANTS TypeOK WritesPrefix ReadBack PacketsFit
PROPERTIES RightChip TransferEnds
\* glydb waits for the next command.
CHECK_DEADLOCK FALSE
