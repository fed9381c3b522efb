SPECIFICATION Spec
CONSTANTS
    BufferSize = 8
    LowRange = 4
    HighRange = 4
    UartDepth = 2
    Window = 8
    MaxBytes = 35
INVARIANTS TypeOK RingInv Lossless NoLostWakeup
PROPERTIES KeepsUnreturned IsQueue
CHECK_DEADLOCK FALSE
