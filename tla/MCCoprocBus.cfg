SPECIFICATION Spec
CONSTANTS
    Requests <- MCRequests
    PollLimit = 2
    MemAddr <- MCMemAddr
    InitByte <- MCInitByte
INVARIANTS TypeOK BusInv BusOwnership AckedEarlyAfterTimeout CommandEffect
PROPERTIES CommandEnds BusReturned
