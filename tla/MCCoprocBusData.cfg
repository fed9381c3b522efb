SPECIFICATION Spec
CONSTANTS
    Requests <- MCRequests
    PollLimit = 2
    MemAddr <- MCMemAddr
    InitByte <- MCInitByte
INVARIANT OneDataDriver
