CONSTANTS
    Requests <- MCRequests
    ReadByte = 7
    StackBytes = {0, 2}
    Capacity = 8
    Faults = {"late"}
    MaxCalls = 2
    MaxFaults = 1
SPECIFICATION Spec
INVARIANT ReplyFits
