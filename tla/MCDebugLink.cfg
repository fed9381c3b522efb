CONSTANTS
    Requests <- MCRequests
    ReadByte = 7
    StackBytes = {0, 2}
    Capacity = 8
    Faults = {"lose", "late", "write"}
    MaxCalls = 2
    MaxFaults = 1
SPECIFICATION Spec
INVARIANTS TypeOK OwnReply OneRequest
PROPERTIES CommandEnds IsRpc
