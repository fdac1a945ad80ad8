SPECIFICATION Spec
CONSTANTS
    Widths = {3, 4}
    I64 = 4
    I32 = 5
    Requests <- MCRequests
    MaxImm = 9
    MaxTrips = 3
INVARIANT ShiftReduces
