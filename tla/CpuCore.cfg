SPECIFICATION Spec
CONSTANTS
    Hosts = {h1, h2}
    Requests <- MCRequests
    Addrs = {a1, a2}
    HaltCheckEvery = 2
    MaxRequests = 3
    Debug = TRUE
CHECK_DEADLOCK FALSE
INVARIANTS
    TypeOK
    HaltNoticedInTime
    LeaveFindsReason
    FaultSlotSound
    FlushBeforeNextInsn
PROPERTY HaltHeard
