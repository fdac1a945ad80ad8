SPECIFICATION Spec
CONSTANTS
    Cpus = {1, 2, 3}
    PAGE_SIZE = 16
    PageCount = 4
    TLB_SIZE = 2
    Frames = {0, 1, 2}
    CACHE_LINE_SIZE = 8
    SHARDED_LOCK_COUNT = 3
    CHUNK_SIZE = 8
    Scenarios <- MCScenarios
CHECK_DEADLOCK FALSE
INVARIANTS
    RefusalsExact
    BytesInPlace
    NoTearing
    DirtyAfterBytes
    NoDataRace
PROPERTY AccessesReturn
