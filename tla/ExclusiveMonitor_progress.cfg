SPECIFICATION LoopSpec
CONSTANTS
    Cpus = {c1, c2, c3}
    Ptrs = {3, 67}
    Widths = {1}
    Buckets = {0, 1}
    BucketOf <- MCBucketOf
    Bytes = {0, 1, 2, 3}
    MaxVersion = 3
PROPERTY Progress
CHECK_DEADLOCK FALSE
