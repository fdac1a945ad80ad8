SPECIFICATION Spec
CONSTANTS
    Cpus = {c1, c2}
    Ptrs = {2, 67, 131}
    Widths = {1, 2}
    Buckets = {0, 1}
    BucketOf <- MCBucketOf
    Bytes = {0, 1}
    MaxVersion = 2
SYMMETRY Symmetry
INVARIANT ReservationsExpire
PROPERTY StrexAtomic
