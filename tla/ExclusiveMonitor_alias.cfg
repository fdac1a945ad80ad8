SPECIFICATION Spec
CONSTANTS
    Cpus = {c1, c2}
    Ptrs = {2, 3, 67}
    Widths = {1, 2}
    Buckets = {0, 1}
    BucketOf <- MCBucketOf
    Bytes = {0, 1}
    MaxVersion = 3
SYMMETRY Symmetry
PROPERTY StrexReserved
