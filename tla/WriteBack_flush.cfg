SPECIFICATION Spec
CONSTANTS
    Stores = {s1, s2}
    Exclusive = {}
    Flushers = {f1, f2}
    Refreshers = {f2}
    WriteErrors = FALSE
    Panics = FALSE
    MaxCalls = 1
INVARIANT FlushDurable
