SPECIFICATION Spec
CONSTANTS
    Stores = {s1, s2}
    Exclusive = {s2}
    Flushers = {f1}
    Refreshers = {}
    WriteErrors = FALSE
    Panics = FALSE
    MaxCalls = 1
INVARIANT NoLostStore
