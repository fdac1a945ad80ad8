SPECIFICATION FairSpec
CONSTANTS
    Stores = {s1, s2}
    Exclusive = {}
    Flushers = {f1, f2}
    Refreshers = {f2}
    WriteErrors = TRUE
    Panics = TRUE
    MaxCalls = 2
INVARIANTS
    TypeOK
    FlagsExclusive
    FlushAnswered
    NoLostStore
    NoStaleCode
PROPERTY FlushReturns
