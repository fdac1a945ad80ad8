SPECIFICATION Spec
CONSTANTS
    Mmus = {m1, m2}
    Cpus = {c1}
    Pages = {0, 1}
    x1 = x1
    x2 = x2
    Hosts = {h1, h2, x1, x2}
    External <- OneExternal
    Readonly = {}
    Slots = {s1, s2}
    Idents = {i1, i2, i3}
    Prots <- ProtRW
    Vals = {0, 1}
    Zero = 0
    TLB_SIZE = 1
    Kinds = {"AnonPrivate", "AnonCow", "AnonShared", "ObjPrivate", "ExtPrivate", "ExtCow", "ExtShared"}
    Caches = {"none"}
    StoreOps = {"force"}
    Forking = TRUE
SYMMETRY Symmetry
INVARIANTS
    PrivateIsolated
    WritableUnshared
