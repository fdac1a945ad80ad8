SPECIFICATION Spec
CONSTANTS
    Mmus = {m1, m2}
    Cpus = {c1}
    Pages = {0, 1}
    x1 = x1
    x2 = x2
    Hosts = {h1, h2, h3}
    External <- OneExternal
    Readonly = {}
    Slots = {s1}
    Idents = {i1, i2, i3, i4}
    Prots <- ProtBoth
    Vals = {0}
    Zero = 0
    TLB_SIZE = 1
    Kinds = {"AnonPrivate", "AnonCow", "ObjShared"}
    Caches = {"tlb"}
    StoreOps = {"scalar"}
    Forking = FALSE
SYMMETRY Symmetry
INVARIANTS
    TypeOK
    TlbFaithful
