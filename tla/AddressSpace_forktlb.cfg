SPECIFICATION Spec
CONSTANTS
    Mmus = {m1, m2}
    Cpus = {c1}
    Pages = {0, 1}
    x1 = x1
    x2 = x2
    Hosts = {h1, h2, h3}
    External <- OneExternal
    Readonly = {}
    Slots = {s1, s2}
    Idents = {i1, i2, i3, i4}
    Prots <- ProtRW
    Vals = {0, 1}
    Zero = 0
    TLB_SIZE = 1
    Kinds = {"AnonPrivate", "AnonCow"}
    Caches = {"tlb"}
    StoreOps = {"bulk"}
    Forking = TRUE
SYMMETRY Symmetry
INVARIANTS
    TlbFaithful
