SPECIFICATION Spec
CONSTANTS
    Clients = {c1, c2}
    Slots = {x, y, z}
    Ops = {"Init", "Flush"}
    QueueLimit = 2
    MaxCalls = 3
    MaxTableOps = 2
SYMMETRY Symmetry
INVARIANTS
    TypeOK
    QueueIndexed
    NeverAborts
    CallbackHeldOnce
    AnswersTruthful
