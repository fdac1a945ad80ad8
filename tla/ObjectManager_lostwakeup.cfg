SPECIFICATION ScriptedSpec
CONSTANTS
    c1 = c1
    c2 = c2
    c3 = c3
    x = x
    y = y
    Clients = {c1, c2, c3}
    Slots = {x, y}
    Ops = {"Init", "Flush"}
    QueueLimit = 1
    MaxCalls = 2
    MaxTableOps = 1
PROPERTY CallsReturn
CHECK_DEADLOCK FALSE
