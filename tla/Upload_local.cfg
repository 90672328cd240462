SPECIFICATION Spec
CONSTANTS
    TotalChunks = 1
    Writers = {w1}
    Completes = {c1}
    Removals = {r}
    Stores = {"object", "local"}
    MaxFaults = 1
    None = None
PROPERTIES
    ExpiredIsRemoved
CHECK_DEADLOCK FALSE
