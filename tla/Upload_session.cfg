SPECIFICATION Spec
CONSTANTS
    TotalChunks = 1
    Writers = {w1, w2}
    Completes = {c1, c2}
    Removals = {r}
    Stores = {"object", "local"}
    MaxFaults = 1
    None = None
SYMMETRY UploadSymmetry
INVARIANTS
    DeliveredIsAnnounced
    AcceptedChunkIsKept
    NoOrphans
CHECK_DEADLOCK FALSE
