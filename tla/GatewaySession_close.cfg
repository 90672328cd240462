SPECIFICATION FairSpec
CONSTANTS
    Requests = {r1, r2}
    Pushes = {m1, m2}
    Nobody = Nobody
    Worker = Worker
    QueueSize = 1
CHECK_DEADLOCK FALSE
INVARIANTS
    ClosedOnce
    OnlyLateRequestsHang
PROPERTIES
    
    QueuedIsSent
