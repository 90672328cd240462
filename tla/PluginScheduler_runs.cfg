SPECIFICATION Spec
CONSTANTS
    Instances = {a, b}
    None = None
    Interval = 2
    SlotTTL = 3
    Timeout = 1
    Slack = 2
    RetryDelay = 1
    MaxRetries = 1
    MaxSkew = 1
    MaxLag = 1
    MaxDelay = 1
    MaxFaults = 1
    MaxTime = 5
CHECK_DEADLOCK FALSE
SYMMETRY InstanceSymmetry
INVARIANTS
    TypeOK
    SlotRunsOnce
    RunsDoNotOverlap
