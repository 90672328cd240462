SPECIFICATION Spec
CONSTANTS
    Instances = {a, b, c}
    None = None
    MaxSessions = 2
    MaxFaults = 2
CHECK_DEADLOCK FALSE
SYMMETRY InstanceSymmetry
INVARIANTS
    LiveIsRegistered
    RegisteredIsLive
    ObservedOnce
    SeenUnlessOverlap
    GoneUnlessReplaced
