SPECIFICATION Spec
CONSTANTS
    Handles = {h1, h2, h3}
    None = None
    TTL = 4
    Resolution = 3
    MaxSkew = 1
    Margin = 2
    MaxTime = 7
CHECK_DEADLOCK FALSE
SYMMETRY HandleSymmetry
INVARIANTS
    TypeOK
    MutualExclusion
PROPERTY ImplementsLease
