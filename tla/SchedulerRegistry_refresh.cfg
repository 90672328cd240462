SPECIFICATION FairSpec
CONSTANTS
    Panels = {a, b}
    Names = {x, y}
    Defs = {d, e}
    NoTask = NoTask
    Limit = 2
    MaxOps = 2
    MaxLosses = 1
CHECK_DEADLOCK FALSE
INVARIANT StaleOnlySinceRead
PROPERTY Converges
