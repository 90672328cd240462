SPECIFICATION Spec
CONSTANTS
    r1 = r1
    r2 = r2
    Requests = {r1, r2}
    Ops <- MCOps
    MaxInbox = 1
    MaxFaults = 1
CHECK_DEADLOCK FALSE
INVARIANTS
    OneTaskOfAKind
    RollbackNeedsOverlap
    FilesComeBack
    NoTaskLeftBehind
    AutostartAgrees
