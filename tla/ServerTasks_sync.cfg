SPECIFICATION Spec
CONSTANTS
    Puts = {p1, p2}
    Pausing = {p2}
    Deletes = {d}
    Post = c
    MaxSnaps = 2
    None = None
CHECK_DEADLOCK FALSE
INVARIANTS
    DaemonIsCurrent
PROPERTIES
    VersionsGrow
    DeletedStaysDeleted
