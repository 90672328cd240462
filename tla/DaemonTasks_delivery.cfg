SPECIFICATION FairSpec
CONSTANTS
    Tasks = {t1}
    InstallTasks = {}
    DeleteTasks = {t1}
    None = None
    MaxConns = 2
    MaxFaults = 0
    MaxChunks = 1
CHECK_DEADLOCK FALSE
PROPERTIES
    OutputGrows
    EveryTaskIsDelivered
