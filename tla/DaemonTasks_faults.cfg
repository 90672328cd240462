SPECIFICATION Spec
CONSTANTS
    Tasks = {t1}
    InstallTasks = {t1}
    DeleteTasks = {}
    None = None
    MaxConns = 2
    MaxFaults = 1
    MaxChunks = 0
CHECK_DEADLOCK FALSE
INVARIANTS
    TypeOK
    SuccessIsReported
    FailureIsExplained
    ForgottenOnlyByLateFlush
