CONSTANTS
    FileCount = 2
    MaxConcurrency = 2
SPECIFICATION Spec
CHECK_DEADLOCK FALSE
INVARIANTS
    FailedFileIsIsolated
