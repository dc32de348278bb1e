CONSTANTS
    FileCount = 3
    MaxConcurrency = 1
SPECIFICATION LiveSpec
CHECK_DEADLOCK FALSE
INVARIANTS
    PermitsAddUp
    OkMeansFinished
    KnownTasksAreCleanedUp
PROPERTIES
    BatchSpec
    RequestAndChildrenEnd
