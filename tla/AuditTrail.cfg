CONSTANTS
    Capacity = 2
    MaxEntries = 5
SPECIFICATION CloseSpec
INVARIANTS
    NoSilentLoss
    PendingOnce
PROPERTIES
    FlushedMeansSettled
    CloseEnds
    RecordsSettle
