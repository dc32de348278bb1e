CONSTANTS
    MaxBody = 3
    ErrorLimit = 2
    MaxChunk = 2
    MaxChunks = 3
    MaxCalls = 2
    MaxAlarms = 2
SPECIFICATION AuditedSpec
CHECK_DEADLOCK FALSE
INVARIANTS
    EntryTellsTheResponse
    RecordedBodyIsWhole
    EntryCountsTheAnswers
    ReplyFitsTheCalls
    FailureIsToldByTheEntry
    ActivityIsSuccess
