CONSTANTS
    PageCount = 4
    Moments <- TwoHours
SPECIFICATION LiveSpec
CHECK_DEADLOCK FALSE
INVARIANTS
    WindowIsPublished
    AnswerIsComplete
PROPERTIES
    QueryEnds
