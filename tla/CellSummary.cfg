CONSTANTS
    n1 = n1
    n2 = n2
    Names <- TwoNames
    Cells = {1, 2}
    Requests <- SmallRequests
    CellNames <- SmallCellNames
SPECIFICATION Spec
CHECK_DEADLOCK FALSE
INVARIANTS
    AttributesAreOfTheCell
    EveryElementIsAccountedFor
    SummaryCrashIsExplained
    PatternIsTheirPrefix
