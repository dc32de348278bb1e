CONSTANTS
    Names = {n1, n2, n3}
    MaxNames = 3
    Keys = {"k1", "k2"}
    Values = {"v1", "v2"}
SPECIFICATION Spec
SYMMETRY Symmetry
CHECK_DEADLOCK FALSE
INVARIANTS
    OneReportSparesTheRest
