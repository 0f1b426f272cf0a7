SPECIFICATION ColSpec
CONSTANTS
    a = a
    b = b
    c = c
    None = None
    Keys <- MCKeys
    Modal <- MCModal
    MaxNode = 5
    MaxRevision = 3
    MaxOps = 0
    MaxEdits = 3
INVARIANTS SameRows FailuresExplained
PROPERTIES SurvivorsKept
SYMMETRY MCSymmetry
CHECK_DEADLOCK FALSE
