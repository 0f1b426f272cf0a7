SPECIFICATION ColSpec
CONSTANTS
    a = a
    b = b
    c = c
    None = None
    Keys <- MCKeys
    Modal <- MCModal
    MaxNode = 6
    MaxRevision = 3
    MaxOps = 0
    MaxEdits = 3
INVARIANT UnchangedApplies
SYMMETRY MCSymmetry
CHECK_DEADLOCK FALSE
