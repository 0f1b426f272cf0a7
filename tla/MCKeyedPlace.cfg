SPECIFICATION ColSpec
CONSTANTS
    a = a
    b = b
    c = c
    None = None
    Keys <- MCKeys
    Modal <- MCModal
    MaxNode = 4
    MaxRevision = 3
    MaxOps = 0
    MaxEdits = 2
INVARIANT RowUpdatesApply
SYMMETRY MCSymmetry
CHECK_DEADLOCK FALSE
