SPECIFICATION UndoSpec
CONSTANTS
    a = a
    b = b
    c = c
    None = None
    Keys <- MCKeys
    Modal <- MCModal
    MaxNode = 3
    MaxRevision = 3
    MaxOps = 0
    MaxEdits = 3
INVARIANT SameRows
SYMMETRY MCSymmetry
CHECK_DEADLOCK FALSE
