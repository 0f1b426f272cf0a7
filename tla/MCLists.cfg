\* Three keys, two with a dialog, in a keyed column; two threads in the list of
\* recent places, and files that may be refused.
CONSTANTS
    a = a
    b = b
    c = c
    None = None
    Keys <- MCKeys
    Modal <- MCModal
    MaxNode = 5
    MaxRevision = 2
    MaxOps = 3
    GrantId <- Handles
    Client = {}
    NoGrant = NoGrant
    Thread = {t1, t2}
    Place = {p1}
    Nowhere = Nowhere
    MaxEntries = 1
    MaxKey = 1
    MaxRuns = 2
    SavesFail = TRUE
SPECIFICATION ListsSpec
INVARIANTS
    OneList
    GraphAgrees
    WithdrawnForgotten
    StoredCurrent
PROPERTIES
    NoResurrection
    ImplementsList
    CrashKeepsList
SYMMETRY Threads
ACTION_CONSTRAINT Bounds
CHECK_DEADLOCK FALSE
