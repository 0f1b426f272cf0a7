\* Two threads in the list; no save is refused.
CONSTANTS
    GrantId <- Handles
    Client = {}
    NoGrant = NoGrant
    Thread = {t1, t2}
    Place = {p1}
    Nowhere = Nowhere
    MaxEntries = 1
    MaxKey = 2
    MaxRuns = 2
    SavesFail = FALSE
SPECIFICATION RecentsSpec
INVARIANT
    WithdrawnGone
CHECK_DEADLOCK FALSE
