\* Two handles; one thread, two places and two entries for the list, three
\* threads and one terminal.
CONSTANTS
    GrantId <- Handles
    Client = {c1, c2, c3}
    NoGrant = NoGrant
    Thread = {t1}
    Place = {p1, p2}
    Nowhere = Nowhere
    MaxEntries = 2
    MaxKey = 3
    MaxRuns = 2
    SavesFail = FALSE
    Caller = {c1, c2, c3}
    NoCaller = NoCaller
    MaxActive = 1
    MaxRead = 2
    MaxOutput = 2
    OutBuffer = 1
    InBuffer = 1
SPECIFICATION GrantUsersSpec
INVARIANTS
    RevocationReaches
    ListSound
    OutputKept
PROPERTIES
    CancelWakes
CHECK_DEADLOCK FALSE
