\* One watch, one task waiting at it, a queue of one event.
CONSTANTS
    GrantId <- OneWatch
    Client = {1}
    NoGrant = NoGrant
    WatchNo = {1}
    Waiter = {t1}
    Dir <- Directory
    TargetOf <- OneTarget
    Changes <- BothChanges
    MaxNames = 1
    MaxWatches = 1
    Settle = 1
    SettleLimit = 1
    MaxQueue = 1
    MaxWd = 1
    Renames = FALSE
SPECIFICATION WatchSpec
INVARIANTS
    NothingMissed
    WithdrawnAtOnce
    WaitsAgree
PROPERTIES
    ChangeReported
    WatchEnds
CHECK_DEADLOCK FALSE
