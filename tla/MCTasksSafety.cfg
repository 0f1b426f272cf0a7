\* Two workers, two sessions, two tasks, one component besides the root.
CONSTANTS
    Task = {t1, t2}
    NoTask = NoTask
    Worker = {w1, w2}
    Root = Root
    Owner = {Root, a}
    Key = {k}
    NoKey = NoKey
    MaxEpoch = 2
SPECIFICATION Spec
SYMMETRY Symmetry
INVARIANTS
    OnePerKey
    NoOrphan
    EndedHoldsNothing
    PublishedHolds
    OutstandingExact
    NoStaleCompletion
PROPERTIES
    DeliveredToMounted
    ImplementsLifecycle
