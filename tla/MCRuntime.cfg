\* One worker, so that a blocked wait also holds up the queue behind it; an
\* application with five boundaries; trees of five nodes.
CONSTANTS
    Task = {t1, t2}
    NoTask = NoTask
    Worker = {w1}
    Root = Root
    Owner = {Root}
    Key = {k}
    NoKey = NoKey
    MaxEpoch = 2
    app = app
    page = page
    feed = feed
    row = row
    note = note
    Site = {app, page, feed, row, note}
    Top = app
    Parent <- SiteParent
    Transparent = {feed}
    Memoised = {page, row}
    Unkeyed = {note}
    Optional = {feed, row}
    Values <- SiteValues
    Number = {1, 2, 3}
    MaxRevision = 3
    OpenRoute = OpenRoute
    Unknown = Unknown
    Nothing = Nothing
    Copies = {1, 2}
    MaxNodes = 5
    Fragments <- Rendered
    Sizes = {1}
    Drivers = {"window", "runner"}
SPECIFICATION RuntimeSpec
INVARIANTS
    ScreenCurrent
    SidesAgree
    FactsAgree
    DialogShields
PROPERTIES
    StoppedWaitUnblocks
    PublishedSettles
    RetirementCompletes
    CarriedByIdentity
    OnlyNewSerialAsks
CHECK_DEADLOCK FALSE
