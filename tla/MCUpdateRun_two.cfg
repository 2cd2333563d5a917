SPECIFICATION Spec
CONSTANTS
    None = None
    Updates = {u1, u2}
    Command = command
    Commanded = {"features"}
    Portfolios = {main}
    Dates = {d1, d2}
    Windows <- SomeWindows
    SkipSets <- SomeSkips
    Faulty = {"prices", "assess", "archive"}
    RetryLimit = 1
SYMMETRY Symmetry
INVARIANTS
    TypeOK
    AuditIsTruthful
    BundleIsReady
    SuccessLeavesNothingOut
    MutualExclusion
    NoStaleLock
    OnlyCommandsOutdateBundle
PROPERTIES
    RowKeepsItsIdentity
    RefinesExclusiveUpdate
CHECK_DEADLOCK FALSE
