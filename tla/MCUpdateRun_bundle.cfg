SPECIFICATION Spec
CONSTANTS
    None = None
    Updates = {u1, u2, u3}
    Command = command
    Commanded = {}
    Portfolios = {main}
    Dates = {d1}
    Windows <- FullWindow
    SkipSets <- NoSkips
    Faulty = {"archive"}
    RetryLimit = 0
INVARIANTS
    ReportsMatchArchive
CHECK_DEADLOCK FALSE
