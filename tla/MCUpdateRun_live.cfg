SPECIFICATION FairSpec
CONSTANTS
    None = None
    Updates = {u1, u2}
    Command = command
    Commanded = {"prices"}
    Portfolios = {main}
    Dates = {d1}
    Windows <- FullWindow
    SkipSets <- NoSkips
    Faulty = {"prices", "features"}
    RetryLimit = 1
PROPERTIES
    Terminates
CHECK_DEADLOCK FALSE
