SPECIFICATION Spec
CONSTANTS
    None = None
    Updates = {u1, u2}
    Command = command
    Commanded = {}
    Portfolios = {main}
    Dates = {d1}
    Windows <- FullWindow
    SkipSets <- NoSkips
    Faulty = {}
    RetryLimit = 0
PROPERTIES
    NoRepeatedUpdate
CHECK_DEADLOCK FALSE
