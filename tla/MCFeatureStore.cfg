SPECIFICATION MCSpec
CONSTANTS
    LastDay = 3
    Lag <- SomeLags
    Reach = 1
    Overlap = 1
    Lookback = 2
    FirstFeatures = {"level", "change", "slope", "slope_change", "pe"}
    Null = Null
    Bad = Bad
    Revised = {2, Null, Bad}
    MaxRevisions = 1
    MaxFailures = 1
INVARIANTS
    NoLookAhead
CHECK_DEADLOCK FALSE
PROPERTIES
    WindowCatchesUp
