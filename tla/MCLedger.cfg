SPECIFICATION MCSpec
CONSTANTS
    Instruments = {"x"}
    None = None
    Files <- SomeFiles
    TradingDays = {1, 2}
    Importers = {p1, p2}
    Rebuilders = {r1, r2}
    LongTerm = 1
    Teams = {{p1, p2, r1}, {p1, r1, r2}}
    MaxId = 4
    MaxCrashes = 1
INVARIANTS
    ImportOnce
    BuildsConserveShares
    FirstInFirstOut
    SnapshotsArePointInTime
PROPERTIES
    ProjectionsCatchUp
