SPECIFICATION FairSpec
CONSTANTS
    Horizon = 6
    MaxSplits = 2
    MaxDividends = 1
    MaxCorrections = 0
    Spoilable = {}
    Overlap = 3
    MinRows = 3
    SplitsJump = TRUE
INVARIANTS
    RecordedSplitsAreApplied
    NoHoles
PROPERTIES
    Converges
CHECK_DEADLOCK FALSE
