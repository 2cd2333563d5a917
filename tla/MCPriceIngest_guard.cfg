SPECIFICATION Spec
CONSTANTS
    Horizon = 7
    MaxSplits = 1
    MaxDividends = 1
    MaxCorrections = 1
    Spoilable = {3}
    Overlap = 5
    MinRows = 3
    SplitsJump = FALSE
INVARIANTS
    TypeOK
    OneBasis
CHECK_DEADLOCK FALSE
