CONSTANTS
    None = None
    Snapshots <- MCSnapshots
    Policies <- MCPolicies
    Reconstitutions <- MCReconstitutions
    Batches <- MCBatches
    Today = 3
    MaxCalls = 4
    Null = Null
    Known = {"s"}
    Feeds <- MCFeeds
    Versions = {"v1", "v2"}
    AsOfs = {2}
    Horizon = 3
    MaxRuns = 2
    Pairs = 2
    Grids = {{1, 2}, {2}}
    Models = 2
    Plans = {"p1", "p2"}
    NoPlan = NoPlan
    MaxKills = 2
    MaxEdits = 1
    Absent = Absent
    Lengths = {1, 4}
    MinHistory = 4
    MinEvents = 2
    PriorSessions = 2
    MinAnalogues = 2
    MaxAnalogues = 3
    MarketCount = 4
    SectorCount = 3
    Gap = 2
    FocusLength = 1
    MinMatches = 3
    MinEpisodes = 2
    MinYears = 2
    YearLength = 6
    MinEffective = 2
    Tapes <- MCTapes
    Targets <- MCTargets
    FirstDay = 9
    FinalDay = 13
    ScoringDates = {9, 12}
    Missing = Missing
    ModelOrder <- MCModels
    Shadow <- MCShadow
    Overlapping <- MCOverlapping
    Evidences <- MCEvidences
    Positions <- MCPositions
    TypesInPlay = {"prices", "portfolio_import", "update", "securities", "universe", "bridge", "research_prices"}
SPECIFICATION Spec
CHECK_DEADLOCK FALSE
INVARIANT HarnessTellsTheSame
