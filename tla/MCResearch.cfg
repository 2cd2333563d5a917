CONSTANTS
    None = None
    Snapshots <- MCSnapshots
    Policies <- MCPolicies
    Reconstitutions <- MCReconstitutions
    Batches <- MCBatches
    Today = 3
    MaxCalls = 4
    Null = Null
    Known = {"s", "d"}
    Feeds <- MCFeeds
    Versions = {"v1", "v2"}
    AsOfs = {1, 2}
    Horizon = 3
    MaxRuns = 5
    Pairs = 3
    Grids = {{1, 2, 3}, {2, 3}}
    Models = 2
    Plans = {"p1", "p2"}
    NoPlan = NoPlan
    MaxKills = 3
    MaxEdits = 2
    Absent = Absent
    Lengths = {1, 4}
    MinHistory = 4
    MinEvents = 2
    PriorSessions = 2
    MinAnalogues = 2
    MaxAnalogues = 3
    MarketCount = 4
    SectorCount = 3
    Gap = 2
    FocusLength = 1
    MinMatches = 3
    MinEpisodes = 2
    MinYears = 2
    YearLength = 6
    MinEffective = 2
    Tapes <- MCTapes
    Targets <- MCTargets
    FirstDay = 9
    FinalDay = 13
    ScoringDates = {9, 12}
    Missing = Missing
    ModelOrder <- MCModels
    Shadow <- MCShadow
    Overlapping <- MCOverlapping
    Evidences <- MCEvidences
    Positions <- MCPositions
    TypesInPlay = {"prices", "portfolio_import", "update", "securities", "universe", "bridge", "research_prices"}
SPECIFICATION Spec
INVARIANTS IdentityNeverMerged BridgeIsUnambiguous SnapshotsVerify DailyReturnsCompound SkippedPairsAreWhole 
    ReplayTellsTheSame EmbargoHolds AttributionIsExact LabelIsEarned ShadowsStayOut
    MigrationsNeverFail SchemaDependsOnRevisionOnly HeadServesTheCode
PROPERTIES MigrationsKeepTheRest
CHECK_DEADLOCK FALSE
