------------------------------- MODULE Schema -------------------------------
(***************************************************************************)
(* The database schema: the Alembic revisions (alembic/versions/), the ORM *)
(* classes that use their result (domain/models.py), and the rows of       *)
(* ingestion runs that services leave behind.                              *)
(*                                                                         *)
(* A revision is a list of statements run in one transaction: if one       *)
(* fails, nothing of it stays.  Tables are their names, the tables they    *)
(* refer to and their natural key, the conflict target of the upserts;     *)
(* other columns, indexes and check constraints are left out, except the   *)
(* check on run types, which rows written later can violate.               *)
(***************************************************************************)
EXTENDS Naturals, Sequences, SequencesExt

CONSTANT TypesInPlay    \* bound: the run types that services record

VARIABLES
    revision,   \* how many revisions are applied
    database    \* the tables, the run types allowed, the runs and rows there are

schemaVars == << revision, database >>

\* A table, and the statements of a revision.
Table(name, refs, key) == [ name |-> name, refs |-> refs, key |-> key ]
Create(name, refs, key) == [ op |-> "create", table |-> Table(name, refs, key) ]
Drop(name) == [ op |-> "drop", name |-> name ]
Refer(name, target) == [ op |-> "refer", name |-> name, target |-> target ]
Unrefer(name, target) == [ op |-> "unrefer", name |-> name, target |-> target ]
Check(types) == [ op |-> "check", types |-> types ]
ForgetIssues(types) == [ op |-> "forget_issues", types |-> types ]
ForgetRuns(types) == [ op |-> "forget_runs", types |-> types ]

Drops(names) == [ k \in DOMAIN names |-> Drop(names[k]) ]

-----------------------------------------------------------------------------
(* The revisions.                                                          *)

Baseline == [ up |-> << >>, down |-> << >> ]

ReferenceTables ==
    << Create("sectors", {}, {"name"}),
       Create("trading_calendar", {}, {"exchange", "calendar_date"}),
       Create("industries", {"sectors"}, {"sector_id", "name"}),
       Create("instruments", {"industries", "sectors"}, {"symbol"}),
       Create("symbol_history", {"instruments"}, {"instrument_id", "valid_from"}) >>

ReferenceLayer ==
    [ up |-> ReferenceTables \o << Refer("sectors", "instruments") >>,
      down |-> << Unrefer("sectors", "instruments") >> \o
        Drops(<< "symbol_history", "instruments", "industries", "trading_calendar", "sectors" >>) ]

FirstTypes == {"prices", "macro", "fundamentals", "earnings", "features", "snapshots"}

IngestionTables ==
    << Create("data_quality_issues", {"ingestion_runs"}, {}),
       Create("data_revisions", {"ingestion_runs"}, {}),
       Create("corporate_actions", {"ingestion_runs", "instruments"}, {"instrument_id", "action_type", "ex_date"}),
       Create("daily_prices", {"ingestion_runs", "instruments"}, {"instrument_id", "price_date"}) >>

IngestionLayer ==
    [ up |-> << Create("ingestion_runs", {}, {}), Check(FirstTypes) >> \o IngestionTables,
      down |-> Drops(<< "daily_prices", "corporate_actions", "data_revisions", "data_quality_issues",
                        "ingestion_runs" >>) \o << Check({}) >> ]

MacroLayer ==
    [ up |-> <<
        Create("macro_series", {}, {"provider", "provider_code"}),
        Create("macro_observations", {"ingestion_runs", "macro_series"}, {"series_id", "obs_date"}) >>,
      down |-> Drops(<< "macro_observations", "macro_series" >>) ]

FundamentalsLayer ==
    [ up |-> <<
        Create("company_fundamentals", {"ingestion_runs", "instruments"}, {"instrument_id", "as_of_date"}),
        Create("earnings_observations", {"ingestion_runs", "instruments"}, {"instrument_id", "earnings_date", "observed_at"}),
        Create("v_earnings_current", {"earnings_observations"}, {}) >>,
      down |-> Drops(<< "v_earnings_current", "earnings_observations", "company_fundamentals" >>) ]

FeatureLayer ==
    [ up |-> <<
        Create("feature_definitions", {}, {"name", "version"}),
        Create("feature_store_daily", {"instruments", "feature_definitions"}, {"instrument_id", "feature_date", "feature_id"}),
        Create("feature_store_market_daily", {"feature_definitions"}, {"feature_date", "feature_id"}) >>,
      down |-> Drops(<< "feature_store_market_daily", "feature_store_daily", "feature_definitions" >>) ]

\* Broken variant of ExternalId: no key.
ExternalIdForgotten == {}

ExternalId == {"portfolio_id", "external_id"}

PortfolioTables ==
    << Create("portfolios", {}, {"name"}),
       Create("transactions", {"portfolios", "instruments", "ingestion_runs"}, ExternalId),
       Create("lots", {"portfolios", "instruments", "transactions"}, {}),
       Create("lot_closures", {"lots", "transactions"}, {}),
       Create("position_snapshots", {"portfolios", "instruments"}, {"portfolio_id", "instrument_id", "snapshot_date"}) >>

PortfolioLayer ==
    [ up |-> << Check(FirstTypes \union {"portfolio_import"}) >> \o PortfolioTables,
      down |-> Drops(<< "position_snapshots", "lot_closures", "lots", "transactions", "portfolios" >>) \o
        << ForgetRuns({"portfolio_import"}), Check(FirstTypes) >> ]

ArchiveLayer ==
    [ up |-> <<
        Create("predictions", {"instruments"}, {"instrument_id", "portfolio_key", "as_of", "horizon", "trim_engine_version"}),
        Create("prediction_outcomes", {"predictions"}, {}) >>,
      down |-> Drops(<< "prediction_outcomes", "predictions" >>) ]

TypesWithUpdate == FirstTypes \union {"portfolio_import", "update"}

\* Broken variant of UpdateRunType: its downgrade leaves the check as it is.
UpdateRunTypeOneWay ==
    [ up |-> << Check(TypesWithUpdate) >>, down |-> << ForgetRuns({"update"}) >> ]

UpdateRunType ==
    [ up |-> << Check(TypesWithUpdate) >>,
      down |-> << ForgetRuns({"update"}), Check(TypesWithUpdate \ {"update"}) >> ]

SecurityTypes == {"securities", "universe"}

SecurityTables ==
    << Create("universe_definition", {}, {"name", "version"}),
       Create("security_master", {"ingestion_runs"}, {"source", "source_security_id"}),
       Create("delisting_event", {"ingestion_runs", "security_master"}, {}),
       Create("historical_classification", {"ingestion_runs", "security_master"}, {"security_id", "classification_scheme", "valid_from"}) >>

MembershipTables ==
    << Create("security_identifier_history", {"ingestion_runs", "security_master"}, {"security_id", "identifier_type", "valid_from"}),
       Create("security_lifecycle_event", {"ingestion_runs", "security_master"}, {"security_id", "event_type", "effective_date"}),
       Create("universe_membership", {"ingestion_runs", "security_master", "universe_definition"},
              {"universe_definition_id", "security_id", "membership_date"}) >>

SecurityDrops ==
    Drops(<< "universe_membership", "security_lifecycle_event", "security_identifier_history",
             "historical_classification", "delisting_event", "security_master", "universe_definition" >>)

\* Broken variant of SecurityDowngrade: the quarantine ledger is forgotten.
SecurityDowngradeKeepingIssues ==
    SecurityDrops \o << ForgetRuns(SecurityTypes), Check(TypesWithUpdate) >>

SecurityDowngrade ==
    SecurityDrops \o << ForgetIssues(SecurityTypes), ForgetRuns(SecurityTypes), Check(TypesWithUpdate) >>

SecurityLayer ==
    [ up |-> SecurityTables \o MembershipTables \o << Check(TypesWithUpdate \union SecurityTypes) >>,
      down |-> SecurityDowngrade ]

ResearchTypes == {"bridge", "research_prices", "research_outcomes", "research_snapshot", "experiment"}

MarketTables ==
    << Create("instrument_security_map", {"ingestion_runs", "instruments", "security_master"}, {}),
       Create("security_price_daily", {"ingestion_runs", "security_master"}, {"security_id", "trade_date", "source", "data_version"}) >>

ReturnTables ==
    << Create("security_market_snapshot", {"ingestion_runs", "security_master"}, {"security_id", "snapshot_date", "source", "data_version"}),
       Create("benchmark_return_daily", {"ingestion_runs"}, {"benchmark_key", "trade_date", "source", "data_version"}),
       Create("security_return_daily", {"ingestion_runs", "security_master"},
              {"security_id", "trade_date", "source", "data_version", "calculation_version"}) >>

OutcomeTables ==
    << Create("terminal_outcome", {"ingestion_runs", "security_master"}, {}),
       Create("research_dataset_snapshot", {"universe_definition"}, {"snapshot_name", "snapshot_version"}) >>

ExperimentTables ==
    << Create("forward_return", {"ingestion_runs", "security_master"}, {"security_id", "as_of_date", "horizon", "snapshot_checksum"}),
       Create("experiment_run", {"research_dataset_snapshot"}, {"experiment_id", "run_number"}),
       Create("experiment_run_metric", {"experiment_run"}, {}) >>

RecordTables ==
    << Create("experiment_run_decision", {"experiment_run"}, {}),
       Create("feature_parity_record", {}, {}),
       Create("data_divergence_record", {"security_master"}, {}) >>

ResearchDrops ==
    Drops(<< "experiment_run_decision", "experiment_run_metric", "experiment_run", "data_divergence_record",
             "feature_parity_record", "forward_return", "research_dataset_snapshot", "terminal_outcome",
             "security_return_daily", "benchmark_return_daily", "security_market_snapshot",
             "security_price_daily", "instrument_security_map" >>)

\* Broken variant of ResearchDowngrade: takes the quarantine of every run along.
ResearchDowngradeForgettingAll ==
    ResearchDrops \o << ForgetIssues(TypesInPlay), ForgetRuns(ResearchTypes), Check(TypesWithUpdate \union SecurityTypes) >>

ResearchDowngrade ==
    ResearchDrops \o << ForgetIssues(ResearchTypes), ForgetRuns(ResearchTypes), Check(TypesWithUpdate \union SecurityTypes) >>

ResearchLayer ==
    [ up |-> MarketTables \o ReturnTables \o OutcomeTables \o ExperimentTables \o RecordTables
             \o << Check(TypesWithUpdate \union SecurityTypes \union ResearchTypes) >>,
      down |-> ResearchDowngrade ]

\* The revisions, oldest first.
Chain == << Baseline, ReferenceLayer, IngestionLayer, MacroLayer, FundamentalsLayer, FeatureLayer,
            PortfolioLayer, ArchiveLayer, UpdateRunType, SecurityLayer, ResearchLayer >>

Newest == Len(Chain)

-----------------------------------------------------------------------------
(* Running a revision.                                                     *)

Names(tables) == { t.name : t \in tables }

NoDatabase == [ tables |-> {}, types |-> {}, runs |-> {}, rows |-> {}, ok |-> TRUE ]

WithRefs(d, name, refs) ==
    { IF t.name = name THEN [ t EXCEPT !.refs = refs ] ELSE t : t \in d.tables }
RefsOf(d, name) == UNION { t.refs : t \in { u \in d.tables : u.name = name } }

\* Whether a statement can run: its tables are there, nothing refers to what it
\* drops or deletes, no row violates the check it adds.
Possible(d, s) ==
    CASE s.op = "create" -> s.table.name \notin Names(d.tables) /\ s.table.refs \subseteq Names(d.tables)
      [] s.op = "drop" ->
           /\ s.name \in Names(d.tables)
           /\ \A t \in d.tables : s.name \in t.refs => t.name = s.name
      [] s.op = "refer" -> {s.name, s.target} \subseteq Names(d.tables)
      [] s.op = "unrefer" -> s.target \in RefsOf(d, s.name)
      [] s.op = "check" -> d.runs \subseteq s.types
      [] s.op = "forget_issues" -> "data_quality_issues" \in Names(d.tables)
      [] s.op = "forget_runs" -> \A row \in d.rows : row[2] \notin s.types

\* The database without a table.
Dropped(d, name) ==
    [ d EXCEPT !.tables = { t \in @ : t.name # name },
               !.rows = { row \in @ : row[1] # name },
               !.runs = IF name = "ingestion_runs" THEN {} ELSE @ ]

Effect(d, s) ==
    CASE s.op = "create" -> [ d EXCEPT !.tables = @ \union {s.table} ]
      [] s.op = "drop" -> Dropped(d, s.name)
      [] s.op = "refer" -> [ d EXCEPT !.tables = WithRefs(d, s.name, RefsOf(d, s.name) \union {s.target}) ]
      [] s.op = "unrefer" -> [ d EXCEPT !.tables = WithRefs(d, s.name, RefsOf(d, s.name) \ {s.target}) ]
      [] s.op = "check" -> [ d EXCEPT !.types = s.types ]
      [] s.op = "forget_issues" ->
           [ d EXCEPT !.rows = { row \in @ : ~(row[1] = "data_quality_issues" /\ row[2] \in s.types) } ]
      [] s.op = "forget_runs" -> [ d EXCEPT !.runs = @ \ s.types ]

\* The database after a statement, and after several; not ok from the first that fails.
Run(d, s) == IF d.ok /\ Possible(d, s) THEN Effect(d, s) ELSE [ d EXCEPT !.ok = FALSE ]

Execute(d, statements) == FoldLeft(Run, d, statements)

\* What the n first revisions make of nothing.
Fresh[n \in 0 .. Newest] == IF n = 0 THEN NoDatabase ELSE Execute(Fresh[n - 1], Chain[n].up)

SchemaInit == revision = 0 /\ database = NoDatabase

Migrate(target, statements) ==
    LET result == Execute(database, statements)
    IN  result.ok /\ database' = result /\ revision' = target

Upgrade == revision < Newest /\ Migrate(revision + 1, Chain[revision + 1].up)
Downgrade == revision > 0 /\ Migrate(revision - 1, Chain[revision].down)

-----------------------------------------------------------------------------
(* What the code at this commit stores, which needs the newest revision.   *)

\* The tables whose rows name the run that wrote them.
Writes(type) ==
    CASE type = "prices" -> {"daily_prices", "corporate_actions", "data_revisions"}
      [] type = "macro" -> {"macro_observations", "data_revisions"}
      [] type = "fundamentals" -> {"company_fundamentals", "data_revisions"}
      [] type = "earnings" -> {"earnings_observations"}
      [] type = "portfolio_import" -> {"transactions"}
      [] type = "securities" -> {"security_master", "security_identifier_history", "security_lifecycle_event",
                                "delisting_event", "historical_classification"}
      [] type = "universe" -> {"universe_membership"}
      [] type = "bridge" -> {"instrument_security_map"}
      [] type = "research_prices" -> {"security_price_daily", "security_market_snapshot", "benchmark_return_daily",
                                     "terminal_outcome"}
      [] type = "research_outcomes" -> {"security_return_daily"}
      [] type = "research_snapshot" -> {"forward_return"}
      [] OTHER -> {}

\* The runs that keep a quarantine ledger.
Quarantines == {"prices", "macro", "fundamentals", "earnings", "securities", "bridge", "research_prices"}

\* A service records a run and its rows; it may quarantine some.
Record(type, quarantines) ==
    /\ revision = Newest
    /\ type \in database.types
    /\ quarantines => type \in Quarantines
    /\ database' = [ database EXCEPT
          !.runs = @ \union {type},
          !.rows = @ \union { << name, type >> : name \in
                     Writes(type) \union (IF quarantines THEN {"data_quality_issues"} ELSE {}) } ]
    /\ UNCHANGED revision

SchemaNext ==
    \/ Upgrade
    \/ Downgrade
    \/ \E type \in TypesInPlay, quarantines \in BOOLEAN : Record(type, quarantines)


-----------------------------------------------------------------------------
(* The ORM classes.                                                        *)

ReferenceModels ==
    { Table("sectors", {"instruments"}, {"name"}), Table("industries", {"sectors"}, {"sector_id", "name"}),
      Table("instruments", {"industries", "sectors"}, {"symbol"}),
      Table("symbol_history", {"instruments"}, {"instrument_id", "valid_from"}),
      Table("trading_calendar", {}, {"exchange", "calendar_date"}), Table("ingestion_runs", {}, {}),
      Table("daily_prices", {"ingestion_runs", "instruments"}, {"instrument_id", "price_date"}),
      Table("corporate_actions", {"ingestion_runs", "instruments"}, {"instrument_id", "action_type", "ex_date"}) }

IngestionModels ==
    { Table("macro_series", {}, {"provider", "provider_code"}),
      Table("macro_observations", {"ingestion_runs", "macro_series"}, {"series_id", "obs_date"}),
      Table("company_fundamentals", {"ingestion_runs", "instruments"}, {"instrument_id", "as_of_date"}),
      Table("earnings_observations", {"ingestion_runs", "instruments"}, {"instrument_id", "earnings_date", "observed_at"}),
      Table("data_quality_issues", {"ingestion_runs"}, {}), Table("data_revisions", {"ingestion_runs"}, {}) }

FeatureModels ==
    { Table("feature_definitions", {}, {"name", "version"}),
      Table("feature_store_daily", {"feature_definitions", "instruments"}, {"instrument_id", "feature_date", "feature_id"}),
      Table("feature_store_market_daily", {"feature_definitions"}, {"feature_date", "feature_id"}),
      Table("portfolios", {}, {"name"}),
      Table("transactions", {"ingestion_runs", "instruments", "portfolios"}, {"portfolio_id", "external_id"}) }

PortfolioModels ==
    { Table("lots", {"instruments", "portfolios", "transactions"}, {}), Table("lot_closures", {"lots", "transactions"}, {}),
      Table("position_snapshots", {"instruments", "portfolios"}, {"portfolio_id", "instrument_id", "snapshot_date"}),
      Table("predictions", {"instruments"}, {"instrument_id", "portfolio_key", "as_of", "horizon", "trim_engine_version"}),
      Table("prediction_outcomes", {"predictions"}, {}) }

SecurityModels ==
    { Table("security_master", {"ingestion_runs"}, {"source", "source_security_id"}),
      Table("security_identifier_history", {"ingestion_runs", "security_master"}, {"security_id", "identifier_type", "valid_from"}),
      Table("security_lifecycle_event", {"ingestion_runs", "security_master"}, {"security_id", "event_type", "effective_date"}),
      Table("delisting_event", {"ingestion_runs", "security_master"}, {}) }

UniverseModels ==
    { Table("universe_definition", {}, {"name", "version"}),
      Table("universe_membership", {"ingestion_runs", "security_master", "universe_definition"},
            {"universe_definition_id", "security_id", "membership_date"}),
      Table("historical_classification", {"ingestion_runs", "security_master"}, {"security_id", "classification_scheme", "valid_from"}),
      Table("instrument_security_map", {"ingestion_runs", "instruments", "security_master"}, {}) }

MarketModels ==
    { Table("security_price_daily", {"ingestion_runs", "security_master"}, {"security_id", "trade_date", "source", "data_version"}),
      Table("security_market_snapshot", {"ingestion_runs", "security_master"}, {"security_id", "snapshot_date", "source", "data_version"}),
      Table("benchmark_return_daily", {"ingestion_runs"}, {"benchmark_key", "trade_date", "source", "data_version"}),
      Table("security_return_daily", {"ingestion_runs", "security_master"},
            {"security_id", "trade_date", "source", "data_version", "calculation_version"}) }

OutcomeModels ==
    { Table("terminal_outcome", {"ingestion_runs", "security_master"}, {}),
      Table("forward_return", {"ingestion_runs", "security_master"}, {"security_id", "as_of_date", "horizon", "snapshot_checksum"}),
      Table("research_dataset_snapshot", {"universe_definition"}, {"snapshot_name", "snapshot_version"}) }

ExperimentModels ==
    { Table("experiment_run", {"research_dataset_snapshot"}, {"experiment_id", "run_number"}),
      Table("experiment_run_metric", {"experiment_run"}, {}), Table("experiment_run_decision", {"experiment_run"}, {}),
      Table("feature_parity_record", {}, {}), Table("data_divergence_record", {"security_master"}, {}) }

OrmTables == ReferenceModels \union IngestionModels \union FeatureModels \union PortfolioModels
          \union SecurityModels \union UniverseModels \union MarketModels \union OutcomeModels
          \union ExperimentModels

RunType == FirstTypes \union {"portfolio_import", "update", "securities", "universe", "bridge",
                              "research_prices", "research_outcomes", "research_snapshot", "experiment"}

\* The conflict targets of the upserts.
Upserts ==
    { << "trading_calendar", {"exchange", "calendar_date"} >>,
      << "daily_prices", {"instrument_id", "price_date"} >>,
      << "corporate_actions", {"instrument_id", "action_type", "ex_date"} >>,
      << "macro_observations", {"series_id", "obs_date"} >>,
      << "feature_store_daily", {"instrument_id", "feature_date", "feature_id"} >>,
      << "feature_store_market_daily", {"feature_date", "feature_id"} >>,
      << "position_snapshots", {"portfolio_id", "instrument_id", "snapshot_date"} >>,
      << "predictions", {"instrument_id", "portfolio_key", "as_of", "horizon", "trim_engine_version"} >> }

-----------------------------------------------------------------------------
(* Properties.                                                             *)

\* Whatever the services stored, the next and the previous revision can be
\* reached: no statement meets a row or a table in its way
\* (versions/20260726_fba564e9cd38:375, 20260726_710af4aa92d0:719).
MigrationsNeverFail ==
    /\ revision < Newest => Execute(database, Chain[revision + 1].up).ok
    /\ revision > 0 => Execute(database, Chain[revision].down).ok

\* Going down and up again leads back to the schema of a fresh database.
SchemaDependsOnRevisionOnly ==
    database.tables = Fresh[revision].tables /\ database.types = Fresh[revision].types

\* At the newest revision the database is what the code expects: the tables of
\* the ORM classes, the run types it records, a unique key under every upsert.
HeadServesTheCode ==
    revision = Newest =>
        /\ { t \in database.tables : t.name # "v_earnings_current" } = OrmTables
        /\ database.types = RunType
        /\ \A u \in Upserts : \E t \in database.tables : t.name = u[1] /\ t.key = u[2]

\* A migration takes nothing along that it does not have to: rows and runs of
\* the tables and types that stay are kept.
MigrationsKeepTheRest ==
    [][ /\ \A type \in database.runs : type \in database'.types => type \in database'.runs
        /\ \A row \in database.rows :
              row[1] \in Names(database'.tables) /\ row[2] \in database'.types => row \in database'.rows ]_schemaVars
=============================================================================
