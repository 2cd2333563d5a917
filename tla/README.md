# A verification of the Market Intelligence Platform (`mip`)

TLA+ models of the `mip` package (`src/src/mip`), the TLC configurations that
check them on small instances, and TLAPS proofs of theorems about them.  Paths
below are relative to `src/src/mip` unless they start with `docs/` or `alembic/`.

## 1. The system

`mip` is a command-line platform around one PostgreSQL database: it ingests
prices, macro series, fundamentals and earnings, computes features, keeps a
portfolio ledger, assesses holdings with a fixed set of models, writes reports
and archives the predictions it made, and measures them later.  A second half
builds a survivorship-free research data set and runs preregistered experiments
on it.  Nothing runs inside one process concurrently; **concurrency comes from
several invocations (cron, a person) on one database**, and the hard behaviour
is about transactions, restarts and data that change under a reader.  In the
research half it is about **time**: what a computation about a past day may see.

| component | state it keeps | operations | what is hard | what makes it correct |
|---|---|---|---|---|
| **Update orchestrator** (`update/orchestrator.py`, `cli/update.py`, `core/db.py`) | advisory lock; `ingestion_runs` rows of type `update` with their manifest; in memory: stage records, the assessment bundle | gate, lock, open row, 10 stages in own transactions with retries, finalize, release, persist manifest; resume, windows, skips, dry-run | interleaved invocations, crashes anywhere, resume of a half-done run, checks made before the lock, manifest written after it | one update works at a time; no crash strands the lock; manifests tell the truth; the bundle is there when used, and no other update outdates it; success means nothing was left out |
| **Price ingestion** (`ingestion/price_service.py`, `revisions.py`, `validation.py`, `repositories/prices.py`) | price rows, splits, dividends, quality issues, the write-once archive | incremental fetch with an overlap window, revision detection, escalation to a full refresh | per-symbol savepoints, quarantined rows, the raw-shift guard, provider restatements | one adjustment basis per series; evidence of a restatement survives a failed refresh; the cursor passes no session that is not stored |
| **Macro, fundamentals, earnings** (`ingestion/*_service.py`, `runner.py`) | observations, snapshots, append-only earnings states | upsert within a day, append on change | failed items, dead transactions, revised and withdrawn values | a failed item leaves the others alone; revisions are taken up |
| **Features** (`features/pipeline.py`, `registry.py`, `base.py`, calculators, `repositories/features.py`) | definitions keyed by (name, version), values | register, rebuild a trailing window, upsert | publication lags, builds that read and commit while ingestion goes on | a value of a day uses nothing published later; every value a rebuild of the trailing window would write ends up stored |
| **Portfolio ledger** (`portfolio/lots.py`, `snapshots.py`, `importers.py`, `repositories/portfolio.py`) | append-only transactions; derived lots, closures, snapshots | import, FIFO replay, rebuild, snapshot upsert | concurrent imports, back-dated transactions, rebuilds that overlap and read the ledger twice | a transaction is in the ledger once; each rebuild's lots conserve shares, first in first out; a snapshot knows no later transaction |
| **Prediction archive and outcomes** (`evaluation/archive.py`, `outcomes.py`, `repositories/predictions.py`) | immutable predictions, outcomes | insert if absent, sweep, guarded upsert of an outcome | colliding commands, restated prices, a calendar that grows | a prediction never changes; an outcome's sessions never move; outcomes follow restatements |
| **Security master, universe, bridge** (`securities/*`, `research_data/bridge.py`) | securities, identifier intervals, quarantine, memberships, instrument mappings | ingest, build, map, override | closed versus half-open intervals, identifiers that change hands, overrides | an identifier belongs to one security at a time; no instrument has two active mappings on one day |
| **Native research data and outcomes** (`research_data/ingest.py`, `outcomes.py`) | bars, terminal events, daily returns, forward outcomes, snapshots | ingest by data version, derive, compute, freeze | delisting, gaps, corrections, several versions | a frozen snapshot verifies, but for rounding; two derivations of a return agree |
| **Experiments and walk-forward** (`research/experiments/*`, `validation/*`) | capture files, pre-registrations, instances with memory | freeze, capture, kill, resume | torn lines, half pairs, edited plans | what a resumed capture skips is whole; what is captured is captured under the frozen pre-registration |
| **Research engine and models** (`research/*.py`, `models/*`) | memory of one engine instance | own-history thresholds, episodes, analogues, conditional odds | replaying a past day without seeing the future | an answer about a day is the one given on that day |
| **Decision engine** (`engine/trim.py`, `evidence.py`, `attribution.py`, `intelligence.py`, `research/statistics.py`) | none | gather, combine, score, label, attribute, recommend | boundaries, floors, caps and clips | lines add up to the score; strong labels are earned; shadow evidence changes nothing but the next earnings date |
| **Schema** (`alembic/versions/*`, `domain/models.py`) | revision, tables, keys, run types | upgrade, downgrade | migrations over filled databases | no migration fails or loses what it need not; the newest schema is what the code uses |
| **The rest** (market date, analytics, report rendering and the latest files, providers, reference catalogues, retry helper, research-data comparisons, command line) | | | | see section 5 |

The update orchestrator is the hub: it calls price, macro, fundamental and
earnings ingestion, the feature pipeline, the lot engine, the decision engine
(whose result it keeps in memory as `_bundle`), the report writer and the
archive, in that order, each in a transaction of its own.  Apart from it every
service is a command of its own and takes no lock.  The components meet in the
database only: ingestion feeds the feature build, the ledger and prices feed the
snapshots, the archive and prices feed the outcomes, features and prices feed
the research engine, whose models feed the decision engine.  `PROJECT.json` lists
every component with its files, and every hazard with the line where it bites.

## 2. Modules

| module | what it is |
|---|---|
| `StagePlan` | the stage graph of `mip update`, as pure operators: order, dependencies, selection, what to do with a stage, the status of a run |
| `UpdateRun` | any number of concurrent, crashing, resumed invocations of `UpdateOrchestrator.run`; its properties; the mapping to `ExclusiveUpdate` |
| `ExclusiveUpdate` | the abstract specification: updates work one at a time and serve stages in dependency order; besides them only commands write data |
| `UpdateClaims` | two statements of the repository's texts about updates that the code does not keep |
| `MCUpdateRun` and its four `.cfg` | instances for TLC |
| `UpdateRunProofs` | TLAPS: type correctness, the lock, the bundle, audit rows, completeness of a run, refinement |
| `PriceIngest` and its two `.cfg` | one instrument's price history and a provider that restates it: overlap passes, the tripwire, the guard, the savepoint |
| `PriceIngestProofs` | TLAPS: type correctness; the stored history is on one basis and has no holes |
| `Ledger`, `MCLedger`, `LedgerProofs` | concurrent imports, FIFO replay, concurrent rebuilds of lots and snapshots; TLAPS: imports, conservation, order of disposal, snapshots |
| `PredictionArchive`, `MCPredictionArchive` | archiving under contention; sweeps that evaluate while prices and the calendar change |
| `FeatureStore`, `MCFeatureStore` | macro, fundamental and earnings ingestion and the feature build, interleaved |
| `SecurityIdentity` | the security master, point-in-time universes, the instrument bridge |
| `NativeOutcomes` | vendor feeds, daily returns, forward outcomes, frozen snapshots and what their columns round |
| `EvidenceCapture` | capture files of the experiment harness: freeze, capture, kill, resume |
| `PointInTime` | evidence as of a day: eligibility, thresholds, episodes, the momentum model |
| `AnalogueSearch`, `ConditionalOdds` | the analogue and the conditional engine over `PointInTime` |
| `Evaluations` | who asks the models and when: validation, harness, live |
| `DecisionRules` | from the models' evidence to label, attribution and recommendation |
| `Schema` | the eleven revisions as lists of statements, and the rows services leave |
| `SecurityProofs` | TLAPS about `SecurityIdentity` and `NativeOutcomes`: identifiers, the bridge, frozen snapshots, the two derivations of a return |
| `DecisionProofs` | TLAPS about `PredictionArchive` and `DecisionRules`: archive and outcomes, labels, attribution, shadow models |
| `StorageProofs` | TLAPS about `FeatureStore` and `Schema`: no feature looks ahead; migrations succeed, keep what can stay and lead to their revision's schema |
| `HarnessProofs` | TLAPS about `EvidenceCapture` and `Evaluations`: capture under the frozen pre-registration, whole pairs, replays that agree with live answers, the embargo |
| `Sums` | TLAPS: sums over finite sets, and induction over finite sets and numbers by descent |
| `Tables` | one operator, `Over`: a table with some rows replaced |
| `MCResearch` and its three `.cfg` | the last six side by side (`SecurityIdentity`, `NativeOutcomes`, `EvidenceCapture`, `Evaluations`, `DecisionRules`, `Schema`): they share no state, so a behaviour moves in one of six scenes and the other parts stay initial |

### How `UpdateRun` corresponds to the code

One action is one transaction of `run()`, or one step between transactions that
another invocation can observe:

* `GateFails`, `PlanOnly`, `GateFresh`, `GateResume`: the first `session_scope`
  of `run()`.  It reads `_already_updated` or the resumed manifest **before** the
  lock; the locals it fixes are the record `run[u]`.
* `AcquireLock`, `LockTimeout`: `UpdateLock.acquire`.  Waiting and polling are
  the absence of a step; the deadline (0 seconds by default) may pass whenever the
  lock is held.
* `OpenRun`: `_open_run`, which inserts the row or sets the resumed one running
  again, keeping its manifest (`OpenedRow`).
* `PassOver`, `StageReturns`, `StageRetries`, `StageFails`, `EngineDone`: the loop
  of `_execute_stages` and `_run_stage`.  `Disposition` is the order of its four
  tests (window, skip flag, resume, dependencies).  A stage that raises rolls
  back, so a raised attempt changes nothing but the count; an ingestion stage that
  *returns* "failed" has committed and is not retried.
* `Finalize`, `ReleaseLock`, `PersistManifest`: the end of `run()`, in the code's
  order, the manifest last and without the lock.
* `Crash`: the process dies or an unexpected exception leaves `run()`, at any
  place past the gate.  The lock goes with its session; the row stays as it is.
* `CommandWrites`: a command of a single stage (`mip ingest ...`, `mip features build`,
  `mip portfolio rebuild`; `cli/ingest.py:34-41`, `cli/portfolio.py:106-116`) commits that
  stage's data in a transaction of its own, without the lock and without an audit row.
  It may do so at any time, an update at work or not.  `Commanded` bounds the stages
  such commands are run for.

Data are abstracted to *who committed a stage last*, an invocation or a command
(`lastWriter`, `Command`), the bundle to a copy of that at assessment time, an audit row to its status,
scope, date and stage statuses, a stage record to its status.  An audit row is
named after the invocation that inserted it, and every invocation appears once, so
the number of invocations bounds everything: no counter needs a cap except
`raised`, which the code bounds itself.

Assumptions of the model: the connection that holds the lock lives as long as its
process (a database restart inside a run is hazard-listed, not modelled); a
transaction is atomic and isolated from the other stages (PostgreSQL); stage
bodies do not read the audit rows.

### How `PriceIngest` corresponds to the code

The provider's side is external: `NewSession` (also what `_completed_session_end`
sees of the calendar), `Dividend`, `Split`, `Correct`, `Spoil` and `Mend`.  A split
restates every bar on the morning of its ex-date, while the service still fetches
up to the session before, and its action shows up with the ex-session: that is the
window the return-jump rule and the raw-shift guard exist for.

A bar is the counts of the splits, dividends and corrections that hit it since its
session.  Two prices differ materially iff their counts do; provider jitter below
the tolerance of `revisions.py` is no difference at all, and a dividend or a split
always is one (docs/PRICES.md, 2).

The operators from `Start` to `After` are `_ingest_symbol` and `validate_prices` in
the order of the code: the window, the actions of the frame, the quarantine, the
comparison with stored rows, guard, evidence, escalation, the rows written.
What is not in `Valid` is quarantined: malformed bars, and, when the first bar
jumps from the last stored close before it, every bar up to one on a known split
date (a rejected bar never becomes the next one's predecessor).  `Ingest` is the
incremental pass, `Refresh` the full pass it escalates to, which fetches again and
may see a later provider; `IngestFull` is `mip ingest prices --full-refresh`.
`work` is the database as the open transaction sees it: `RefreshFails` is the
savepoint of the symbol rolled back, `Commit` and `RollBack` the transaction of the
stage.  A process that dies rolls back too.

Not in it: human acceptance of quarantined rows, the calendar-gap warning, the
bookkeeping of issues and revisions, archive files (nothing reads them back), a
genuine move beyond the return-jump threshold, a split announced only after its
ex-session, and two ingestions at once (`mip ingest prices` takes no lock).

### How `Ledger` corresponds to the code

An import is one transaction.  `BeginImport` is the validation of the file and the
filter of external ids already there; `AppendRows` the plain inserts, which wait for
an uncommitted row with the same external id (`Contended`) and draw their ids from
a sequence no rollback sets back; `CommitImport`; `AbortImport` is the unique
violation or the death of the process.

A rebuild is one transaction too, whose statements each see what is committed when
they start: `ReadLedger` (and the replay, which an oversell ends), `DeleteClosures`,
`DeleteLots`, `InsertLots`, `BuildSnapshots` (which reads the ledger a second time),
`CommitRebuild`.  Each delete fixes its rows when it starts (`cleared`, `doomed`) and
waits for an uncommitted delete of the same rows (`AwaitsClosures`, `AwaitsLots`).  A
lot committed between the two deletes still has its closures, so the foreign key refuses
the second (`RejectDelete`) and the rebuild is rolled back.  Nothing else keeps two
rebuilds apart: `lots` has no unique constraint (`domain/models.py:458-479`).  A lot
carries the rebuilder it is `by`; `alongside` and `overlaps` remember which rebuilds
were deleting and inserting at the same time.

`Replay` is the engine's loop as a fold in (trade date, id) order; `SnapshotRows`
replays every day anew, as the builder does.  Shares are counted; amounts are
functions of them.

### How `PredictionArchive` corresponds to the code

A reporter's batch is inserted key by key with "on conflict do nothing"; a key held
by an uncommitted transaction makes the insert wait, two commands that take the same
keys in different orders deadlock and the database ends one (`BreakDeadlock`).  A
sweep goes through `all_predictions`, reads the entry session and close (`ReadEntry`),
then the exit session and close (`ReadExit`), stages the row or the columns that
differ, and flushes before its next query; a row another sweep inserted meanwhile
fails the flush and rolls the sweep back (`RejectSweep`).  Prices, splits and
`mip calendar build` move in between.  A close is the number of restatements it has
been through, a return the pair of closes it divides.

### How `FeatureStore` corresponds to the code

`Fetch(kind)` and `CommitIngest` are one ingestion transaction, `BeginBuild` and
`CommitBuild` one build, each with its `Crash`.  A fetch reaches `Reach` days behind
its cursor; a build recomputes every live feature from `Overlap` days before the
newest stored row of its scope, with `Lookback` days of context.  Of the calculators,
one of each kind whose timing matters is modelled: a macro level, its change, the
slope of two series with different lags, the change of that feature, a field of the
fundamental snapshots, days to the next earnings date.  `Revise` is everything the
outside may do to what was ingested; `Deploy` a release that adds features.

### How the research modules correspond to the code

* `SecurityIdentity`: `IngestSecurities`, `BuildUniverse` and `IngestMappings` are one
  service call each, which is one transaction and one step; `IngestOne` is the fold's
  step, so that records of one snapshot see the records before them.  `Overlaps` is the
  closed comparison of the ingest, `HeldOn` the half-open one of the lookups.  Where a
  query takes the first of several rows in no stated order, the choice is open.
* `NativeOutcomes`: `IngestOutcomes`, `BuildReturns`, `BuildSnapshot`, one call per step.
  Prices are on a logarithmic scale, so compounding is adding; a checksum is the set
  of what it is taken over.  Returns are counted in quarters of the last decimal a column
  keeps, to tell those that rounding changes: `Printed` is the unrounded value formatted
  for the checksum (half to even, the sign kept), `Column` what PostgreSQL stores of it
  (half away from zero), `Reprinted` the stored value formatted again by the check.  Unique and
  check constraints are guards.
* `EvidenceCapture`: `Begin` reads the file, verifies the pre-registration and takes a
  grid, any of `Grids`: it comes from the command's options, which nothing compares with
  the windows of the pre-registration.  `CapturePair` appends a pair's lines and flushes.
  `Kill` leaves any number of them, and after them nothing, a piece of the next line,
  or all of it but its newline; what a later capture appends is glued to that
  (`Appended`).  Only the harness's file is modelled, not that of the older driver
  `validation/walkforward.py`.
* `PointInTime`, `AnalogueSearch`, `ConditionalOdds`: what each model reads of which day,
  with the samples kept whole in place of the statistics taken of them.  `Evaluate`
  yields a result and the memory the engine is left with.
* `Evaluations`: `ValidatePair` asks a new instance; `NewInstances` and `HarnessPair`
  pass one instance from target to target of a scoring date.  Questions about a day
  are asked on later days.
* `DecisionRules`: `GatherModel` per model in order, then `ReviewHolding`.  Theses
  take the strongest reasons, each model's label once whatever its sign, the recommendation
  three of them; of reasons that tie all are kept.  Arithmetic is exact: shares in percent, scores as pairs of integers over a unit.
* `Schema`: `Upgrade` and `Downgrade` run a revision's statements as one transaction;
  `Record` is a service that leaves a run and rows.

## 3. What the runs check

| run | instance | question |
|---|---|---|
| `update_two` | 2 invocations, 2 dates, windows (all, `--only prices`, `--from-stage features`), skip sets, 3 unreliable stages, 1 retry, `mip features build` run beside them; 1,105,034 states | do manifests tell the truth, is the bundle ready, does anything but a command outdate it, does success leave nothing out, do rows keep their identity, is the update exclusive and the lock never stranded, is `ExclusiveUpdate` implemented |
| `update_live` | 2 invocations, 2 unreliable stages, 1 retry, `mip ingest prices` beside them, fairness; 89,683 states | does every invocation past its gate end |
| `price_guard` | 7 sessions, overlap 5, guard from 3 rows; a split below the return-jump threshold, a dividend, a correction, one session that may be malformed; 1,066,323 states | is a committed history on one basis |
| `price_live` | 6 sessions, overlap 3, two splits above the threshold and a dividend, fairness; 28,696 states | with quarantine in place of the guard: are recorded splits applied, are there holes, does the history converge |
| `ledger` | 1 instrument, 2 days, 3 files (one oversells; its correction repeats a row and adds a back-dated one; one is refused), 1 crash; 2 importers and a rebuilder, or an importer and 2 rebuilders; fairness; 303,974 states | is a transaction imported once, does every rebuild conserve shares, first in first out, do two rebuilds' lots coexist only if they overlapped, are snapshots point in time, do the lots catch up |
| `archive` | 2 reporters, 2 evaluators, 4 sessions of which 1 is in the first calendar, 2 predictions with horizons of 1 and 2 sessions, 1 split, 2 crashes, fairness; 81,939 states | does the first prediction stand, do an outcome's sessions stay, do outcomes catch up with restatements |
| `features` | 3 days, lags of 1 and 0 days, reach and overlap of 1 day, 1 revision, 1 failure, a feature deployed later, fairness; 183,386 states | does a feature look ahead, is every value a rebuild of the trailing window would write stored in the end |
| `research` | six scenes, below; 1,090,923 states | the fifteen properties of the research half |

The scenes of `research`: *identity*, 4 service calls from 5 snapshots, 3 policies and
5 batches over 3 days and 2 securities; *outcomes*, 5 calls from 4 feeds in 2 data
versions with a gap, an unpriced bar, a delisting and its correction, and returns on and off
the half of the last decimal; *capture*, 3 pairs of 2 models, 2 grids, 3 kills, 2 edits; *evaluation*, 3 histories of 13 days (a plain one, a
stock that stops trading, a sector fund launched late), 2 targets, 2 scoring dates;
*rules*, 5 models with 5 evidences each or none and 6 positions; *schema*, the
eleven revisions with 7 run types.

**Why the bounds are enough.**  Two invocations are enough for one to run, crash and be
resumed by the other, and for every pairwise race; the proofs of section 4 cover any
number.  One portfolio is enough because no invocation compares two.  The unreliable
stages include a critical one whose failure blocks every later one (`prices`), the
producer of the bundle (`assess`) and a consumer of it (`archive`).  Symmetry over
invocations is used in the safety runs of the update only.

For prices, the horizon exceeds the overlap, so that some stored rows are out of
reach of an incremental pass (what every hazard here needs), and the guard's
smallest window is reached; one malformed session and one correction are as many
as an overlap of 5 tolerates by `OverlapAssumption`, `MinRows + 2 * |Spoilable| <=
Overlap`.  The code relates none of these: `overlap_trading_days` is a free setting,
and below `RAW_SHIFT_MIN_ROWS` it switches the guard off.

Two importers race for one external id; four ids let the correction, with its back-dated
row, be committed after the oversell and after an import of it that was rolled back.
Two rebuilders meet in every way two transactions can: one waits for the other's
closures or lots, is refused by the foreign key, or finds nothing to delete yet.  Importers
and rebuilders meet only through the committed ledger, for which one of either kind
beside two of the other is enough.  The proofs of section 4 cover any number.  Two predictions in
both orders deadlock two reporters, and horizons of one and two sessions over a calendar
that first has neither reach every off-by-one.  Reporters read no outcomes and
evaluators only *which* predictions there are, so `archive` checks them in two scenes,
contention and sweeping; likewise `features` checks market and instrument features
apart, as they read different sources.  With a reach and an overlap of one day, three
days hold one that is recomputed and one that is no more.

Deadlock is checked in `ledger` and `archive`, whose processes can always go on.  In the
others it is off: invocations end, sessions, days and calls run out.

**Fairness.**  `UpdateRun` asks weak fairness of `Advance(u)`, everything an
invocation does on its own past the gate: the operating system schedules a started
process.  It asks nothing of the gate (nobody has to start an update), nothing of
`Crash`, and no fairness of getting the lock: a waiter always has a step, because
the deadline passes.  `PriceIngest` asks weak fairness of days passing, of the
scheduled run and of ending it, and strong fairness of the second fetch and of commits
of runs that got through: the schedule is daily, and neither the provider nor the
database fails every time.  Strong fairness of `Commit` alone would not do, as TLC shows:
runs with a refresh could always be the ones rolled back.  `Ledger` asks weak fairness of
a rebuilder's next step (the update rebuilds daily; a started process goes on), and
`PredictionArchive` of an evaluator's; imports, reports and the market owe nothing.
`FeatureStore` asks weak fairness of commits and builds, and strong fairness of each
kind of fetch, because the kinds take turns in one slot.  Crashes, failures and
revisions are bounded, so that in the end each of these gets through.

### Where the texts and the code part

Four runs with one property each and a counterexample TLC finds, listed under
`findings`:

1. `claim_repeat` (`NoRepeatedUpdate`): invocations A and B pass the gate; A takes
   the lock, completes the date, releases; B takes the lock and runs the completed
   date again.  `docs/RUNBOOK.md:52` says it will not.
2. `claim_bundle` (`ReportsMatchArchive`): the archive failed, another update ran in
   between, the resume assesses again and archives predictions that are not those
   of the reports it carried over, against the docstring at `update/orchestrator.py:4-8`.
3. `claim_cache` (`HarnessTellsTheSame`): the conditional engine remembers forward
   returns by symbol and length but not by the date they were cut off at
   (`research/conditional.py:357`).  The harness shares one engine between the targets
   of a scoring date; a target that stopped trading is dated by its own last session,
   and is answered with returns the targets before it left, or leaves its shorter ones
   to those after it.  `research/engine.py:101-104` says that evaluating a day must
   equal what live inference gave on it.
4. `claim_wrap` (`BenchmarkReturnsAreOfTheDay`): `forward_returns` takes position -1 for
   a day the series does not have (`research/engine.py:78`) and returns
   `values[h - 1] / values[-1] - 1`, the first prices over the newest one.  Analogues
   look the company's days up in a sector fund that may be younger.

Seen while modelling, without a run of their own:

* `update/orchestrator.py:381` refuses to resume a run that succeeded, but reads the
  status before the lock: a resume that passed the test while the run was finishing
  sets the succeeded row running again (line 415).
* Resuming with a window or a skip flag overwrites completed records with "skipped"
  (line 517), against the comment at line 392.
* `mip ingest ...`, `mip features build` and `mip portfolio rebuild` commit while an update
  works with its bundle: reports and archive may then show an assessment of data the
  database no longer holds.  `OnlyCommandsOutdateBundle` says that nothing else does that.
* `ingestion/validation.py:148` exempts a bar from the return-jump rule on any recorded
  split date.  On the morning of a second split within the overlap of the first, that
  bar alone is stored re-based, with too few rows compared for the guard; the next
  completed session repairs it.
* A bar quarantined during the one refresh a dividend triggers keeps its old factor
  (`ingestion/price_service.py:276` compares valid rows only), leaves the overlap and is
  compared no more, against the definition of `adj_close` in `docs/PRICES.md`, 1.
* `features/base.py:51` promises that a value that cannot be computed has no row;
  `features/pipeline.py:239` drops such values from the upsert and leaves the old row.
* A feature added later is computed from the shared cursor of its scope on, never for
  the days before.
* The next earnings date of a recommendation is the first a set of shadow models yields
  (`engine/intelligence.py:587`), although shadow evidence "never contributes to theses,
  drivers, scores, or recommendations" (lines 13-16), and which one depends on
  hashes.  `ShadowsStayOut` therefore leaves it out.
* A security whose trading pauses from before a window until after it enters at its first
  later bar and exits at its last earlier one.  The check constraint
  `fwd_exit_after_entry` then refuses the row, and with it the snapshot of every
  security, although the generator "NEVER discards an observation"
  (`domain/models.py:1038-1041`).  With no earlier bar it enters and exits on one day
  after the window: status "normal", return zero.
* `research_data/source.py:96-97` calls the data version the identity of a vendor
  snapshot; the market's return in `research_data/outcomes.py:242-252` adds up the rows of
  every version there is.
* `securities/universe.py:7-8` says the same frozen definition and data give the same
  membership; a definition of the same name and version is returned whatever the rules
  passed say, and eligibility is decided with the latter, by one of several listings in
  no fixed order.  A second build adds members and removes none.
* Two rebuilds of the lots at once, of which the second starts its second delete before the
  first commits and finds nothing to wait for, both insert their lots
  (`repositories/portfolio.py:92`): until the next rebuild, which deletes both, every share is
  held twice, although "replaying the same ledger always produces identical lots"
  (`portfolio/lots.py:5-8`).  In `ledger` it happens; `BuildsConserveShares` says
  that each rebuild's lots are right by themselves and which two can stand side by side.
* `delete_snapshots` (`repositories/portfolio.py:128`) has no caller: the position snapshot of
  a day on which a back-dated sale leaves nothing stays.
* A snapshot's checksum is taken over returns formatted before they are stored
  (`research_data/outcomes.py:411-416`, half to even), the check formats what
  `Numeric(18, 10)` (`domain/models.py:1067`, half away from zero) gives back (lines 501-505).
  A return that is a half of the last decimal, such as 20.48 to 20.49 = 0.00048828125, hashes as
  ...812 and is read back as ...813; a loss smaller than that half hashes with its sign
  and is read back without.  Such a snapshot does not verify; `SnapshotsVerify` is
  about those without such a return.
* `mip experiment capture` takes `--start` and `--holdout-start` from the command line
  (`cli/experiment.py:129-144`) and compares them with nothing: the pairs of another window can
  be captured into a file whose pre-registration verifies.
* A capture file whose last line is torn can be neither resumed nor analysed until
  somebody edits it; one that lacks only the newline can, and is torn by the next write.
* "Dates already captured are skipped" (`validation/walkforward.py:8`): `_done_dates`
  (lines 131-134) takes any line of a date for that, so a date whose lines were written in
  part when the driver was killed is skipped for good.

Looser statements are not findings: `docs/ARCHITECTURE.md:72` (D12) has every
`adj_close` revision trigger a refresh, `docs/PRICES.md`, 3, only some, and the code
follows the latter; `--only prices` ends "success" and suppresses the day's update,
which `docs/RUNBOOK.md:52` can be read to allow.

## 4. What is proved

### Updates and prices

For **every** set of invocations, portfolios and dates, every window and skip set,
every set of unreliable stages and every retry limit, and whichever stages' data
commands rewrite meanwhile, under the named assumptions of `UpdateRun` (`None` is not a value of any other kind; windows and skip sets are
over the stages; the retry limit is a natural number):

| theorem | property | invariant it rests on |
|---|---|---|
| `TypeCorrect` | `TypeOK` | `TypeInv` |
| `Exclusion`, `LockIsLive` | `MutualExclusion`, `NoStaleLock` | `LockInv` |
| `BundleOutlivesUpdates` | `OnlyCommandsOutdateBundle` | `BundleInv` (with `LockInv`, `TypeInv`) |
| `AuditTruth`, `RowIdentity` | `AuditIsTruthful`, `RowKeepsItsIdentity` | `AuditInv` |
| `SuccessIsWhole`, `BundleAtHand` | `SuccessLeavesNothingOut`, `BundleIsReady` | `ProgressInv` |
| `Refinement` | `RefinesExclusiveUpdate` | `LockInv`, `ProgressInv` |

The argument, invariant by invariant:

* `TypeInv` is `TypeOK` and `LocalsOK`: a type says nothing about *when* a row
  exists.  `PersistManifest` updates `rows[run[u].row]`, which is well typed only
  because an invocation past `OpenRun` works on an existing row, and a row not yet
  opened belongs to an invocation still before `OpenRun`.
* `LockInv` adds *the lock is u's exactly while u is between acquire and release*.
  Both directions are needed: mutual exclusion alone is not inductive, since it
  does not say the lock is taken while somebody works.
* `BundleInv` adds *an engine that has a bundle is past position 9*, and what the
  assessment read is as it was but for what commands have rewritten
  (`UpToCommands`): every stage it reads comes before that position, so the owner no
  longer writes them, and by `LockInv` no other update does.
* `AuditInv` relates three things: manifests, the in-memory records (including what
  was taken over from a resumed manifest) and `committed`; a manifest is true
  because the records it is written from were, and a resume copies from a true
  manifest.  `IdentityOK`, the same date and scope in memory and in the row, is
  what makes the manifest's rewriting of the date harmless.
* `ProgressInv`: exactly the stages before the engine's position have a record;
  a record "skipped" in a full run has a failure behind it; a served assessment
  left a bundle unless it was carried over.  The first part is what makes a
  dependency that is not served a *recorded* one (`DependenciesComeFirst`).
* `Refinement` maps `pc` to a phase and records to the stages served.  Acquiring is
  `Begin`, releasing or dying is `Leave`, a resumed stage is `TakeOver`, a served
  one `Serve`, an ingestion stage that returns "failed" after committing is
  `Attempt`; everything else stutters.

For `PriceIngest`, for every horizon, overlap, minimum of compared rows, bound on
events and set of sessions that may be malformed, under `BoundAssumption`,
`SpoilAssumption`, `JumpAssumption` and `OverlapAssumption` (`3 <= MinRows` and
`MinRows + 2|Spoilable| <= Overlap`, which the defaults 5 and 10 meet for two malformed
sessions):

| theorem | property | invariant it rests on |
|---|---|---|
| `TypeCorrect` | `TypeOK` | `TypeInv` |
| `HistoryOnOneBasis` | `OneBasis` | `BasisInv` |
| `NoSplitUnapplied` | `RecordedSplitsAreApplied` | `BasisInv` |
| `HistoryHasNoHoles` | `NoHoles` | `BasisInv` |

* `TypeInv` adds that the first session has seen the most events: the bounds on
  splits and dividends are read off it.  `LatestExists` (a non-empty set of
  sessions has a maximum) gives the cursor.
* `BasisInv` says of the committed store, and of the working one once a run is
  done, what a pass relies on: history is stored without holes up to every row
  *and every recorded split* (`Covered`: the second half is what keeps a bar let
  through by a known split from leaving a hole behind it); rows are behind by no
  more splits than are unrecorded (`Applied`); all sound rows are behind by the
  same amount (`Uniform`).  Between the two passes of an escalation nothing is
  claimed of the working store: the second pass starts from the first session and
  restores everything (`WholeHistory`), and a failure drops it.
* `BehindIsNoticed` is the heart of it.  If rows are behind, they are all behind
  alike, so every well-formed row of the overlap moved.  If raw closes moved, at least
  `Overlap - |Spoilable|` of at most `Overlap` compared rows shifted and the guard
  refuses; if only adjusted closes did, spot corrections can hide at most half the
  compared rows from the tripwire before the guard refuses.  So a pass that neither
  refuses nor escalates found the history up to date.  The count is where
  `OverlapAssumption` is needed: with fewer than
  `MinRows` rows to compare the guard never judges and the theorem is false.
* `UnexplainedJump` covers the quarantine rule: for an instrument that split at most
  once a recorded split is applied, hence not what the older rows lack, hence no
  fetched bar is let through and the pass stores nothing.  `NoSplitUnapplied` and
  `HistoryHasNoHoles` hold without that restriction.

### Ledger, archive, capture, features

| theorem | property | invariant it rests on | for every |
|---|---|---|---|
| `LedgerProofs!NoDoubleImport` | `ImportOnce` | `ImportInv` | set of importers, rebuilders and files, under the assumptions of `Ledger` |
| `LedgerProofs!BuildsKnowNoFuture` | `SnapshotsArePointInTime` | `LedgerInv` | the same |
| `LedgerProofs!SharesConserved` | `BuildsConserveShares` | `LedgerInv`, `LotsInv` | the same, however many rebuilds overlap |
| `LedgerProofs!OldestLotsFirst` | `FirstInFirstOut` | `LedgerInv`, `LotsInv` | the same |
| `DecisionProofs!FirstPredictionIsKept` | `FirstPredictionStands` | `ArchiveInv` | set of reporters and batches, under `KeysAssumption` |
| `DecisionProofs!OutcomesKeepTheirSessions` | `OutcomeSessionsAreFinal` | `OutcomeInv` | set of evaluators, horizons and sessions, under `SessionsAssumption` and `KeysAssumption` |
| `HarnessProofs!CapturedUnderFrozenPlan` | `OneFrozenPlan` | `CaptureInv` | set of grids and plans, number of kills and edits |
| `HarnessProofs!SkippedOnlyWhenWhole` | `SkippedPairsAreWhole` | `CaptureInv` | the same |
| `StorageProofs!FeaturesNeverLookAhead` | `NoLookAhead` | `SourcesInv` | number of days, lags, reach, overlap and revisions |

* `ImportInv`: the rows an importer has inserted but not committed carry external ids
  that are neither in the ledger nor among another importer's, and none twice.  Which
  ids the sequence hands out does not matter.  The check a file starts with contributes
  nothing: between it and the commit another import may have committed, and only the
  unique index, which waits for uncommitted rows, stands.
* `LedgerInv` follows a rebuild through its statements: what it read is a part of the
  ledger (`Earlier`), what it replayed is the replay of that, what it inserts is the
  result, and what it builds is point in time *for the second view it read*, which need
  not be the first.  The heart is `ReplayAccounts`: after every prefix of a replay that
  has not failed the state is `Faithful`: for each instrument the lots' quantities sum
  to the shares that came in, the closures' to those that went out, lots by lot and
  disposals by disposal, and no lot has a closure while an older one of its instrument
  is open.  `OpeningStep`, `ClosingStep` and `OtherStep` are its three cases;
  `SliceOfEachLot` is the arithmetic of taking a disposal from the oldest lots.
  `ReplayOfPrefix` carries it to the snapshots, which replay the ledger up to each day.
* `LotsInv` says that the lots committed by one rebuilder are those of one replay
  (`Replayed`) or none, and that lots of two stand side by side only if the two overlapped.
  What makes that inductive is `UnderwayOK`, of a rebuild past the start of its
  second delete: the rows it is deleting are still there, its own last build is among
  them, of every other build they are all or nothing (`Whole`), and rows it is not
  deleting belong to rebuilds that are or were at it beside this one.  Rows do not vanish
  under a delete: of two that want one row the second waits, and passes over it once the
  first commits.  Nothing is assumed of the rebuilders.
* `ArchiveInv`: the keys a reporter holds uncommitted are neither in the archive nor
  held by another, which is what waiting buys; a commit therefore adds keys and
  changes none.
* `OutcomeInv`: the calendar is the exchange's sessions up to some day (`CalendarOK`).
  Hence the entry of a prediction is the last session up to its day, whenever it is
  looked up, because the first calendar covers that day; and the exit, once the
  calendar has it, is *the* session with exactly that many sessions since the entry: two
  candidates would give one set strictly inside the other with the same cardinality.
  Every staged, flushed and stored row lies on these two, so whichever sweep writes
  last writes the same sessions.
* `CaptureInv`: a legible line's plan is the digest that was frozen, since a writer
  begins only when plan and digest agree and the digest never changes.  In a file that
  can be read every marker line is preceded by a line of every model of its pass: a block
  is appended whole or in a piece whose marker, if it got that far, comes last
  (`PieceKeeps`), and what is appended to a line without its newline makes the file
  unreadable (`GluedLines`), so that no marker of it counts.  That the captured pairs are
  those of the pre-registered windows is not claimed.
* `SourcesInv` says only that stored observations and snapshots are of days.  The
  theorem is five lemmas, one for each kind of calculator (`LevelLooksBack`,
  `ChangeLooksBack`, `SlopeLooksBack`, `FieldLooksBack`, `EarningsLookBack`): restricting
  its source to what was public on the day removes nothing it reads.  For the slope
  that needs the later of its two legs' lags, which is the case a test would hardly
  have.

### Securities, outcomes, decisions, replays, migrations

These modules are scenes of `MCResearch` and have no specification of their own; their
theorems are about `Init /\ [][Next]_vars` of the part.

| theorem | property | invariant it rests on | for every |
|---|---|---|---|
| `SecurityProofs!OneSecurityPerIdentifier` | `IdentityNeverMerged` | `IdentityInv` | set of vendor snapshots, of any length |
| `SecurityProofs!OneMappingADay` | `BridgeIsUnambiguous` | `RowsOK` | set of mapping batches, of any length |
| `SecurityProofs!FrozenSnapshotsVerify` | `SnapshotsVerify` | `SnapshotInv` | set of feeds, versions, securities and dates, where no return is rounded at a half or to minus zero |
| `SecurityProofs!ReturnsAgreeWithOutcomes` | `DailyReturnsCompound` | `ReturnInv` | the same, and every length of the window |
| `DecisionProofs!LabelsAreEarned` | `LabelIsEarned` | `RulesInv` | list of models, evidences and positions |
| `DecisionProofs!AttributionsAreExact` | `AttributionIsExact` | `RulesInv` | the same |
| `DecisionProofs!ShadowsAreInformational` | `ShadowsStayOut` | `RulesInv` | the same, and every set of shadow models |
| `HarnessProofs!ReplaysAgree` | `ReplayTellsTheSame` | `AnswersInv` | set of histories and targets, scoring dates, limits of the searches, lengths |
| `HarnessProofs!EmbargoKept` | `EmbargoHolds` | `AnswersInv` | the same |
| `StorageProofs!MigrationsAreSafe` | `MigrationsNeverFail` | `SchemaInv` | set of run types that services record, runs and rows, path of migrations |
| `StorageProofs!SchemaFollowsRevision` | `SchemaDependsOnRevisionOnly` | `SchemaInv` | the same |
| `StorageProofs!HeadIsServed` | `HeadServesTheCode` | `SchemaInv` | the same |
| `StorageProofs!MigrationsTakeNoMore` | `MigrationsKeepTheRest` | `SchemaInv` | the same |

* `IdentityInv`: intervals consist of dates (`Dated`), and two rows with the same kind and
  value that belong to different securities do not overlap in the *closed* sense of the
  ingest (`Distinct`).  The half-open sense of the lookup finds no more than the closed
  one, hence one security a day (`OneHolder`).  Three places could break it: a new row, a row whose end a
  later record moves, and a record that brings several identifiers at once; the fold over
  a snapshot's records is followed step by step, because a record meets the rows of the
  records before it.
* `RowsOK`: active rows of an instrument do not overlap (`Apart`), and a manual row that
  is no longer active was overruled by a *later* manual row (`Ruled`).  The second half is
  what lets the newest manual mapping of a day decide: it must still be active.  Both
  ways a mapping enters keep it: an automatic one is refused where it overlaps, a manual
  one supersedes what it overlaps.
* `SnapshotInv`: the rows under a snapshot's checksum give that checksum with the returns
  as they were computed, one for every security and date, and each keeps its return
  rounded to the column (`Rounded`).  A later build either finds its checksum among the
  snapshots and adds nothing, or adds rows under a checksum no snapshot has.  The check
  reads the column: `PrintedAlike` is that it prints a return as it was hashed unless that
  is a half of the last decimal or a loss smaller than it (`RoundsAlike`).
* `ReturnInv` relates four tables that are filled by different calls: bars are never
  replaced (`BarsOK`); a daily return whose run is later than every bar of its version and
  every terminal is the difference of its bar and the last one before (`ReturnsOK`); an
  outcome spans two priced bars and, while it is later than every terminal, no terminal
  falls within its window (`ForwardsOK`).  Over a window in which every bar is priced the differences
  telescope (`Telescope`) to the difference of the two ends.
* `RulesInv`: a verdict is `Review` of the evidence that is still there to see, some
  position and some catalyst.  `LabelIsEarned` then is about the walk from a score's band
  toward neutral: `NearestUngated` shows that it stops at the first band whose floor is
  met and passes none.  `AttributionIsExact` is arithmetic over sums of any set of models: the
  lines of the models are shares of one sum, what caps and clips take away is a line of
  its own, and the sign of a line is the sign of its share.  `ShadowsStayOut`: two
  gatherings that agree on the official models (`SameOfficial`) give the same sums, score,
  label, lines, theses and recommendation but for its catalyst, one operator after the other.
* `AnswersInv`: the last answer could be given on the evening it is about, and what of
  it does not go through an instance's memory is what live inference gave then.  It rests on
  `AskedLater`: two databases that agree on everything until a day (`Agree`;
  `EveningsAgree`) let each model say the same of it.  Momentum: the same eligible days,
  episodes, quantiles and active regimes (`SameStudy`, `SameRegimes`).  Analogues: the
  target is a day of the series, candidates come before it (`CandidatesComeBefore`),
  scores are taken against the history until it (`SameStages`), and outcomes by prices
  until it (`SameFollowed`).  Conditional odds: the resolved day may be before the one
  asked about, and the databases agree on less (`AgreeBefore`); conditions, matches
  and the rung of the ladder are the same with any memory, the pooled outcomes with an
  empty one (`SameMatches`, `SameOdds`), which is as much as `HarnessTellsTheSame`,
  refuted in section 3, leaves true.
* `EmbargoHolds` counts, so its proof needs that the ranking lists every analogue once:
  weighted means are fractions with a positive denominator and dates break ties, so `Closer` is
  a strict total order (`AnaloguesAreOrdered`), in which each rank is taken by one
  (`RanksOnto`, `RankingListsAll`); thinning leaves a part of it (`ThinnedIsPart`).  A forward
  return within the prices until the target ends on a session that the whole calendar
  counts alike (`OwnIsObservable`), so outcomes used map one to one into observable
  analogues (`OwnAreCounted`).
* `SchemaInv`: at revision n the database is `Db(TablesAt(n), TypesAt(n), runs, rows)` with
  *any* runs of the types allowed at n and *any* rows that a service may have written
  (`RowsOK`).  That this is inductive is `UpgradesWork` and `DowngradesWork`: each of the
  eleven revisions, run on such a database of its own or of the previous revision, succeeds
  and ends at the other.  They rest on what one statement does (`CreateRun`, `DropRun`,
  `CheckRun`, `ForgetIssuesRun` and so on), on what a list of creations does when each
  table refers only to tables that are there (`Stack`, `CreatesRun`), on what a list of drops does when
  each table is referred to only by itself and those dropped before it (`Unstack`, `DropsRun`),
  and on the names of the layers, which are disjoint (`LayersApart`) and refer to
  older layers or their own (`TablesClosed`).
  `RowsOK` is where the order of a downgrade counts: its check constraint is put back
  after the runs it forbids are deleted, and these can be deleted only when no row names
  them any more: their tables are gone by then, and the quarantine ledger, which stays, is
  cleared of their issues (`ForgottenRows`).  Only revisions 10 and 11 have to do that, as
  `portfolio_import` and `update` quarantine nothing (`TypesOfRows`).
  The newest revision's tables are the ORM's and the view by `TablesAtHead`.

**Assumptions on the constants**, each named in the module that declares it: prices are
integers or `Null`, bars are keyed by security and date (`FeedsAssumption`); transactions
have a date and a quantity (`FilesAssumption`); files, batches and
snapshots are finite sequences of rows whose intervals consist of dates
(`SnapshotsAssumption`, `BatchesAssumption`; that a mapping does not end before it starts is
the check constraint `ism_interval_ordered`, `domain/models.py:841`); the list of models is a
sequence (`ModelsAssumption`); weights and effects are numbers, and a usable evidence has an error that can
be inverted (`EvidencesAssumption`, `PositionsAssumption`: `engine/evidence.py` obtains the
error as effect over z and calls an evidence with either of them zero unusable); lengths
and limits are positive (`StudiesAssumption`, `SearchAssumption`), targets form a sequence and
scoring dates are days (`QuestionsAssumption`), and a history has a series of prices,
perhaps empty, of every target, its fund and SPY, with returns only on days that have a price,
from which they are computed (`TapesAssumption`);
`None`, `Null` and `Missing` are no other value.

**Induction.**  What a sum, a replay or a fold yields is proved without the library's
induction theorems, which take an operator.  The set of counterexamples among the subsets of
a finite set (or among the numbers) is defined as a set, shown to contain with every member
a smaller one, and is then empty by `Sums!SubsetDescent` (`Sums!NumberDescent`).
`Sums` builds on that what the other modules need of `SumOver`: `SumsExist`, `SumsUnique`,
`SumSplit`, `SumPart`, `SumScale` and so on.
`Schema!Execute` is a fold too: `ExecuteIsReached` and `ReachedNext` turn it into steps, one
statement each, and `FreshIs` does the same for the recursive function `Schema!Fresh`.

### Only model-checked

* Liveness under fairness: `Terminates`, `Converges`, `ProjectionsCatchUp`,
  `OutcomesCatchUp`, `WindowCatchesUp`.
* The four refuted claims.

## 5. Not modelled, and why

* **Market date** (`update/market.py`): one comparison of clock, close and buffer; the
  resolved date is an input of `UpdateRun`.
* **Analytics and report rendering** (`portfolio/analytics.py`, `evaluation/analytics.py`,
  `engine/report.py`, `reporting/*`): read-only arithmetic and text.  The latest files are
  replaced one by one, and what a crash leaves is overwritten by the next update.
* **Models' and features' arithmetic**: which day a model reads is modelled for the
  momentum, analogue and conditional models; the other regime models follow the
  momentum model's pattern.  Kernels, distributions and statistics are functions of
  samples that are kept whole.  Cross-horizon notes and the comparison with the
  previous prediction are left out of `DecisionRules`.
* **Ingestion's bookkeeping**: acceptance of quarantined rows, calendar-gap warnings,
  issue and revision rows, archive files (nothing reads them back).
* **The older walk-forward driver** (`validation/walkforward.py`): its models are asked as in
  `Evaluations` (`ValidatePair`), its file is not modelled.
* **Research data's comparisons** (parity, guardrails, quality), which read and report,
  and rows of provenance written once per run.
* **Providers, catalogues, the retry helper, the command line**: external clients,
  idempotent synchronisation, a bounded loop, argument parsing.  What providers may
  answer is part of the ingestion models.
* **The lock's connection**: it lives as long as its process; a database restart inside a
  run is not modelled.  Stage transactions of one update are atomic in `UpdateRun` and
  opened up in the modules of the stages.
* **Database isolation**: every statement sees what is committed when it starts; the
  order in which one statement of a rebuild or a sweep meets rows is not split further.

## 6. Plan

1. `PriceIngest` with two ingestions at once on one series (`mip ingest prices` takes no
   lock), and human acceptance of quarantined rows.
2. Composition of `UpdateRun` with `PredictionArchive`: what a resumed update adds to an
   archive that keeps its first predictions.
3. Memberships of a universe built twice, once the repository says what they should be.
4. The regime models that differ from the momentum model in more than their features.
