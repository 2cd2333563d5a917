----------------------------- MODULE UpdateRun -----------------------------
(***************************************************************************)
(* Concurrent, crashing and resumed invocations of `mip update`            *)
(* (UpdateOrchestrator.run in update/orchestrator.py).                     *)
(*                                                                         *)
(* An invocation passes the gate (one transaction: preflight, market date, *)
(* and either the resume manifest or the already-updated check), takes the *)
(* Postgres advisory lock, opens its audit row, runs the stage engine with *)
(* one transaction per stage attempt, finalizes, releases the lock, and    *)
(* only then persists the manifest in the audit row.  Every transaction is *)
(* one action, so invocations interleave exactly where the code commits.   *)
(*                                                                         *)
(* An audit row is named after the invocation that inserted it, so a row   *)
(* id and an invocation are drawn from the same set.  Data are abstracted  *)
(* to "which invocation committed this stage last".                        *)
(*                                                                         *)
(* The lock excludes updates from each other only.  The commands that run  *)
(* a single stage (`mip ingest prices`, `mip ingest macro`, `mip features  *)
(* build`, `mip portfolio rebuild`, ...) commit whenever they are called.  *)
(***************************************************************************)
EXTENDS StagePlan

CONSTANTS
    Updates,      \* the invocations of `mip update`
    Portfolios,   \* portfolio names: the scope of an audit row
    Dates,        \* the market dates the gate may resolve
    None,         \* no value
    Windows,      \* the <<first, last>> stage windows asked for
    SkipSets,     \* the sets of stages skipped by flag or settings
    Faulty,       \* the stages that may raise, or return less than success
    RetryLimit,   \* settings.stage_retry_limit
    Command,      \* the writer of what a single-stage command commits
    Commanded     \* bound: the data stages that commands are run for meanwhile

ASSUME UpdatesAssumption == None \notin Updates
ASSUME CommandAssumption == Command \notin Updates \union {None}
ASSUME ScopeAssumption == None \notin Portfolios /\ None \notin Dates
ASSUME WindowAssumption == Windows \subseteq Positions \X Positions
ASSUME SkipAssumption == SkipSets \subseteq SUBSET Stages
ASSUME FaultAssumption == Faulty \subseteq Stages
ASSUME RetryAssumption == RetryLimit \in Nat

VARIABLES
    \* shared: the database
    rows,        \* ingestion_runs rows of type 'update'
    lock,        \* the holder of the advisory lock
    lastWriter,  \* who last committed each data stage: an invocation or a command
    committed,   \* <<row, stage>>: a stage that committed on behalf of a row
    used,        \* the bundle behind the reports and the archive of each row
    \* local to an invocation
    pc,          \* where it is in run()
    run,         \* the arguments and locals fixed at the gate
    records,     \* result.stages, abstracted to statuses
    position,    \* the stage the engine looks at next
    raised,      \* attempts of that stage that raised so far
    bundle,      \* self._bundle: what the in-memory assessment was made from
    verdict      \* result.status

shared == << rows, lock, lastWriter, committed, used >>
vars == << rows, lock, lastWriter, committed, used,
           pc, run, records, position, raised, bundle, verdict >>

\* The stages whose output the assessment reads.
Inputs == {"prices", "macro", "fundamentals", "earnings", "features", "portfolio"}

\* The two stages fed by the bundle.
Consumers == {"reports", "archive"}

RowStatus == {"running", "success", "partial", "failed"}
Row == [ status : RowStatus, scope : Portfolios, date : Dates,
         stages : [Stages -> StageStatus] ]

Run == [ row : Updates, scope : Portfolios, date : Dates, force : BOOLEAN,
         selected : SUBSET Stages, skip : SUBSET Stages, completed : SUBSET Stages ]

Bundle == [Inputs -> Updates \union {None, Command}]

\* No value is none of these.
ASSUME NoneAssumption == None \notin Row /\ None \notin Run /\ None \notin Bundle

ASSUME CommandedAssumption == Commanded \subseteq Inputs

Verdict == {"running", "success", "partial", "failed", "skipped", "dry-run"}

\* The places between acquiring and releasing the lock.
Critical == {"open", "stages", "finalize", "release"}
Ended == {"done", "crashed"}
Places == {"gate", "lock", "persist"} \union Critical \union Ended

-----------------------------------------------------------------------------

Init ==
    /\ rows = [u \in Updates |-> None]
    /\ lock = None
    /\ lastWriter = [s \in Inputs |-> None]
    /\ committed = {}
    /\ used = [r \in Updates |-> [c \in Consumers |-> None]]
    /\ pc = [u \in Updates |-> "gate"]
    /\ run = [u \in Updates |-> None]
    /\ records = [u \in Updates |-> NoRecords]
    /\ position = [u \in Updates |-> FirstPosition]
    /\ raised = [u \in Updates |-> 0]
    /\ bundle = [u \in Updates |-> None]
    /\ verdict = [u \in Updates |-> "running"]

\* The locals of run() are gone once the invocation has ended.
Forget(u) ==
    /\ run' = [run EXCEPT ![u] = None]
    /\ records' = [records EXCEPT ![u] = NoRecords]
    /\ position' = [position EXCEPT ![u] = FirstPosition]
    /\ raised' = [raised EXCEPT ![u] = 0]
    /\ bundle' = [bundle EXCEPT ![u] = None]

\* The invocation returns with the given status and no audit row of its own.
Return(u, status) ==
    /\ pc' = [pc EXCEPT ![u] = "done"]
    /\ verdict' = [verdict EXCEPT ![u] = status]
    /\ Forget(u)
    /\ UNCHANGED shared

\* A successful update of this portfolio and market date is on record.
AlreadyUpdated(scope, date) ==
    \E r \in Updates :
        /\ rows[r] # None
        /\ rows[r].status = "success"
        /\ rows[r].scope = scope
        /\ rows[r].date = date

\* Past the gate: the locals of run() are fixed and the lock is next.
Proceed(u, locals) ==
    /\ pc' = [pc EXCEPT ![u] = "lock"]
    /\ run' = [run EXCEPT ![u] = locals]
    /\ records' = [records EXCEPT ![u] = GateRecords]
    /\ UNCHANGED << shared, position, raised, bundle, verdict >>

-----------------------------------------------------------------------------
(* The gate.                                                               *)

\* Preflight or market-date resolution raises ConfigurationError (database
\* not migrated, empty calendar, no session on or before the date).
GateFails(u) == pc[u] = "gate" /\ Return(u, "failed")

\* --dry-run: the plan is shown and nothing is written.
PlanOnly(u) == pc[u] = "gate" /\ Return(u, "dry-run")

\* A fresh update for a portfolio and a resolved market date.
GateFresh(u) ==
    /\ pc[u] = "gate"
    /\ \E scope \in Portfolios, date \in Dates, force \in BOOLEAN :
       IF ~force /\ AlreadyUpdated(scope, date)
       THEN /\ Return(u, "skipped")
       ELSE \E w \in Windows, skip \in SkipSets :
               Proceed(u, [ row |-> u, scope |-> scope, date |-> date,
                            force |-> force,
                            selected |-> SelectedStages(w[1], w[2]),
                            skip |-> skip, completed |-> {} ])

\* Broken variant of GateResume: the date is resolved anew.
GateResumeToday(u) ==
    /\ pc[u] = "gate"
    /\ \E r \in Updates, today \in Dates :
       /\ rows[r] # None
       /\ rows[r].status # "success"
       /\ Proceed(u, [ row |-> r, scope |-> rows[r].scope, date |-> today,
                       force |-> FALSE, selected |-> Stages, skip |-> {},
                       completed |-> CompletedStages(rows[r].stages) ])

\* --resume: scope, date and completed stages come from the row's manifest.
GateResume(u) ==
    /\ pc[u] = "gate"
    /\ \E r \in Updates :
       /\ rows[r] # None
       /\ IF rows[r].status = "success"
          THEN Return(u, "failed")
          ELSE \E w \in Windows, skip \in SkipSets :
                  Proceed(u, [ row |-> r, scope |-> rows[r].scope,
                               date |-> rows[r].date, force |-> FALSE,
                               selected |-> SelectedStages(w[1], w[2]),
                               skip |-> skip,
                               completed |-> CompletedStages(rows[r].stages) ])

-----------------------------------------------------------------------------
(* The lock and the audit row.                                             *)

\* Broken variant of AcquireLock: the answer of pg_try_advisory_lock is ignored.
AcquireLockUnchecked(u) ==
    /\ pc[u] = "lock"
    /\ lock' = u
    /\ pc' = [pc EXCEPT ![u] = "open"]
    /\ UNCHANGED << rows, lastWriter, committed, used,
                    run, records, position, raised, bundle, verdict >>

\* pg_try_advisory_lock succeeds.
AcquireLock(u) ==
    /\ pc[u] = "lock"
    /\ lock = None
    /\ lock' = u
    /\ pc' = [pc EXCEPT ![u] = "open"]
    /\ UNCHANGED << rows, lastWriter, committed, used,
                    run, records, position, raised, bundle, verdict >>

\* The lock is still held at the deadline (0 seconds by default).
LockTimeout(u) ==
    /\ pc[u] = "lock"
    /\ lock # None
    /\ Return(u, "failed")

\* A new row, or the resumed row set running again: it keeps its manifest.
OpenedRow(u) ==
    IF run[u].row = u
    THEN [ status |-> "running", scope |-> run[u].scope,
           date |-> run[u].date, stages |-> NoRecords ]
    ELSE [ rows[run[u].row] EXCEPT !.status = "running" ]

\* Broken variant of OpenRun: the lock lives in the transaction that opens the
\* row (pg_advisory_xact_lock) and ends with it.
OpenRunDroppingLock(u) ==
    /\ pc[u] = "open"
    /\ rows' = [rows EXCEPT ![run[u].row] = OpenedRow(u)]
    /\ lock' = None
    /\ pc' = [pc EXCEPT ![u] = "stages"]
    /\ UNCHANGED << lastWriter, committed, used,
                    run, records, position, raised, bundle, verdict >>

\* The row is inserted or updated, in a transaction of its own.
OpenRun(u) ==
    /\ pc[u] = "open"
    /\ rows' = [rows EXCEPT ![run[u].row] = OpenedRow(u)]
    /\ pc' = [pc EXCEPT ![u] = "stages"]
    /\ UNCHANGED << lock, lastWriter, committed, used,
                    run, records, position, raised, bundle, verdict >>

-----------------------------------------------------------------------------
(* The stage engine.                                                       *)

CurrentStage(u) == STAGE_ORDER[position[u]]

CurrentDisposition(u) ==
    Disposition(CurrentStage(u), run[u].selected, run[u].skip,
                run[u].completed, records[u])

\* Invocation u's engine is at a stage of the given disposition.
AtStage(u) == pc[u] = "stages" /\ position[u] \in Positions

\* The engine records a status for its current stage and moves on.
Record(u, status) ==
    /\ records' = [records EXCEPT ![u][CurrentStage(u)] = status]
    /\ position' = [position EXCEPT ![u] = @ + 1]
    /\ raised' = [raised EXCEPT ![u] = 0]

\* Outside the window, skipped by flag, resumed, or blocked by a dependency.
PassOver(u) ==
    /\ AtStage(u)
    /\ CurrentDisposition(u) # "run"
    /\ Record(u, PassedOverStatus(CurrentDisposition(u)))
    /\ UNCHANGED << shared, pc, run, bundle, verdict >>

\* The stage body returns and its transaction commits.
StageReturns(u) ==
    /\ AtStage(u)
    /\ CurrentDisposition(u) = "run"
    /\ \E status \in ReturnedStatus(CurrentStage(u)) :
       LET s == CurrentStage(u)
       IN  /\ status = "success" \/ s \in Faulty
           /\ Record(u, status)
           /\ lastWriter' = IF s \in Inputs
                            THEN [lastWriter EXCEPT ![s] = u]
                            ELSE lastWriter
           /\ committed' = IF status \in Served
                           THEN committed \union {<<run[u].row, s>>}
                           ELSE committed
           /\ bundle' = IF s = "assess"
                        THEN [bundle EXCEPT ![u] = lastWriter]
                        ELSE bundle
           /\ used' = IF s \in Consumers
                      THEN [used EXCEPT ![run[u].row][s] = bundle[u]]
                      ELSE used
    /\ UNCHANGED << rows, lock, pc, run, verdict >>

\* Broken variants of StageRetries: the limit is not looked at, and a failed
\* attempt restarts the pipeline instead of the stage.
StageRetriesUnlimited(u) ==
    /\ AtStage(u)
    /\ CurrentDisposition(u) = "run"
    /\ CurrentStage(u) \in Faulty
    /\ raised' = [raised EXCEPT ![u] = @ + 1]
    /\ UNCHANGED << shared, pc, run, records, position, bundle, verdict >>

StageRetriesFromTheTop(u) ==
    /\ AtStage(u)
    /\ CurrentDisposition(u) = "run"
    /\ CurrentStage(u) \in Faulty
    /\ position' = [position EXCEPT ![u] = FirstPosition]
    /\ UNCHANGED << shared, pc, run, records, raised, bundle, verdict >>

\* The stage body raises and its transaction rolls back; it is tried again
\* while attempts <= stage_retry_limit.
StageRetries(u) ==
    /\ AtStage(u)
    /\ CurrentDisposition(u) = "run"
    /\ CurrentStage(u) \in Faulty
    /\ raised[u] < RetryLimit
    /\ raised' = [raised EXCEPT ![u] = @ + 1]
    /\ UNCHANGED << shared, pc, run, records, position, bundle, verdict >>

\* The last attempt raises: the stage has failed, the engine goes on.
StageFails(u) ==
    /\ AtStage(u)
    /\ CurrentDisposition(u) = "run"
    /\ CurrentStage(u) \in Faulty
    /\ raised[u] >= RetryLimit
    /\ Record(u, "failed")
    /\ UNCHANGED << shared, pc, run, bundle, verdict >>

EngineDone(u) ==
    /\ pc[u] = "stages"
    /\ position[u] \notin Positions
    /\ pc' = [pc EXCEPT ![u] = "finalize"]
    /\ UNCHANGED << shared, run, records, position, raised, bundle, verdict >>

-----------------------------------------------------------------------------
(* The end of a run.                                                       *)

Finalize(u) ==
    /\ pc[u] = "finalize"
    /\ verdict' = [verdict EXCEPT ![u] = FinalStatus(records[u])]
    /\ pc' = [pc EXCEPT ![u] = "release"]
    /\ UNCHANGED << shared, run, records, position, raised, bundle >>

ReleaseLock(u) ==
    /\ pc[u] = "release"
    /\ lock' = None
    /\ pc' = [pc EXCEPT ![u] = "persist"]
    /\ UNCHANGED << rows, lastWriter, committed, used,
                    run, records, position, raised, bundle, verdict >>

\* The manifest replaces the row's status and records, without the lock.
PersistManifest(u) ==
    /\ pc[u] = "persist"
    /\ rows' = [rows EXCEPT ![run[u].row] =
                  [ @ EXCEPT !.status = verdict[u], !.stages = records[u],
                             !.date = run[u].date ]]
    /\ pc' = [pc EXCEPT ![u] = "done"]
    /\ Forget(u)
    /\ UNCHANGED << lock, lastWriter, committed, used, verdict >>

\* Broken variant of Crash: the lock outlives its session.
CrashKeepingLock(u) ==
    /\ pc[u] \in {"lock", "persist"} \union Critical
    /\ pc' = [pc EXCEPT ![u] = "crashed"]
    /\ Forget(u)
    /\ UNCHANGED << rows, lock, lastWriter, committed, used, verdict >>

\* The process dies, or an exception other than ConfigurationError leaves
\* run(): the lock goes with the session, the audit row stays as it is.
Crash(u) ==
    /\ pc[u] \in {"lock", "persist"} \union Critical
    /\ pc' = [pc EXCEPT ![u] = "crashed"]
    /\ lock' = IF lock = u THEN None ELSE lock
    /\ Forget(u)
    /\ UNCHANGED << rows, lastWriter, committed, used, verdict >>

-----------------------------------------------------------------------------
(* Outside the updates.                                                    *)

\* A command does a data stage's work in a transaction of its own: neither the
\* lock nor the audit rows of updates are looked at.
CommandWrites(s) ==
    /\ lastWriter' = [lastWriter EXCEPT ![s] = Command]
    /\ UNCHANGED << rows, lock, committed, used,
                    pc, run, records, position, raised, bundle, verdict >>

-----------------------------------------------------------------------------

Gate(u) == GateFails(u) \/ PlanOnly(u) \/ GateFresh(u) \/ GateResume(u)

\* Every step an invocation takes on its own once it is past the gate.
Advance(u) ==
    \/ AcquireLock(u) \/ LockTimeout(u) \/ OpenRun(u)
    \/ PassOver(u) \/ StageReturns(u) \/ StageRetries(u) \/ StageFails(u)
    \/ EngineDone(u) \/ Finalize(u) \/ ReleaseLock(u) \/ PersistManifest(u)

Next ==
    \/ \E u \in Updates : Gate(u) \/ Advance(u) \/ Crash(u)
    \/ \E s \in Commanded : CommandWrites(s)

Spec == Init /\ [][Next]_vars

\* A started process is scheduled until it ends.
FairSpec == Spec /\ \A u \in Updates : WF_vars(Advance(u))

-----------------------------------------------------------------------------
(* Type invariant.                                                         *)

\* Every variable holds a value of its type.
TypeOK ==
    /\ rows \in [Updates -> Row \union {None}]
    /\ lock \in Updates \union {None}
    /\ lastWriter \in Bundle
    /\ committed \subseteq Updates \X Stages
    /\ used \in [Updates -> [Consumers -> Bundle \union {None}]]
    /\ pc \in [Updates -> Places]
    /\ run \in [Updates -> Run \union {None}]
    /\ records \in [Updates -> [Stages -> StageStatus]]
    /\ position \in [Updates -> FirstPosition .. 13]
    /\ raised \in [Updates -> 0 .. RetryLimit]
    /\ bundle \in [Updates -> Bundle \union {None}]
    /\ verdict \in [Updates -> Verdict]

-----------------------------------------------------------------------------
(* Safety.                                                                 *)

\* Between taking and giving up the lock an invocation is alone: no other
\* one opens a row, runs a stage or finalizes (UpdateLock).
MutualExclusion ==
    \A u, v \in Updates : pc[u] \in Critical /\ pc[v] \in Critical => u = v

\* "A stale lock cannot survive its connection": whoever the lock names is
\* alive and still inside its run, whatever crashed before.
NoStaleLock == lock # None => pc[lock] \in Critical

\* As long as an invocation works with the bundle its assessment left in
\* memory (orchestrator.py:643), no other invocation rewrites what the
\* assessment read, through crashes, time-outs and resumes.  What no lock keeps
\* out is a single-stage command: an input the bundle no longer agrees with was
\* last written by one.
OnlyCommandsOutdateBundle ==
    \A u \in Updates : pc[u] = "stages" /\ bundle[u] # None =>
        \A s \in Inputs : lastWriter[s] \in {bundle[u][s], Command}

\* `assert self._bundle is not None` in _reports and _archive never fires,
\* under no window, skip set or resumed manifest.
BundleIsReady ==
    \A u \in Updates :
        /\ AtStage(u)
        /\ CurrentStage(u) \in Consumers
        /\ CurrentDisposition(u) = "run"
        => bundle[u] # None

\* What an audit row says was served did commit on behalf of that row, in
\* the invocation that wrote the manifest or in one it resumed.
AuditIsTruthful ==
    \A r \in Updates : rows[r] # None =>
        \A s \in Stages \ GateStages :
            rows[r].stages[s] \in Served => <<r, s>> \in committed

\* A full-window update with nothing skipped cannot end "success" with a
\* stage left out: a blocked stage always has a failure to answer for it.
SuccessLeavesNothingOut ==
    \A u \in Updates :
        /\ pc[u] \in {"release", "persist"}
        /\ verdict[u] = "success"
        /\ run[u].selected = Stages
        /\ run[u].skip = {}
        => \A s \in Stages : records[u][s] = "success"

\* Whoever resumes a row, and whenever, the row keeps the portfolio and the
\* market date it was opened for, and no row is ever removed.
RowKeepsItsIdentity ==
    [][\A r \in Updates : rows[r] # None =>
          /\ rows'[r] # None
          /\ rows'[r].scope = rows[r].scope
          /\ rows'[r].date = rows[r].date]_rows

-----------------------------------------------------------------------------
(* Liveness.                                                               *)

\* An invocation that is past the gate returns or dies: it neither waits
\* for the lock forever nor retries a stage forever.
Terminates ==
    \A u \in Updates : pc[u] = "lock" ~> pc[u] \in Ended

-----------------------------------------------------------------------------
(* Refinement.                                                             *)

PhaseOf(u) ==
    IF pc[u] \in {"gate", "lock"} THEN "waiting"
    ELSE IF pc[u] \in Critical THEN "working"
    ELSE "gone"

\* The stages an invocation has served or taken over, while it works.
ServedBy(u) ==
    IF pc[u] \in Critical
    THEN { s \in Stages \ GateStages : records[u][s] \in Served }
    ELSE {}

Promise == INSTANCE ExclusiveUpdate
             WITH phase  <- [u \in Updates |-> PhaseOf(u)],
                  served <- [u \in Updates |-> ServedBy(u)],
                  data   <- lastWriter

\* The locked, retrying, crashing and resuming implementation keeps the
\* promise of ExclusiveUpdate: updates write one at a time, and each serves
\* its stages in dependency order.
RefinesExclusiveUpdate == Promise!Spec
=============================================================================
