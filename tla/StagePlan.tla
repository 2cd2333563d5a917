----------------------------- MODULE StagePlan -----------------------------
(***************************************************************************)
(* The stage graph of `mip update` (update/orchestrator.py): the order of  *)
(* the stages, which stage needs which, and how the orchestrator decides   *)
(* what to do with a stage and what the whole run amounts to.              *)
(*                                                                         *)
(* A stage record is abstracted to its status.  "absent" is a stage the    *)
(* manifest holds no record of.                                            *)
(***************************************************************************)
EXTENDS Naturals, Sequences

STAGE_ORDER == << "preflight", "market_date", "prices", "macro",
                  "fundamentals", "earnings", "features", "portfolio",
                  "assess", "reports", "archive", "evaluate" >>

Positions == 1 .. 12

\* The position of the first stage the stage engine runs (STAGE_ORDER[2:]).
FirstPosition == 3

Stages == { STAGE_ORDER[i] : i \in Positions }

\* Recorded before the audit row can exist; the stage engine never runs them.
GateStages == {"preflight", "market_date"}

IngestStages == {"prices", "macro", "fundamentals", "earnings"}

\* What each stage needs served before it runs.
DEPENDENCIES ==
    [ s \in Stages |->
        IF s \in {"features", "portfolio", "evaluate"} THEN {"prices"}
        ELSE IF s = "assess" THEN {"features", "portfolio"}
        ELSE IF s \in {"reports", "archive"} THEN {"assess"}
        ELSE {} ]

CRITICAL_STAGES == {"preflight", "prices", "features", "portfolio", "assess"}

\* The statuses that let dependents proceed: a partial stage served at least
\* the healthy symbols.
Served == {"success", "partial"}

StageStatus == {"absent", "success", "partial", "failed", "skipped"}

NoRecords == [ s \in Stages |-> "absent" ]

\* The records a result holds once preflight and the market date succeeded.
GateRecords == [ s \in Stages |-> IF s \in GateStages THEN "success" ELSE "absent" ]

-----------------------------------------------------------------------------

\* The window [first, last] of positions, which the two gate stages always join.
SelectedStages(first, last) ==
    GateStages \union { STAGE_ORDER[i] : i \in first .. last }

\* Broken variant of CompletedStages: whatever has not failed counts.
CompletedUnlessFailed(records) == { s \in Stages : records[s] \notin {"absent", "failed"} }

\* The stages a resumed run does not repeat.
CompletedStages(records) == { s \in Stages : records[s] = "success" }

\* Broken variant of NeedsBundle: only the reports are thought of.
NeedsBundleForReports(selected, skip, completed) ==
    "reports" \in (selected \ skip) \ completed

\* Reports or archive still to run: they need the in-memory bundle, so the
\* assessment runs again even if the resumed run had completed it.
NeedsBundle(selected, skip, completed) ==
    \E s \in {"reports", "archive"} : s \in (selected \ skip) \ completed

\* Broken variant of FailedDependency: a dependency that did not run at all
\* does not block.
DependencyFailed(records, s) == \E d \in DEPENDENCIES[s] : records[d] = "failed"

FailedDependency(records, s) == \E d \in DEPENDENCIES[s] : records[d] \notin Served

\* A completed stage is carried over, the assessment only while nobody needs
\* its bundle.
CarriedOver(s, selected, skip, completed) ==
    /\ s \in (selected \ skip) \intersect completed
    /\ s = "assess" => ~NeedsBundle(selected, skip, completed)

\* What the engine does with stage s when it reaches it: a stage outside the
\* window or skipped by flag is never looked at further.
Disposition(s, selected, skip, completed, records) ==
    IF s \notin selected \ skip THEN "left out"
    ELSE IF CarriedOver(s, selected, skip, completed) THEN "resumed"
    ELSE IF FailedDependency(records, s) THEN "blocked"
    ELSE "run"

\* The record left by a stage that is not run.
PassedOverStatus(disposition) ==
    IF disposition = "resumed" THEN "success" ELSE "skipped"

\* What a stage body that returns may report.  An ingestion stage reports the
\* status of its child run, a failed one included: only an exception is retried.
ReturnedStatus(s) ==
    IF s \in IngestStages THEN {"success", "partial", "failed"}
    ELSE IF s = "features" THEN {"success", "partial"}
    ELSE {"success"}

\* Broken variant of FinalStatus: only critical stages matter.
CriticalStatus(records) ==
    IF \E s \in CRITICAL_STAGES : records[s] = "failed" THEN "failed" ELSE "success"

\* The status of the run, from the records of its stages.
FinalStatus(records) ==
    LET failed == { s \in Stages : records[s] = "failed" }
    IN  IF failed \intersect CRITICAL_STAGES # {}
        THEN "failed"
        ELSE IF failed # {} \/ \E s \in Stages : records[s] = "partial"
             THEN "partial"
             ELSE "success"
=============================================================================
