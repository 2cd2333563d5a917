---------------------------- MODULE UpdateClaims ----------------------------
(***************************************************************************)
(* What the repository's texts say of `mip update` and the code does not   *)
(* do.  Each property is refuted by a run of its own; README.md tells the  *)
(* story of each counterexample.                                           *)
(***************************************************************************)
EXTENDS UpdateRun

\* docs/RUNBOOK.md:52: "It won't re-run a market date it already completed"
\* unless forced.  _already_updated is read before the lock is taken, and a
\* manifest is persisted after it is released.
NoRepeatedUpdate ==
    [][\A u \in Updates :
          OpenRun(u) /\ run[u].row = u /\ ~run[u].force
          => ~AlreadyUpdated(run[u].scope, run[u].date)]_vars

\* update/orchestrator.py:4-8: one assessment pass "feeds ... all reports,
\* and the prediction archive".  A resumed run takes its reports over from the
\* run it resumes and archives the predictions of a second pass, over data
\* another update may have rewritten in between.
ReportsMatchArchive ==
    \A u \in Updates :
        /\ AtStage(u)
        /\ CurrentStage(u) = "archive"
        /\ CurrentDisposition(u) = "run"
        /\ records[u]["reports"] = "success"
        => used[run[u].row]["reports"] = bundle[u]
=============================================================================
