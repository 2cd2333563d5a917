-------------------------- MODULE UpdateRunProofs --------------------------
(***************************************************************************)
(* Proofs about UpdateRun, for every set of invocations, portfolios and    *)
(* dates, every window and skip set, every set of unreliable stages and    *)
(* every retry limit: types and the lock, the bundle, then what the audit  *)
(* rows say, what a run has recorded when it ends, and that the whole      *)
(* implements ExclusiveUpdate.                                             *)
(***************************************************************************)
EXTENDS UpdateRun, TLAPS

\* Where an invocation has passed its gate and has not ended.
Active == {"lock", "persist"} \union Critical

\* Beside its type, each invocation's state agrees with its place in run():
\* its locals are fixed while it is active, its own row does not exist before
\* it is opened, and the row it works on exists from then on.
LocalsOK ==
    \A u \in Updates :
        /\ pc[u] \in Active => run[u] \in Run
        /\ pc[u] \in {"gate", "lock", "open"} => rows[u] = None
        /\ pc[u] \in Active =>
             \/ rows[run[u].row] # None
             \/ run[u].row = u /\ pc[u] \in {"lock", "open"}
        /\ pc[u] \in {"release", "persist"} => verdict[u] \in RowStatus

TypeInv == TypeOK /\ LocalsOK

-----------------------------------------------------------------------------
(* The stage graph.                                                        *)

\* The order names twelve stages.
LEMMA StageNames ==
    /\ Stages = { "preflight", "market_date", "prices", "macro",
                  "fundamentals", "earnings", "features", "portfolio",
                  "assess", "reports", "archive", "evaluate" }
    /\ \A i \in Positions : STAGE_ORDER[i] \in Stages
<1>1. Positions = {1, 2, 3, 4, 5, 6, 7, 8, 9, 10, 11, 12}
  BY SMT DEF Positions
<1>2. QED
  BY <1>1, SMT DEF Stages, STAGE_ORDER

\* A window selects stages.
LEMMA SelectionIsStages ==
    ASSUME NEW w \in Positions \X Positions
    PROVE  SelectedStages(w[1], w[2]) \subseteq Stages
<1>1. \A i \in w[1] .. w[2] : i \in Positions
  BY DEF Positions
<1>2. QED
  BY <1>1, StageNames DEF SelectedStages, GateStages

\* What the engine records is a stage status, what the run amounts to is the
\* status of a row.
LEMMA StatusTypes ==
    /\ \A d : PassedOverStatus(d) \in StageStatus
    /\ \A s : ReturnedStatus(s) \subseteq StageStatus
    /\ \A r : FinalStatus(r) \in RowStatus
BY DEF PassedOverStatus, ReturnedStatus, FinalStatus, StageStatus, RowStatus

-----------------------------------------------------------------------------
(* Type correctness.                                                       *)

LEMMA InitTypes == Init => TypeInv
BY UpdatesAssumption, StageNames, RetryAssumption
   DEF Init, TypeInv, TypeOK, LocalsOK, Active, Critical, Ended, Places, Bundle,
       Inputs, Consumers, NoRecords, StageStatus, FirstPosition, Verdict

\* An invocation that returns without a row touches nothing it shares.
LEMMA ReturnTypes ==
    ASSUME TypeInv, NEW u \in Updates, NEW status \in Verdict, Return(u, status)
    PROVE  TypeInv'
<1>1. TypeOK'
  BY RetryAssumption DEF TypeInv, TypeOK, Return, Forget, shared, NoRecords, StageStatus,
         FirstPosition, Places, Ended
<1>2. LocalsOK'
  BY DEF TypeInv, TypeOK, LocalsOK, Return, Forget, shared, Active, Critical
<1>. QED
  BY <1>1, <1>2 DEF TypeInv

\* Past the gate, with locals that suit the row to work on.
LEMMA ProceedTypes ==
    ASSUME TypeInv, NEW u \in Updates, pc[u] = "gate", NEW l \in Run,
           l.row = u \/ rows[l.row] # None,
           Proceed(u, l)
    PROVE  TypeInv'
<1>1. TypeOK'
  BY DEF TypeInv, TypeOK, Proceed, shared, GateRecords, GateStages, StageStatus, Places
<1>2. LocalsOK'
  BY DEF TypeInv, TypeOK, LocalsOK, Proceed, shared, Active, Critical
<1>. QED
  BY <1>1, <1>2 DEF TypeInv

LEMMA GateTypes ==
    ASSUME TypeInv, NEW u \in Updates, Gate(u)
    PROVE  TypeInv'
<1>1. CASE GateFails(u)
  BY <1>1, ReturnTypes DEF GateFails, Verdict
<1>2. CASE PlanOnly(u)
  BY <1>2, ReturnTypes DEF PlanOnly, Verdict
<1>3. CASE GateFresh(u)
  <2>1. PICK scope \in Portfolios, date \in Dates, force \in BOOLEAN :
          IF ~force /\ AlreadyUpdated(scope, date)
          THEN Return(u, "skipped")
          ELSE \E w \in Windows, skip \in SkipSets :
                  Proceed(u, [ row |-> u, scope |-> scope, date |-> date,
                               force |-> force,
                               selected |-> SelectedStages(w[1], w[2]),
                               skip |-> skip, completed |-> {} ])
    BY <1>3 DEF GateFresh
  <2>2. CASE Return(u, "skipped")
    BY <2>2, ReturnTypes DEF Verdict
  <2>3. ASSUME NEW w \in Windows, NEW skip \in SkipSets,
               Proceed(u, [ row |-> u, scope |-> scope, date |-> date,
                            force |-> force,
                            selected |-> SelectedStages(w[1], w[2]),
                            skip |-> skip, completed |-> {} ])
        PROVE  TypeInv'
    <3> DEFINE l == [ row |-> u, scope |-> scope, date |-> date, force |-> force,
                      selected |-> SelectedStages(w[1], w[2]),
                      skip |-> skip, completed |-> {} ]
    <3>1. l \in Run
      BY SelectionIsStages, WindowAssumption, SkipAssumption DEF Run
    <3>2. l.row = u
      OBVIOUS
    <3>3. Proceed(u, l)
      BY <2>3
    <3> HIDE DEF l
    <3>. QED
      BY <1>3, <3>1, <3>2, <3>3, ProceedTypes DEF GateFresh
  <2>. QED
    BY <2>1, <2>2, <2>3
<1>4. CASE GateResume(u)
  <2>1. PICK r \in Updates :
          /\ rows[r] # None
          /\ IF rows[r].status = "success"
             THEN Return(u, "failed")
             ELSE \E w \in Windows, skip \in SkipSets :
                     Proceed(u, [ row |-> r, scope |-> rows[r].scope,
                                  date |-> rows[r].date, force |-> FALSE,
                                  selected |-> SelectedStages(w[1], w[2]),
                                  skip |-> skip,
                                  completed |-> CompletedStages(rows[r].stages) ])
    BY <1>4 DEF GateResume
  <2>2. CASE Return(u, "failed")
    BY <2>2, ReturnTypes DEF Verdict
  <2>3. ASSUME NEW w \in Windows, NEW skip \in SkipSets,
               Proceed(u, [ row |-> r, scope |-> rows[r].scope,
                            date |-> rows[r].date, force |-> FALSE,
                            selected |-> SelectedStages(w[1], w[2]),
                            skip |-> skip,
                            completed |-> CompletedStages(rows[r].stages) ])
        PROVE  TypeInv'
    <3> DEFINE l == [ row |-> r, scope |-> rows[r].scope,
                      date |-> rows[r].date, force |-> FALSE,
                      selected |-> SelectedStages(w[1], w[2]), skip |-> skip,
                      completed |-> CompletedStages(rows[r].stages) ]
    <3>1. rows[r] \in Row
      BY <2>1 DEF TypeInv, TypeOK
    <3>2. l \in Run
      BY <3>1, SelectionIsStages, WindowAssumption, SkipAssumption
         DEF Run, Row, CompletedStages
    <3>3. rows[l.row] # None
      BY <2>1
    <3>4. Proceed(u, l)
      BY <2>3
    <3> HIDE DEF l
    <3>. QED
      BY <1>4, <3>2, <3>3, <3>4, ProceedTypes DEF GateResume
  <2>. QED
    BY <2>1, <2>2, <2>3
<1>. QED
  BY <1>1, <1>2, <1>3, <1>4 DEF Gate

\* What an active invocation works with.
LEMMA AtWork ==
    ASSUME TypeInv, NEW u \in Updates, pc[u] \in Active
    PROVE  /\ run[u] \in Run
           /\ run[u].row \in Updates
           /\ pc[u] \notin {"lock", "open"} \/ run[u].row # u => rows[run[u].row] \in Row
           /\ pc[u] \in {"stages", "finalize", "release", "persist"} => rows[u] \in Row \/ run[u].row # u
BY DEF TypeInv, TypeOK, LocalsOK, Run

LEMMA LockTypes ==
    ASSUME TypeInv, NEW u \in Updates, AcquireLock(u) \/ LockTimeout(u) \/ ReleaseLock(u)
    PROVE  TypeInv'
<1>1. CASE AcquireLock(u)
  <2>1. TypeOK'
    BY <1>1 DEF TypeInv, TypeOK, AcquireLock, Places, Critical
  <2>2. LocalsOK'
    BY <1>1 DEF TypeInv, TypeOK, LocalsOK, AcquireLock, Active, Critical
  <2>. QED
    BY <2>1, <2>2 DEF TypeInv
<1>2. CASE LockTimeout(u)
  BY <1>2, ReturnTypes DEF LockTimeout, Verdict
<1>3. CASE ReleaseLock(u)
  <2>1. TypeOK'
    BY <1>3 DEF TypeInv, TypeOK, ReleaseLock, Places, Critical
  <2>2. LocalsOK'
    BY <1>3 DEF TypeInv, TypeOK, LocalsOK, ReleaseLock, Active, Critical
  <2>. QED
    BY <2>1, <2>2 DEF TypeInv
<1>. QED
  BY <1>1, <1>2, <1>3

LEMMA OpenRunTypes ==
    ASSUME TypeInv, NEW u \in Updates, OpenRun(u)
    PROVE  TypeInv'
<1>1. /\ pc[u] = "open"
      /\ run[u] \in Run
      /\ run[u].row # u => rows[run[u].row] \in Row
  BY AtWork DEF OpenRun, Active, Critical
<1>2. OpenedRow(u) \in Row
  <2>1. CASE run[u].row = u
    BY <1>1, <2>1 DEF OpenedRow, Run, Row, RowStatus, NoRecords, StageStatus
  <2>2. CASE run[u].row # u
    BY <1>1, <2>2 DEF OpenedRow, Row, RowStatus
  <2>. QED
    BY <2>1, <2>2
<1>3. TypeOK'
  BY <1>1, <1>2 DEF TypeInv, TypeOK, OpenRun, Run, Places, Critical
<1>4. /\ rows'[run[u].row] # None
      /\ \A v \in Updates : v # run[u].row => rows'[v] = rows[v]
  BY <1>1, <1>2, NoneAssumption DEF TypeInv, TypeOK, OpenRun, Run
<1>5. LocalsOK'
  BY <1>1, <1>3, <1>4 DEF TypeInv, TypeOK, LocalsOK, OpenRun, Active, Critical, Run
<1>. QED
  BY <1>3, <1>5 DEF TypeInv

\* The stage an engine looks at is a stage, and the next position is one too.
LEMMA AtStageTypes ==
    ASSUME TypeInv, NEW u \in Updates, AtStage(u)
    PROVE  /\ pc[u] = "stages"
           /\ CurrentStage(u) \in Stages
           /\ run[u] \in Run
           /\ position[u] \in FirstPosition .. 12
           /\ position[u] + 1 \in FirstPosition .. 13
BY AtWork, StageNames
   DEF AtStage, CurrentStage, TypeInv, TypeOK, Positions, FirstPosition, Active, Critical

LEMMA RecordTypes ==
    ASSUME TypeInv, NEW u \in Updates, AtStage(u), NEW status \in StageStatus,
           Record(u, status)
    PROVE  /\ records' \in [Updates -> [Stages -> StageStatus]]
           /\ position' \in [Updates -> FirstPosition .. 13]
           /\ raised' \in [Updates -> 0 .. RetryLimit]
BY AtStageTypes, RetryAssumption DEF Record, TypeInv, TypeOK

LEMMA EngineTypes ==
    ASSUME TypeInv, NEW u \in Updates,
           PassOver(u) \/ StageReturns(u) \/ StageRetries(u) \/ StageFails(u)
    PROVE  TypeInv'
<1>0. AtStage(u)
  BY DEF PassOver, StageReturns, StageRetries, StageFails
<1>1. CASE PassOver(u)
  <2>1. TypeOK'
    BY <1>0, <1>1, StatusTypes, RecordTypes DEF PassOver, TypeInv, TypeOK, shared
  <2>2. LocalsOK'
    BY <1>1 DEF PassOver, TypeInv, LocalsOK, shared
  <2>. QED
    BY <2>1, <2>2 DEF TypeInv
<1>2. CASE StageReturns(u)
  <2>1. PICK status \in ReturnedStatus(CurrentStage(u)) :
          /\ Record(u, status)
          /\ lastWriter' = IF CurrentStage(u) \in Inputs
                           THEN [lastWriter EXCEPT ![CurrentStage(u)] = u]
                           ELSE lastWriter
          /\ committed' = IF status \in Served
                          THEN committed \union {<<run[u].row, CurrentStage(u)>>}
                          ELSE committed
          /\ bundle' = IF CurrentStage(u) = "assess"
                       THEN [bundle EXCEPT ![u] = lastWriter]
                       ELSE bundle
          /\ used' = IF CurrentStage(u) \in Consumers
                     THEN [used EXCEPT ![run[u].row][CurrentStage(u)] = bundle[u]]
                     ELSE used
          /\ UNCHANGED << rows, lock, pc, run, verdict >>
    BY <1>2 DEF StageReturns
  <2>2. status \in StageStatus
    BY StatusTypes
  <2>3. run[u].row \in Updates /\ CurrentStage(u) \in Stages
    BY <1>0, AtStageTypes DEF Run
  <2>4. lastWriter' \in Bundle
    BY <2>1 DEF TypeInv, TypeOK, Bundle
  <2>5. committed' \subseteq Updates \X Stages
    BY <2>1, <2>3 DEF TypeInv, TypeOK
  <2>6. bundle' \in [Updates -> Bundle \union {None}]
    BY <2>1 DEF TypeInv, TypeOK
  <2>7. used' \in [Updates -> [Consumers -> Bundle \union {None}]]
    <3>1. bundle[u] \in Bundle \union {None}
      BY DEF TypeInv, TypeOK
    <3>2. CASE CurrentStage(u) \notin Consumers
      BY <2>1, <3>2 DEF TypeInv, TypeOK
    <3>3. CASE CurrentStage(u) \in Consumers
      BY <2>1, <2>3, <3>1, <3>3 DEF TypeInv, TypeOK
    <3>. QED
      BY <3>2, <3>3
  <2>8. TypeOK'
    BY <1>0, <2>1, <2>2, <2>4, <2>5, <2>6, <2>7, RecordTypes DEF TypeInv, TypeOK
  <2>9. LocalsOK'
    BY <2>1 DEF TypeInv, LocalsOK
  <2>. QED
    BY <2>8, <2>9 DEF TypeInv
<1>3. CASE StageRetries(u)
  <2>1. TypeOK'
    BY <1>3, RetryAssumption DEF StageRetries, TypeInv, TypeOK, shared
  <2>2. LocalsOK'
    BY <1>3 DEF StageRetries, TypeInv, LocalsOK, shared
  <2>. QED
    BY <2>1, <2>2 DEF TypeInv
<1>4. CASE StageFails(u)
  <2>1. TypeOK'
    BY <1>0, <1>4, RecordTypes DEF StageFails, TypeInv, TypeOK, shared, StageStatus
  <2>2. LocalsOK'
    BY <1>4 DEF StageFails, TypeInv, LocalsOK, shared
  <2>. QED
    BY <2>1, <2>2 DEF TypeInv
<1>. QED
  BY <1>1, <1>2, <1>3, <1>4

LEMMA ClosingTypes ==
    ASSUME TypeInv, NEW u \in Updates,
           EngineDone(u) \/ Finalize(u) \/ PersistManifest(u) \/ Crash(u)
    PROVE  TypeInv'
<1>1. CASE EngineDone(u)
  <2>1. TypeOK'
    BY <1>1 DEF EngineDone, TypeInv, TypeOK, shared, Places, Critical
  <2>2. LocalsOK'
    BY <1>1 DEF EngineDone, TypeInv, TypeOK, LocalsOK, shared, Active, Critical
  <2>. QED
    BY <2>1, <2>2 DEF TypeInv
<1>2. CASE Finalize(u)
  <2>0. FinalStatus(records[u]) \in RowStatus
    BY StatusTypes
  <2>1. TypeOK'
    BY <1>2, <2>0 DEF Finalize, TypeInv, TypeOK, shared, Places, Critical, Verdict, RowStatus
  <2>2. LocalsOK'
    BY <1>2, <2>0 DEF Finalize, TypeInv, TypeOK, LocalsOK, shared, Active, Critical
  <2>. QED
    BY <2>1, <2>2 DEF TypeInv
<1>3. CASE PersistManifest(u)
  <2> DEFINE r == run[u].row
             row == [ rows[r] EXCEPT !.status = verdict[u], !.stages = records[u],
                                     !.date = run[u].date ]
  <2>1. r \in Updates /\ rows[r] \in Row /\ run[u] \in Run
    BY <1>3, AtWork DEF PersistManifest, Active
  <2>2. row \in Row
    BY <1>3, <2>1 DEF PersistManifest, TypeInv, TypeOK, LocalsOK, Row, Run
  <2>3. rows' = [rows EXCEPT ![r] = row]
    BY <1>3 DEF PersistManifest
  <2> HIDE DEF row
  <2>4. TypeOK'
    BY <1>3, <2>1, <2>2, <2>3, RetryAssumption
       DEF PersistManifest, Forget, TypeInv, TypeOK, Places, Ended, NoRecords,
           StageStatus, FirstPosition
  <2>5. /\ rows[r] # None /\ rows'[r] # None
        /\ \A v \in Updates : v # r => rows'[v] = rows[v]
    BY <2>1, <2>2, <2>3, NoneAssumption DEF TypeInv, TypeOK
  <2>6. \A v \in Updates :
          IF v = u THEN pc'[v] = "done"
          ELSE pc'[v] = pc[v] /\ run'[v] = run[v] /\ verdict'[v] = verdict[v]
    BY <1>3 DEF PersistManifest, Forget, TypeInv, TypeOK
  <2>7. \A v \in Updates : rows[v] # None => rows'[v] # None
    BY <2>5
  <2>8. \A v \in Updates : pc[v] \in {"gate", "lock", "open"} => rows'[v] = None
    BY <2>1, <2>5 DEF TypeInv, LocalsOK
  <2>9. LocalsOK'
    BY <2>6, <2>7, <2>8 DEF TypeInv, LocalsOK, Active, Critical, Run
  <2>. QED
    BY <2>4, <2>9 DEF TypeInv
<1>4. CASE Crash(u)
  <2>1. TypeOK'
    BY <1>4, RetryAssumption
       DEF Crash, Forget, TypeInv, TypeOK, Places, Ended, NoRecords, StageStatus,
           FirstPosition
  <2>2. LocalsOK'
    BY <1>4 DEF Crash, Forget, TypeInv, TypeOK, LocalsOK, Active, Critical
  <2>. QED
    BY <2>1, <2>2 DEF TypeInv
<1>. QED
  BY <1>1, <1>2, <1>3, <1>4

LEMMA NextTypes == TypeInv /\ [Next]_vars => TypeInv'
<1>1. ASSUME TypeInv, NEW u \in Updates, Gate(u) \/ Advance(u) \/ Crash(u)
      PROVE  TypeInv'
  BY <1>1, GateTypes, LockTypes, OpenRunTypes, EngineTypes, ClosingTypes DEF Advance
<1>2. ASSUME TypeInv, NEW s \in Commanded, CommandWrites(s)
      PROVE  TypeInv'
  <2>1. lastWriter' \in Bundle
    BY <1>2 DEF CommandWrites, TypeInv, TypeOK, Bundle
  <2>2. TypeOK'
    BY <1>2, <2>1 DEF CommandWrites, TypeInv, TypeOK
  <2>3. LocalsOK'
    BY <1>2 DEF CommandWrites, TypeInv, LocalsOK
  <2>. QED
    BY <2>2, <2>3 DEF TypeInv
<1>3. TypeInv /\ UNCHANGED vars => TypeInv'
  BY DEF TypeInv, TypeOK, LocalsOK, vars
<1>. QED
  BY <1>1, <1>2, <1>3 DEF Next

LEMMA TypeInvariance == Spec => []TypeInv
BY InitTypes, NextTypes, PTL DEF Spec

\* Every variable holds a value of its type, in every reachable state.
THEOREM TypeCorrect == Spec => []TypeOK
<1>1. TypeInv => TypeOK
  BY DEF TypeInv
<1>. QED
  BY <1>1, TypeInvariance, PTL

-----------------------------------------------------------------------------
(* The lock.                                                               *)

\* The holder of the lock is the invocation between taking and giving it up.
LockDiscipline == \A u \in Updates : lock = u <=> pc[u] \in Critical

LockInv == TypeOK /\ LockDiscipline

\* A step moves one invocation, and takes the lock with it when that one
\* enters or leaves the places the lock protects.
LEMMA LockSteps ==
    ASSUME TypeOK, NEW u \in Updates, Gate(u) \/ Advance(u) \/ Crash(u)
    PROVE  /\ \A v \in Updates \ {u} : pc'[v] = pc[v]
           /\ \/ pc[u] \notin Critical /\ pc'[u] \notin Critical /\ lock' = lock
              \/ pc[u] \in Critical /\ pc'[u] \in Critical /\ lock' = lock
              \/ pc[u] \notin Critical /\ pc'[u] \in Critical /\ lock = None /\ lock' = u
              \/ pc[u] \in Critical /\ pc'[u] \notin Critical /\ lock' = None
              \/ Crash(u)
<1>1. CASE Gate(u)
  BY <1>1 DEF TypeOK, Gate, GateFails, PlanOnly, GateFresh, GateResume, Return,
              Proceed, shared, Critical
<1>2. CASE AcquireLock(u) \/ LockTimeout(u) \/ ReleaseLock(u) \/ PersistManifest(u)
  BY <1>2 DEF TypeOK, AcquireLock, LockTimeout, ReleaseLock, PersistManifest, Return,
              shared, Critical
<1>3. CASE OpenRun(u) \/ EngineDone(u) \/ Finalize(u)
  BY <1>3 DEF TypeOK, OpenRun, EngineDone, Finalize, shared, Critical
<1>4. CASE PassOver(u) \/ StageReturns(u) \/ StageRetries(u) \/ StageFails(u)
  BY <1>4 DEF TypeOK, PassOver, StageReturns, StageRetries, StageFails, AtStage,
              shared, Critical
<1>5. CASE Crash(u)
  BY <1>5 DEF TypeOK, Crash
<1>. QED
  BY <1>1, <1>2, <1>3, <1>4, <1>5 DEF Advance

LEMMA LockStep == LockInv /\ TypeOK' /\ [Next]_vars => LockInv'
<1>1. ASSUME LockInv, NEW u \in Updates, Gate(u) \/ Advance(u) \/ Crash(u)
      PROVE  LockDiscipline'
  <2>1. CASE Crash(u)
    BY <1>1, <2>1, UpdatesAssumption DEF Crash, LockInv, LockDiscipline, TypeOK, Critical
  <2>2. CASE ~Crash(u)
    BY <1>1, <2>2, LockSteps, UpdatesAssumption DEF LockInv, LockDiscipline
  <2>. QED
    BY <2>1, <2>2
<1>2. LockInv /\ (UNCHANGED vars \/ \E s \in Commanded : CommandWrites(s)) => LockDiscipline'
  BY DEF LockInv, LockDiscipline, CommandWrites, vars
<1>. QED
  BY <1>1, <1>2 DEF LockInv, Next

LEMMA LockInvariance == Spec => []LockInv
<1>1. Init /\ TypeOK => LockInv
  BY UpdatesAssumption DEF Init, LockInv, LockDiscipline, Critical
<1>. QED
  BY <1>1, LockStep, TypeCorrect, PTL DEF Spec

\* Invocations open rows, run stages and finalize one at a time, however many
\* there are and however many of them crash.
THEOREM Exclusion == Spec => []MutualExclusion
<1>1. LockInv => MutualExclusion
  BY DEF LockInv, LockDiscipline, MutualExclusion
<1>. QED
  BY <1>1, LockInvariance, PTL

\* The lock never names an invocation that has ended or crashed.
THEOREM LockIsLive == Spec => []NoStaleLock
<1>1. LockInv => NoStaleLock
  BY DEF LockInv, LockDiscipline, NoStaleLock, TypeOK
<1>. QED
  BY <1>1, LockInvariance, PTL


-----------------------------------------------------------------------------
(* The bundle.                                                             *)

\* Where the stages stand in the order.
LEMMA StageOrder ==
    ASSUME NEW i \in Positions
    PROVE  /\ STAGE_ORDER[i] = "assess" <=> i = 9
           /\ STAGE_ORDER[i] \in Inputs => i < 9
           /\ STAGE_ORDER[i] \in Consumers => i > 9
           /\ STAGE_ORDER[i] \in GateStages <=> i < FirstPosition
           /\ \A j \in Positions : STAGE_ORDER[i] = STAGE_ORDER[j] => i = j
<1>1. i \in {1, 2, 3, 4, 5, 6, 7, 8, 9, 10, 11, 12}
  BY SMT DEF Positions
<1>2. \A j \in Positions : j \in {1, 2, 3, 4, 5, 6, 7, 8, 9, 10, 11, 12}
  BY SMT DEF Positions
<1>3. /\ STAGE_ORDER[i] = "assess" <=> i = 9
      /\ STAGE_ORDER[i] \in Inputs => i < 9
      /\ STAGE_ORDER[i] \in Consumers => i > 9
      /\ STAGE_ORDER[i] \in GateStages <=> i < FirstPosition
  BY <1>1 DEF STAGE_ORDER, Inputs, Consumers, GateStages, FirstPosition
<1>4. \A j \in Positions : STAGE_ORDER[i] = STAGE_ORDER[j] => i = j
  BY <1>1, <1>2 DEF STAGE_ORDER
<1>. QED
  BY <1>3, <1>4

\* What StageReturns leaves behind.
LEMMA StageReturnsEffect ==
    ASSUME NEW u \in Updates, StageReturns(u)
    PROVE  \E status \in ReturnedStatus(CurrentStage(u)) :
             /\ Record(u, status)
             /\ lastWriter' = IF CurrentStage(u) \in Inputs
                              THEN [lastWriter EXCEPT ![CurrentStage(u)] = u]
                              ELSE lastWriter
             /\ committed' = IF status \in Served
                             THEN committed \union {<<run[u].row, CurrentStage(u)>>}
                             ELSE committed
             /\ bundle' = IF CurrentStage(u) = "assess"
                          THEN [bundle EXCEPT ![u] = lastWriter]
                          ELSE bundle
             /\ AtStage(u) /\ CurrentDisposition(u) = "run"
             /\ UNCHANGED << rows, lock, pc, run, verdict >>
BY DEF StageReturns

\* The bundle agrees with the database but for what commands have rewritten.
UpToCommands(b) == \A s \in Inputs : lastWriter[s] \in {b[s], Command}

\* There is no bundle before the stages, and once there is one the engine is
\* past every stage that writes what the assessment reads.
BundleOK ==
    \A u \in Updates :
        /\ pc[u] \in {"gate", "lock", "open"} => bundle[u] = None
        /\ pc[u] = "stages" /\ bundle[u] # None =>
             position[u] > 9 /\ UpToCommands(bundle[u])

BundleInv == LockInv /\ BundleOK

LEMMA BundleStep == TypeInv /\ BundleInv /\ LockInv' /\ [Next]_vars => BundleInv'
<1> SUFFICES ASSUME TypeInv, BundleInv, LockInv', [Next]_vars
             PROVE  BundleOK'
  BY DEF BundleInv
<1>. USE DEF BundleInv, LockInv, UpToCommands
<1>1. ASSUME NEW u \in Updates, Gate(u)
      PROVE  BundleOK'
  <2>1. CASE GateFails(u)
    BY <2>1 DEF GateFails, Return, Forget, shared, BundleOK, TypeOK
  <2>2. CASE PlanOnly(u)
    BY <2>2 DEF PlanOnly, Return, Forget, shared, BundleOK, TypeOK
  <2>3. CASE GateFresh(u)
    BY <2>3 DEF GateFresh, Return, Forget, Proceed, shared, BundleOK, TypeOK
  <2>4. CASE GateResume(u)
    BY <2>4 DEF GateResume, Return, Forget, Proceed, shared, BundleOK, TypeOK
  <2>5. QED
    BY <1>1, <2>1, <2>2, <2>3, <2>4 DEF Gate
<1>2. ASSUME NEW u \in Updates, LockTimeout(u) \/ PersistManifest(u) \/ Crash(u)
      PROVE  BundleOK'
  <2>1. CASE LockTimeout(u)
    BY <2>1 DEF LockTimeout, Return, Forget, shared, BundleOK, TypeOK
  <2>2. CASE PersistManifest(u)
    BY <2>2 DEF PersistManifest, Return, Forget, shared, BundleOK, TypeOK
  <2>3. CASE Crash(u)
    BY <2>3 DEF Crash, Return, Forget, shared, BundleOK, TypeOK
  <2>4. QED
    BY <1>2, <2>1, <2>2, <2>3
<1>3. ASSUME NEW u \in Updates,
             \/ AcquireLock(u) \/ OpenRun(u) \/ EngineDone(u)
             \/ Finalize(u) \/ ReleaseLock(u)
      PROVE  BundleOK'
  BY <1>3 DEF AcquireLock, OpenRun, EngineDone, Finalize, ReleaseLock, shared,
              BundleOK, TypeOK
<1>4. ASSUME NEW u \in Updates, PassOver(u) \/ StageRetries(u) \/ StageFails(u)
      PROVE  BundleOK'
  <2>1. position' = position \/ position' = [position EXCEPT ![u] = @ + 1]
    BY <1>4 DEF PassOver, StageRetries, StageFails, Record
  <2>2. UNCHANGED << pc, bundle, lastWriter >>
    BY <1>4 DEF PassOver, StageRetries, StageFails, shared
  <2>3. ASSUME NEW v \in Updates, position[v] > 9
        PROVE  position'[v] > 9
    <3>1. position[v] \in FirstPosition .. 13
      BY DEF TypeOK
    <3>2. position'[v] = position[v] \/ position'[v] = position[v] + 1
      BY <2>1 DEF TypeOK
    <3>. QED
      BY <2>3, <3>1, <3>2 DEF FirstPosition
  <2>. QED
    BY <2>2, <2>3 DEF BundleOK, UpToCommands
<1>5. ASSUME NEW u \in Updates, StageReturns(u)
      PROVE  BundleOK'
  <2> DEFINE s == CurrentStage(u)
  <2>1. /\ position' = [position EXCEPT ![u] = @ + 1]
        /\ lastWriter' = IF s \in Inputs THEN [lastWriter EXCEPT ![s] = u] ELSE lastWriter
        /\ bundle' = IF s = "assess" THEN [bundle EXCEPT ![u] = lastWriter] ELSE bundle
        /\ pc' = pc /\ pc[u] = "stages" /\ position[u] \in Positions
    BY <1>5, StageReturnsEffect DEF Record, AtStage
  <2>2. /\ s = "assess" <=> position[u] = 9
        /\ s \in Inputs => position[u] < 9
    BY <2>1, StageOrder DEF CurrentStage
  <2>3. \A v \in Updates \ {u} : pc[v] # "stages"
    BY <2>1 DEF LockDiscipline, Critical
  <2>4. lastWriter' = lastWriter \/ bundle[u] = None
    BY <2>1, <2>2 DEF BundleOK, Positions
  <2>5. ASSUME bundle'[u] # None
        PROVE  position'[u] > 9 /\ UpToCommands(bundle[u])'
    <3>1. CASE s = "assess"
      BY <2>1, <2>2, <3>1 DEF UpToCommands, Inputs, TypeOK, Positions
    <3>2. CASE s # "assess"
      BY <2>1, <2>4, <2>5, <3>2 DEF BundleOK, UpToCommands, TypeOK, Positions
    <3>. QED
      BY <3>1, <3>2
  <2>6. \A v \in Updates \ {u} : bundle'[v] = bundle[v]
    BY <2>1 DEF TypeOK
  <2>. QED
    BY <2>1, <2>3, <2>5, <2>6 DEF BundleOK
<1>6. UNCHANGED vars => BundleOK'
  BY DEF BundleOK, UpToCommands, vars
<1>7. ASSUME NEW s \in Commanded, CommandWrites(s)
      PROVE  BundleOK'
  <2>1. ASSUME NEW b, UpToCommands(b)
        PROVE  \A i \in Inputs : lastWriter'[i] \in {b[i], Command}
    BY <1>7, <2>1, CommandedAssumption DEF CommandWrites, UpToCommands, TypeOK, Bundle
  <2>. QED
    BY <1>7, <2>1 DEF CommandWrites, BundleOK, UpToCommands
<1>. QED
  BY <1>1, <1>2, <1>3, <1>4, <1>5, <1>6, <1>7 DEF Next, Advance

\* The reports and the archive never work from an assessment of data that
\* another invocation has since rewritten: where the data have moved on, a
\* command run outside the lock has moved them.
THEOREM BundleOutlivesUpdates == Spec => []OnlyCommandsOutdateBundle
<1>1. Init /\ LockInv => BundleInv
  BY DEF Init, BundleInv, BundleOK
<1>2. BundleInv => OnlyCommandsOutdateBundle
  BY DEF BundleInv, BundleOK, UpToCommands, OnlyCommandsOutdateBundle
<1>. QED
  BY <1>1, <1>2, BundleStep, LockInvariance, TypeInvariance, PTL DEF Spec


-----------------------------------------------------------------------------
(* The audit row.                                                          *)

\* What a row's manifest, or the memory of the invocation that will write it,
\* says was served has committed on behalf of the row; and an invocation works
\* for the portfolio and the date its row was opened with.
ManifestOK ==
    \A r \in Updates : rows[r] # None =>
        \A s \in Stages \ GateStages : rows[r].stages[s] \in Served => <<r, s>> \in committed

RecordsOK ==
    \A u \in Updates : pc[u] \in Active =>
        \A s \in Stages \ GateStages :
            records[u][s] \in Served \/ s \in run[u].completed
            => <<run[u].row, s>> \in committed

IdentityOK ==
    \A u \in Updates : pc[u] \in Active /\ rows[run[u].row] # None =>
        run[u].scope = rows[run[u].row].scope /\ run[u].date = rows[run[u].row].date

AuditInv == ManifestOK /\ RecordsOK /\ IdentityOK

LEMMA AuditProceed ==
    ASSUME TypeInv, AuditInv, NEW u \in Updates, NEW l \in Run, Proceed(u, l),
           \A s \in Stages \ GateStages : s \in l.completed => <<l.row, s>> \in committed,
           rows[l.row] # None => l.scope = rows[l.row].scope /\ l.date = rows[l.row].date
    PROVE  AuditInv'
<1>1. /\ rows' = rows /\ committed' = committed
      /\ run' = [run EXCEPT ![u] = l]
      /\ records' = [records EXCEPT ![u] = GateRecords]
      /\ \A v \in Updates \ {u} : pc'[v] = pc[v]
  BY DEF Proceed, shared, TypeInv, TypeOK
<1>2. ManifestOK'
  BY <1>1 DEF AuditInv, ManifestOK
<1>3. \A s \in Stages \ GateStages : GateRecords[s] \notin Served
  BY DEF GateRecords, Served
<1>4. \A v \in Updates : IF v = u THEN run'[v] = l /\ records'[v] = GateRecords
                                  ELSE run'[v] = run[v] /\ records'[v] = records[v]
  BY <1>1 DEF TypeInv, TypeOK
<1>5. RecordsOK'
  BY <1>1, <1>3, <1>4 DEF AuditInv, RecordsOK
<1>6. IdentityOK'
  BY <1>1, <1>4 DEF AuditInv, IdentityOK
<1>. QED
  BY <1>2, <1>5, <1>6 DEF AuditInv

\* An invocation that ends without writing leaves nothing to answer for.
LEMMA AuditEnds ==
    ASSUME TypeInv, AuditInv, NEW u \in Updates,
           UNCHANGED << rows, committed >>, Forget(u),
           pc' = [pc EXCEPT ![u] = "done"] \/ pc' = [pc EXCEPT ![u] = "crashed"]
    PROVE  AuditInv'
<1>1. \A v \in Updates : IF v = u THEN pc'[v] \notin Active
                         ELSE pc'[v] = pc[v] /\ run'[v] = run[v] /\ records'[v] = records[v]
  BY DEF Forget, TypeInv, TypeOK, Active, Critical
<1>. QED
  BY <1>1 DEF AuditInv, ManifestOK, RecordsOK, IdentityOK

LEMMA AuditGate ==
    ASSUME TypeInv, AuditInv, NEW u \in Updates, Gate(u)
    PROVE  AuditInv'
<1>1. ASSUME NEW status, Return(u, status)
      PROVE  AuditInv'
  BY <1>1, AuditEnds DEF Return, shared
<1>2. CASE GateFails(u) \/ PlanOnly(u)
  BY <1>1, <1>2 DEF GateFails, PlanOnly
<1>3. ASSUME NEW scope \in Portfolios, NEW date \in Dates, NEW force \in BOOLEAN,
             NEW w \in Windows, NEW skip \in SkipSets,
             pc[u] = "gate",
             Proceed(u, [ row |-> u, scope |-> scope, date |-> date,
                          force |-> force, selected |-> SelectedStages(w[1], w[2]),
                          skip |-> skip, completed |-> {} ])
      PROVE  AuditInv'
  <2> DEFINE l == [ row |-> u, scope |-> scope, date |-> date, force |-> force,
                    selected |-> SelectedStages(w[1], w[2]),
                    skip |-> skip, completed |-> {} ]
  <2>1. l \in Run
    BY SelectionIsStages, WindowAssumption, SkipAssumption DEF Run
  <2>2. l.row = u /\ l.completed = {} /\ rows[u] = None
    BY <1>3 DEF TypeInv, LocalsOK
  <2>3. Proceed(u, l)
    BY <1>3
  <2> HIDE DEF l
  <2>. QED
    BY <2>1, <2>2, <2>3, AuditProceed
<1>4. ASSUME NEW r \in Updates, rows[r] # None,
             NEW w \in Windows, NEW skip \in SkipSets,
             Proceed(u, [ row |-> r, scope |-> rows[r].scope,
                          date |-> rows[r].date, force |-> FALSE,
                          selected |-> SelectedStages(w[1], w[2]), skip |-> skip,
                          completed |-> CompletedStages(rows[r].stages) ])
      PROVE  AuditInv'
  <2> DEFINE l == [ row |-> r, scope |-> rows[r].scope,
                    date |-> rows[r].date, force |-> FALSE,
                    selected |-> SelectedStages(w[1], w[2]), skip |-> skip,
                    completed |-> CompletedStages(rows[r].stages) ]
  <2>1. rows[r] \in Row
    BY <1>4 DEF TypeInv, TypeOK
  <2>2. l \in Run
    BY <2>1, SelectionIsStages, WindowAssumption, SkipAssumption
       DEF Run, Row, CompletedStages
  <2>3. /\ l.row = r /\ l.scope = rows[r].scope /\ l.date = rows[r].date
        /\ l.completed = CompletedStages(rows[r].stages)
    OBVIOUS
  <2>4. Proceed(u, l)
    BY <1>4
  <2> HIDE DEF l
  <2>5. \A s \in Stages \ GateStages : s \in l.completed => <<l.row, s>> \in committed
    BY <1>4, <2>3 DEF AuditInv, ManifestOK, CompletedStages, Served
  <2>. QED
    BY <2>2, <2>3, <2>4, <2>5, AuditProceed
<1>5. CASE GateFresh(u)
  BY <1>1, <1>3, <1>5 DEF GateFresh
<1>6. CASE GateResume(u)
  BY <1>1, <1>4, <1>6 DEF GateResume
<1>. QED
  BY <1>2, <1>5, <1>6 DEF Gate


\* The engine's steps: a record of a stage served goes with its commit.
LEMMA AuditEngine ==
    ASSUME TypeInv, AuditInv, NEW u \in Updates, AtStage(u),
           NEW status \in StageStatus, Record(u, status),
           UNCHANGED << rows, pc, run >>,
           committed \subseteq committed',
           status \in Served => <<run[u].row, CurrentStage(u)>> \in committed'
    PROVE  AuditInv'
<1>1. ManifestOK'
  BY DEF AuditInv, ManifestOK
<1>2. \A v \in Updates \ {u} : records'[v] = records[v]
  BY DEF Record, TypeInv, TypeOK
<1>3. \A s \in Stages : records'[u][s] = IF s = CurrentStage(u) THEN status ELSE records[u][s]
  BY AtStageTypes DEF Record, TypeInv, TypeOK
<1>4. RecordsOK'
  BY <1>2, <1>3 DEF AuditInv, RecordsOK
<1>5. IdentityOK'
  BY DEF AuditInv, IdentityOK
<1>. QED
  BY <1>1, <1>4, <1>5 DEF AuditInv

\* Steps that only move an invocation on.
LEMMA AuditMoves ==
    ASSUME TypeInv, AuditInv, NEW u \in Updates,
           UNCHANGED << rows, committed, run, records >>,
           \A v \in Updates : pc'[v] \in Active => pc[v] \in Active
    PROVE  AuditInv'
BY DEF AuditInv, ManifestOK, RecordsOK, IdentityOK

LEMMA AuditOpens ==
    ASSUME TypeInv, AuditInv, NEW u \in Updates, OpenRun(u)
    PROVE  AuditInv'
<1> DEFINE r == run[u].row
<1>1. /\ pc[u] = "open" /\ run[u] \in Run /\ r \in Updates
      /\ r # u => rows[r] \in Row
      /\ r = u => rows[r] = None
  BY AtWork DEF OpenRun, Active, Critical, TypeInv, LocalsOK
<1>2. /\ rows' = [rows EXCEPT ![r] = OpenedRow(u)]
      /\ UNCHANGED << committed, run, records >>
      /\ \A v \in Updates : pc'[v] \in Active => pc[v] \in Active
  BY DEF OpenRun, TypeInv, TypeOK, Active, Critical
<1>3. /\ OpenedRow(u).scope = run[u].scope /\ OpenedRow(u).date = run[u].date
      /\ \A s \in Stages \ GateStages :
           OpenedRow(u).stages[s] \in Served => <<r, s>> \in committed
  <2>1. CASE r = u
    BY <2>1 DEF OpenedRow, NoRecords, Served
  <2>2. CASE r # u
    <3>1. rows[r] # None
      BY <1>1, <2>2, NoneAssumption
    <3>2. run[u].scope = rows[r].scope /\ run[u].date = rows[r].date
      BY <1>1, <3>1 DEF AuditInv, IdentityOK, Active, Critical
    <3>3. /\ OpenedRow(u).scope = rows[r].scope /\ OpenedRow(u).date = rows[r].date
          /\ OpenedRow(u).stages = rows[r].stages
      BY <1>1, <2>2 DEF OpenedRow, Row
    <3>. QED
      BY <1>1, <3>1, <3>2, <3>3 DEF AuditInv, ManifestOK
  <2>. QED
    BY <2>1, <2>2
<1>4. rows'[r] = OpenedRow(u) /\ \A v \in Updates \ {r} : rows'[v] = rows[v]
  BY <1>1, <1>2 DEF TypeInv, TypeOK
<1>5. ManifestOK'
  BY <1>2, <1>3, <1>4 DEF AuditInv, ManifestOK
<1>6. RecordsOK'
  BY <1>2 DEF AuditInv, RecordsOK
<1>7. IdentityOK'
  <2> SUFFICES ASSUME NEW v \in Updates, pc[v] \in Active, rows'[run[v].row] # None
               PROVE  /\ run[v].scope = rows'[run[v].row].scope
                      /\ run[v].date = rows'[run[v].row].date
    BY <1>2 DEF IdentityOK
  <2>1. run[v].row \in Updates
    BY AtWork
  <2>2. CASE run[v].row # r
    BY <1>4, <2>1, <2>2 DEF AuditInv, IdentityOK
  <2>3. CASE v = u
    BY <1>3, <1>4, <2>3
  <2>4. CASE run[v].row = r /\ v # u
    <3>1. rows[r] # None
      BY <1>1, <2>4, NoneAssumption DEF TypeInv, LocalsOK
    <3>2. r # u
      BY <1>1, <3>1
    <3>3. /\ run[v].scope = rows[r].scope /\ run[v].date = rows[r].date
          /\ OpenedRow(u).scope = rows[r].scope /\ OpenedRow(u).date = rows[r].date
      BY <1>1, <2>4, <3>1, <3>2 DEF AuditInv, IdentityOK, OpenedRow, Row
    <3>. QED
      BY <1>4, <2>4, <3>3
  <2>. QED
    BY <2>2, <2>3, <2>4
<1>. QED
  BY <1>5, <1>6, <1>7 DEF AuditInv


LEMMA AuditPersists ==
    ASSUME TypeInv, AuditInv, NEW u \in Updates, PersistManifest(u)
    PROVE  AuditInv'
<1> DEFINE r == run[u].row
           row == [ rows[r] EXCEPT !.status = verdict[u], !.stages = records[u],
                                   !.date = run[u].date ]
<1>1. r \in Updates /\ rows[r] \in Row /\ pc[u] \in Active /\ rows[r] # None
  BY AtWork, NoneAssumption DEF PersistManifest, Active
<1>2. row.scope = rows[r].scope /\ row.date = run[u].date /\ row.stages = records[u]
  BY <1>1 DEF Row
<1>3. run[u].date = rows[r].date
  BY <1>1 DEF AuditInv, IdentityOK
<1>4. /\ rows' = [rows EXCEPT ![r] = row] /\ committed' = committed
      /\ pc' = [pc EXCEPT ![u] = "done"] /\ Forget(u)
  BY DEF PersistManifest
<1> HIDE DEF row
<1>5. rows'[r] = row /\ \A v \in Updates \ {r} : rows'[v] = rows[v]
  BY <1>1, <1>4 DEF TypeInv, TypeOK
<1>6. \A v \in Updates : IF v = u THEN pc'[v] \notin Active
                         ELSE pc'[v] = pc[v] /\ run'[v] = run[v] /\ records'[v] = records[v]
  BY <1>4 DEF Forget, TypeInv, TypeOK, Active, Critical
<1>7. ManifestOK'
  BY <1>1, <1>2, <1>4, <1>5 DEF AuditInv, ManifestOK, RecordsOK
<1>8. RecordsOK'
  BY <1>4, <1>6 DEF AuditInv, RecordsOK
<1>9. IdentityOK'
  <2> SUFFICES ASSUME NEW v \in Updates \ {u}, pc[v] \in Active, rows'[run[v].row] # None
               PROVE  /\ run[v].scope = rows'[run[v].row].scope
                      /\ run[v].date = rows'[run[v].row].date
    BY <1>6 DEF IdentityOK
  <2>1. run[v].row \in Updates
    BY AtWork
  <2>2. CASE run[v].row # r
    BY <1>5, <2>1, <2>2 DEF AuditInv, IdentityOK
  <2>3. CASE run[v].row = r
    BY <1>1, <1>2, <1>3, <1>5, <2>3 DEF AuditInv, IdentityOK
  <2>. QED
    BY <2>2, <2>3
<1>. QED
  BY <1>7, <1>8, <1>9 DEF AuditInv

LEMMA AuditStep == TypeInv /\ AuditInv /\ [Next]_vars => AuditInv'
<1> SUFFICES ASSUME TypeInv, AuditInv, [Next]_vars
             PROVE  AuditInv'
  OBVIOUS
<1>1. ASSUME NEW u \in Updates, LockTimeout(u) \/ Crash(u)
      PROVE  AuditInv'
  BY <1>1, AuditEnds DEF LockTimeout, Crash, Return, shared
<1>2. ASSUME NEW u \in Updates,
             AcquireLock(u) \/ EngineDone(u) \/ Finalize(u) \/ ReleaseLock(u) \/ StageRetries(u)
      PROVE  AuditInv'
  <2>1. UNCHANGED << rows, committed, run, records >>
    BY <1>2 DEF AcquireLock, EngineDone, Finalize, ReleaseLock, StageRetries, shared
  <2>2. \A v \in Updates : pc'[v] \in Active => pc[v] \in Active
    BY <1>2 DEF AcquireLock, EngineDone, Finalize, ReleaseLock, StageRetries, AtStage,
                TypeInv, TypeOK, Active, Critical
  <2>. QED
    BY <2>1, <2>2, AuditMoves
<1>3. ASSUME NEW u \in Updates, PassOver(u)
      PROVE  AuditInv'
  <2> DEFINE status == PassedOverStatus(CurrentDisposition(u))
  <2>1. AtStage(u) /\ Record(u, status) /\ UNCHANGED << rows, committed, pc, run >>
    BY <1>3 DEF PassOver, shared
  <2>2. ASSUME status \in Served, CurrentStage(u) \notin GateStages
        PROVE  <<run[u].row, CurrentStage(u)>> \in committed
    <3>1. CurrentDisposition(u) = "resumed"
      BY <2>2 DEF PassedOverStatus, Served
    <3>2. CurrentStage(u) \in run[u].completed
      BY <3>1 DEF CurrentDisposition, Disposition, CarriedOver
    <3>. QED
      BY <2>1, <2>2, <3>2, AtStageTypes DEF AuditInv, RecordsOK, Active, Critical
  <2>3. CurrentStage(u) \notin GateStages
    BY <2>1, StageOrder, AtStageTypes DEF AtStage, CurrentStage, FirstPosition
  <2>4. status \in StageStatus
    BY StatusTypes
  <2> HIDE DEF status
  <2>. QED
    BY <2>1, <2>2, <2>3, <2>4, AuditEngine
<1>4. ASSUME NEW u \in Updates, StageReturns(u)
      PROVE  AuditInv'
  <2>1. PICK status \in ReturnedStatus(CurrentStage(u)) :
          /\ AtStage(u) /\ Record(u, status) /\ UNCHANGED << rows, pc, run >>
          /\ committed' = IF status \in Served
                          THEN committed \union {<<run[u].row, CurrentStage(u)>>}
                          ELSE committed
    BY <1>4, StageReturnsEffect
  <2>2. status \in StageStatus
    BY StatusTypes
  <2>. QED
    BY <2>1, <2>2, AuditEngine
<1>5. ASSUME NEW u \in Updates, StageFails(u)
      PROVE  AuditInv'
  <2>1. AtStage(u) /\ Record(u, "failed") /\ UNCHANGED << rows, committed, pc, run >>
    BY <1>5 DEF StageFails, shared
  <2>. QED
    BY <2>1, AuditEngine DEF Served, StageStatus
<1>6. UNCHANGED vars \/ (\E s \in Commanded : CommandWrites(s)) => AuditInv'
  BY DEF AuditInv, ManifestOK, RecordsOK, IdentityOK, CommandWrites, vars
<1>. QED
  BY <1>1, <1>2, <1>3, <1>4, <1>5, <1>6, AuditGate, AuditOpens, AuditPersists
     DEF Next, Advance

LEMMA AuditInvariance == Spec => []AuditInv
<1>1. Init => AuditInv
  BY DEF Init, AuditInv, ManifestOK, RecordsOK, IdentityOK, Active, Critical
<1>. QED
  BY <1>1, AuditStep, TypeInvariance, PTL DEF Spec

\* No manifest claims a stage that never committed for its row, through any
\* chain of crashed and resumed invocations.
THEOREM AuditTruth == Spec => []AuditIsTruthful
<1>1. AuditInv => AuditIsTruthful
  BY DEF AuditInv, ManifestOK, AuditIsTruthful
<1>. QED
  BY <1>1, AuditInvariance, PTL

\* A row is never removed, nor moved to another portfolio or market date.
THEOREM RowIdentity == Spec => RowKeepsItsIdentity
<1>1. ASSUME TypeInv, AuditInv, [Next]_vars, NEW r \in Updates, rows[r] # None
      PROVE  /\ rows'[r] # None
             /\ rows'[r].scope = rows[r].scope
             /\ rows'[r].date = rows[r].date
  <2>1. CASE rows' = rows
    BY <1>1, <2>1
  <2>2. ASSUME NEW u \in Updates, OpenRun(u)
        PROVE  /\ rows'[r] # None
               /\ rows'[r].scope = rows[r].scope
               /\ rows'[r].date = rows[r].date
    <3>1. /\ pc[u] = "open" /\ run[u].row \in Updates /\ rows[u] = None
          /\ rows' = [rows EXCEPT ![run[u].row] = OpenedRow(u)]
      BY <1>1, <2>2, AtWork DEF OpenRun, TypeInv, LocalsOK, Active, Critical
    <3>2. CASE run[u].row # r
      BY <1>1, <3>1, <3>2 DEF TypeInv, TypeOK
    <3>3. CASE run[u].row = r
      <4>1. r # u /\ rows[r] \in Row
        BY <1>1, <3>1 DEF TypeInv, TypeOK
      <4>2. rows'[r] = [rows[r] EXCEPT !.status = "running"]
        BY <1>1, <3>1, <3>3, <4>1 DEF OpenedRow, TypeInv, TypeOK
      <4>3. rows'[r] \in Row
        BY <4>1, <4>2 DEF Row, RowStatus
      <4>. QED
        BY <4>1, <4>2, <4>3, NoneAssumption DEF Row
    <3>. QED
      BY <3>2, <3>3
  <2>3. ASSUME NEW u \in Updates, PersistManifest(u)
        PROVE  /\ rows'[r] # None
               /\ rows'[r].scope = rows[r].scope
               /\ rows'[r].date = rows[r].date
    <3>1. /\ pc[u] = "persist" /\ run[u].row \in Updates /\ run[u] \in Run
          /\ rows'[run[u].row] = [ rows[run[u].row] EXCEPT
               !.status = verdict[u], !.stages = records[u], !.date = run[u].date ]
          /\ \A v \in Updates \ {run[u].row} : rows'[v] = rows[v]
      BY <1>1, <2>3, AtWork DEF PersistManifest, TypeInv, TypeOK, Active
    <3>2. CASE run[u].row # r
      BY <1>1, <3>1, <3>2
    <3>3. CASE run[u].row = r
      <4>1. rows[r] \in Row /\ run[u].date = rows[r].date
        BY <1>1, <3>1, <3>3 DEF TypeInv, TypeOK, AuditInv, IdentityOK, Active
      <4>2. rows'[r].scope = rows[r].scope /\ rows'[r].date = rows[r].date
        BY <3>1, <3>3, <4>1 DEF Row
      <4>3. verdict[u] \in RowStatus /\ records[u] \in [Stages -> StageStatus]
        BY <1>1, <3>1 DEF TypeInv, TypeOK, LocalsOK
      <4>4. rows'[r] \in Row
        BY <3>1, <3>3, <4>1, <4>3 DEF Row, Run
      <4>. QED
        BY <4>2, <4>4, NoneAssumption
    <3>. QED
      BY <3>2, <3>3
  <2>4. ASSUME NEW u \in Updates, Gate(u) \/ LockTimeout(u) \/ Crash(u)
        PROVE  rows' = rows
    BY <2>4 DEF Gate, GateFails, PlanOnly, GateFresh, GateResume, LockTimeout, Crash,
                Return, Proceed, shared
  <2>5. ASSUME NEW u \in Updates,
               AcquireLock(u) \/ EngineDone(u) \/ Finalize(u) \/ ReleaseLock(u)
        PROVE  rows' = rows
    BY <2>5 DEF AcquireLock, EngineDone, Finalize, ReleaseLock, shared
  <2>6. ASSUME NEW u \in Updates,
               PassOver(u) \/ StageReturns(u) \/ StageRetries(u) \/ StageFails(u)
        PROVE  rows' = rows
    BY <2>6 DEF PassOver, StageReturns, StageRetries, StageFails, shared
  <2>7. ASSUME NEW s \in Commanded, CommandWrites(s)
        PROVE  rows' = rows
    BY <2>7 DEF CommandWrites
  <2>. QED
    BY <1>1, <2>1, <2>2, <2>3, <2>4, <2>5, <2>6, <2>7 DEF Next, Advance, vars
<1>2. TypeInv /\ AuditInv /\ [Next]_vars =>
        [\A r \in Updates : rows[r] # None =>
            /\ rows'[r] # None
            /\ rows'[r].scope = rows[r].scope
            /\ rows'[r].date = rows[r].date]_rows
  BY <1>1
<1>. QED
  BY <1>2, TypeInvariance, AuditInvariance, PTL DEF Spec, RowKeepsItsIdentity


-----------------------------------------------------------------------------
(* The progress of a run.                                                  *)

\* The whole pipeline is asked for.
Full(u) == run[u].selected = Stages /\ run[u].skip = {}

\* The engine has recorded the stages it has passed and no other.
ProgressOf(u) ==
    /\ \A i \in Positions :
         records[u][STAGE_ORDER[i]] = "absent" <=> i >= position[u]
    /\ pc[u] \in {"lock", "open"} => position[u] = FirstPosition
    /\ pc[u] \in {"finalize", "release", "persist"} => position[u] = 13

\* In a full run a stage is skipped for a failure, and the verdict is that of
\* the records.
SkipsOf(u) ==
    /\ Full(u) => \A s \in Stages : records[u][s] = "skipped" =>
                      \E d \in Stages : records[u][d] = "failed"
    /\ pc[u] \in {"release", "persist"} => verdict[u] = FinalStatus(records[u])

\* An assessment that was served and not merely carried over left its bundle.
ReadyOf(u) ==
    records[u]["assess"] \in Served =>
        \/ bundle[u] # None
        \/ CarriedOver("assess", run[u].selected, run[u].skip, run[u].completed)

ProgressInv ==
    \A u \in Updates :
        /\ pc[u] = "gate" => position[u] = FirstPosition
        /\ pc[u] \in Active => ProgressOf(u) /\ SkipsOf(u) /\ ReadyOf(u)

\* What a stage depends on comes before it.
LEMMA DependenciesComeFirst ==
    ASSUME NEW i \in Positions, NEW d \in DEPENDENCIES[STAGE_ORDER[i]]
    PROVE  \E j \in Positions : j < i /\ d = STAGE_ORDER[j] /\ d \in Stages \ GateStages
<1>1. STAGE_ORDER[i] \in Stages
  BY StageNames
<1>2. i \in {1, 2, 3, 4, 5, 6, 7, 8, 9, 10, 11, 12}
  BY SMT DEF Positions
<1>3. /\ d = "prices" => i > 3
      /\ d = "features" => i > 7
      /\ d = "portfolio" => i > 8
      /\ d = "assess" => i > 9
      /\ d \in {"prices", "features", "portfolio", "assess"}
  BY <1>1, <1>2 DEF DEPENDENCIES, STAGE_ORDER
<1>4. /\ STAGE_ORDER[3] = "prices" /\ STAGE_ORDER[7] = "features"
      /\ STAGE_ORDER[8] = "portfolio" /\ STAGE_ORDER[9] = "assess"
      /\ 3 \in Positions /\ 7 \in Positions /\ 8 \in Positions /\ 9 \in Positions
  BY SMT DEF STAGE_ORDER, Positions
<1>5. {"prices", "features", "portfolio", "assess"} \subseteq Stages \ GateStages
  BY StageNames DEF GateStages
<1>. QED
  BY <1>3, <1>4, <1>5

\* Every stage has a position.
LEMMA StagePositions == \A s \in Stages : \E i \in Positions : s = STAGE_ORDER[i]
BY DEF Stages

\* Steps that record nothing.
LEMMA ProgressMoves ==
    ASSUME TypeInv, ProgressInv, NEW u \in Updates,
           UNCHANGED << run, records, position, bundle, verdict >>,
           \A v \in Updates \ {u} : pc'[v] = pc[v],
           pc[u] \in Active, pc'[u] # "gate",
           pc'[u] \in {"lock", "open"} => pc[u] \in {"lock", "open"},
           pc'[u] \in {"finalize", "release", "persist"} => position[u] = 13,
           pc'[u] \in {"release", "persist"} => pc[u] \in {"release", "persist"}
    PROVE  ProgressInv'
<1> SUFFICES ASSUME NEW v \in Updates
             PROVE  /\ pc'[v] = "gate" => position'[v] = FirstPosition
                    /\ pc'[v] \in Active => ProgressOf(v)' /\ SkipsOf(v)' /\ ReadyOf(v)'
  BY DEF ProgressInv
<1>1. CASE v # u
  BY <1>1 DEF ProgressInv, ProgressOf, SkipsOf, ReadyOf, Full
<1>2. CASE v = u
  <2>1. ProgressOf(u) /\ SkipsOf(u) /\ ReadyOf(u)
    BY DEF ProgressInv
  <2>. QED
    BY <1>2, <2>1 DEF ProgressOf, SkipsOf, ReadyOf, Full
<1>. QED
  BY <1>1, <1>2

\* Steps after which an invocation is over.
LEMMA ProgressEnds ==
    ASSUME TypeInv, ProgressInv, NEW u \in Updates, Forget(u),
           verdict' = verdict \/ \E x : verdict' = [verdict EXCEPT ![u] = x],
           pc' = [pc EXCEPT ![u] = "done"] \/ pc' = [pc EXCEPT ![u] = "crashed"]
    PROVE  ProgressInv'
<1> SUFFICES ASSUME NEW v \in Updates
             PROVE  /\ pc'[v] = "gate" => position'[v] = FirstPosition
                    /\ pc'[v] \in Active => ProgressOf(v)' /\ SkipsOf(v)' /\ ReadyOf(v)'
  BY DEF ProgressInv
<1>1. CASE v = u
  BY <1>1 DEF TypeInv, TypeOK, Active, Critical
<1>2. CASE v # u
  <2>1. /\ pc'[v] = pc[v] /\ run'[v] = run[v] /\ records'[v] = records[v]
        /\ position'[v] = position[v] /\ bundle'[v] = bundle[v] /\ verdict'[v] = verdict[v]
    BY <1>2 DEF Forget, TypeInv, TypeOK
  <2>. QED
    BY <2>1 DEF ProgressInv, ProgressOf, SkipsOf, ReadyOf, Full
<1>. QED
  BY <1>1, <1>2

LEMMA ProgressGate ==
    ASSUME TypeInv, ProgressInv, NEW u \in Updates, Gate(u)
    PROVE  ProgressInv'
<1>1. ASSUME NEW status, Return(u, status)
      PROVE  ProgressInv'
  BY <1>1, ProgressEnds DEF Return
<1>2. ASSUME pc[u] = "gate", NEW l, Proceed(u, l)
      PROVE  ProgressInv'
  <2> SUFFICES ASSUME NEW v \in Updates
               PROVE  /\ pc'[v] = "gate" => position'[v] = FirstPosition
                      /\ pc'[v] \in Active => ProgressOf(v)' /\ SkipsOf(v)' /\ ReadyOf(v)'
    BY DEF ProgressInv
  <2>1. CASE v # u
    <3>1. /\ pc'[v] = pc[v] /\ run'[v] = run[v] /\ records'[v] = records[v]
          /\ position'[v] = position[v] /\ bundle'[v] = bundle[v] /\ verdict'[v] = verdict[v]
      BY <1>2, <2>1 DEF Proceed, TypeInv, TypeOK
    <3>. QED
      BY <3>1 DEF ProgressInv, ProgressOf, SkipsOf, ReadyOf, Full
  <2>2. CASE v = u
    <3>1. /\ pc'[u] = "lock" /\ records'[u] = GateRecords /\ position'[u] = FirstPosition
      BY <1>2 DEF Proceed, ProgressInv, TypeInv, TypeOK
    <3>2. ProgressOf(u)'
      BY <3>1, StageOrder, StageNames
         DEF ProgressOf, GateRecords, Positions, FirstPosition
    <3>3. SkipsOf(u)' /\ ReadyOf(u)'
      BY <3>1, StageNames DEF SkipsOf, ReadyOf, GateRecords, GateStages, Served
    <3>. QED
      BY <2>2, <3>1, <3>2, <3>3
  <2>. QED
    BY <2>1, <2>2
<1>3. CASE GateFails(u) \/ PlanOnly(u)
  BY <1>1, <1>3 DEF GateFails, PlanOnly
<1>4. CASE GateFresh(u)
  BY <1>1, <1>2, <1>4 DEF GateFresh
<1>5. CASE GateResume(u)
  BY <1>1, <1>2, <1>5 DEF GateResume
<1>. QED
  BY <1>3, <1>4, <1>5 DEF Gate


\* The engine records a status, for a reason if it is "skipped", and leaves a
\* bundle if it served the assessment.
LEMMA ProgressRecords ==
    ASSUME TypeInv, ProgressInv, NEW u \in Updates, AtStage(u),
           NEW status \in StageStatus \ {"absent"}, Record(u, status),
           UNCHANGED << pc, run, verdict >>,
           status = "skipped" /\ Full(u) => \E d \in Stages : records[u][d] = "failed",
           \A v \in Updates : v # u \/ position[u] # 9 => bundle'[v] = bundle[v],
           position[u] = 9 /\ status \in Served =>
              \/ bundle'[u] # None
              \/ CarriedOver("assess", run[u].selected, run[u].skip, run[u].completed)
    PROVE  ProgressInv'
<1>1. /\ pc[u] = "stages" /\ position[u] \in Positions /\ position[u] + 1 \in FirstPosition .. 13
      /\ pc[u] \in Active /\ CurrentStage(u) \in Stages
      /\ position'[u] = position[u] + 1
      /\ \A s \in Stages : records'[u][s] = IF s = CurrentStage(u) THEN status ELSE records[u][s]
      /\ \A v \in Updates \ {u} : records'[v] = records[v] /\ position'[v] = position[v]
  BY AtStageTypes DEF AtStage, Record, TypeInv, TypeOK, Active, Critical
<1>2. ProgressOf(u) /\ SkipsOf(u) /\ ReadyOf(u)
  BY <1>1 DEF ProgressInv
<1>3. \A i \in Positions : STAGE_ORDER[i] = CurrentStage(u) <=> i = position[u]
  BY <1>1, StageOrder DEF CurrentStage
<1>4. ProgressOf(u)'
  <2>1. ASSUME NEW i \in Positions
        PROVE  records'[u][STAGE_ORDER[i]] = "absent" <=> i >= position'[u]
    <3>1. STAGE_ORDER[i] \in Stages
      BY StageNames
    <3>2. CASE i = position[u]
      BY <1>1, <1>3, <3>1, <3>2 DEF Positions
    <3>3. CASE i # position[u]
      <4>1. records'[u][STAGE_ORDER[i]] = records[u][STAGE_ORDER[i]]
        BY <1>1, <1>3, <3>1, <3>3
      <4>2. i >= position[u] <=> i >= position[u] + 1
        BY <1>1, <3>3 DEF Positions
      <4>. QED
        BY <1>1, <1>2, <4>1, <4>2 DEF ProgressOf
    <3>. QED
      BY <3>2, <3>3
  <2>. QED
    BY <1>1, <2>1 DEF ProgressOf
<1>5. SkipsOf(u)'
  <2>1. \A d \in Stages : records[u][d] = "failed" => records'[u][d] = "failed"
    <3>1. records[u][CurrentStage(u)] = "absent"
      BY <1>1, <1>2 DEF ProgressOf, CurrentStage, Positions
    <3>. QED
      BY <1>1, <3>1
  <2>2. Full(u)' <=> Full(u)
    BY DEF Full
  <2>. QED
    BY <1>1, <1>2, <2>1, <2>2 DEF SkipsOf
<1>6. ReadyOf(u)'
  <2>1. CASE position[u] = 9
    BY <1>1, <1>3, <2>1, StageOrder DEF ReadyOf, CurrentStage
  <2>2. CASE position[u] # 9
    <3>1. CurrentStage(u) # "assess"
      BY <1>1, <2>2, StageOrder DEF CurrentStage
    <3>. QED
      BY <1>1, <1>2, <2>2, <3>1, StageNames DEF ReadyOf
  <2>. QED
    BY <2>1, <2>2
<1>7. ASSUME NEW v \in Updates, v # u
      PROVE  /\ pc'[v] = "gate" => position'[v] = FirstPosition
             /\ pc'[v] \in Active => ProgressOf(v)' /\ SkipsOf(v)' /\ ReadyOf(v)'
  BY <1>1, <1>7 DEF ProgressInv, ProgressOf, SkipsOf, ReadyOf, Full
<1>. QED
  BY <1>1, <1>4, <1>5, <1>6, <1>7 DEF ProgressInv

\* In a full run a stage is blocked only after a failure.
LEMMA BlockedAfterFailure ==
    ASSUME TypeInv, ProgressInv, NEW u \in Updates, AtStage(u), Full(u),
           CurrentDisposition(u) \notin {"run", "resumed"}
    PROVE  \E d \in Stages : records[u][d] = "failed"
<1>1. /\ position[u] \in Positions /\ CurrentStage(u) \in Stages
      /\ ProgressOf(u) /\ SkipsOf(u) /\ run[u] \in Run
      /\ records[u] \in [Stages -> StageStatus]
  BY AtStageTypes DEF AtStage, ProgressInv, Active, Critical, TypeInv, TypeOK
<1>2. FailedDependency(records[u], CurrentStage(u))
  BY <1>1 DEF CurrentDisposition, Disposition, Full
<1>3. PICK d \in DEPENDENCIES[CurrentStage(u)] : records[u][d] \notin Served
  BY <1>2 DEF FailedDependency
<1>4. PICK j \in Positions : j < position[u] /\ d = STAGE_ORDER[j] /\ d \in Stages
  BY <1>1, DependenciesComeFirst DEF CurrentStage
<1>5. records[u][d] # "absent"
  BY <1>1, <1>4 DEF ProgressOf, Positions
<1>6. records[u][d] \in {"failed", "skipped"}
  BY <1>1, <1>3, <1>4, <1>5 DEF StageStatus, Served
<1>. QED
  BY <1>1, <1>4, <1>6 DEF SkipsOf

LEMMA ProgressStep == TypeInv /\ ProgressInv /\ [Next]_vars => ProgressInv'
<1> SUFFICES ASSUME TypeInv, ProgressInv, [Next]_vars
             PROVE  ProgressInv'
  OBVIOUS
<1>1. ASSUME NEW u \in Updates, LockTimeout(u) \/ PersistManifest(u) \/ Crash(u)
      PROVE  ProgressInv'
  BY <1>1, ProgressEnds DEF LockTimeout, PersistManifest, Crash, Return
<1>2. ASSUME NEW u \in Updates, AcquireLock(u) \/ OpenRun(u) \/ EngineDone(u) \/ ReleaseLock(u)
      PROVE  ProgressInv'
  <2>1. /\ UNCHANGED << run, records, position, bundle, verdict >>
        /\ pc[u] \in Active /\ pc'[u] # "gate"
        /\ \A v \in Updates \ {u} : pc'[v] = pc[v]
        /\ pc'[u] \in {"lock", "open"} => pc[u] \in {"lock", "open"}
        /\ pc'[u] \in {"release", "persist"} => pc[u] \in {"release", "persist"}
    BY <1>2 DEF AcquireLock, OpenRun, EngineDone, ReleaseLock, shared,
                TypeInv, TypeOK, Active, Critical
  <2>2. pc'[u] \in {"finalize", "release", "persist"} => position[u] = 13
    <3>1. CASE EngineDone(u)
      <4>1. position[u] \in FirstPosition .. 13 /\ position[u] \notin Positions
        BY <3>1 DEF EngineDone, TypeInv, TypeOK
      <4>. QED
        BY <4>1 DEF FirstPosition, Positions
    <3>2. CASE ReleaseLock(u)
      BY <2>1, <3>2 DEF ReleaseLock, ProgressInv, ProgressOf
    <3>3. CASE AcquireLock(u) \/ OpenRun(u)
      BY <3>3 DEF AcquireLock, OpenRun, TypeInv, TypeOK
    <3>. QED
      BY <1>2, <3>1, <3>2, <3>3
  <2>. QED
    BY <2>1, <2>2, ProgressMoves
<1>3. ASSUME NEW u \in Updates, Finalize(u)
      PROVE  ProgressInv'
  <2>1. /\ UNCHANGED << run, records, position, bundle >>
        /\ pc[u] = "finalize" /\ pc'[u] = "release"
        /\ verdict'[u] = FinalStatus(records[u])
        /\ \A v \in Updates \ {u} : pc'[v] = pc[v] /\ verdict'[v] = verdict[v]
    BY <1>3 DEF Finalize, shared, TypeInv, TypeOK
  <2>2. ProgressOf(u)' /\ SkipsOf(u)' /\ ReadyOf(u)'
    BY <2>1 DEF ProgressInv, ProgressOf, SkipsOf, ReadyOf, Full, Active, Critical
  <2>3. ASSUME NEW v \in Updates, v # u
        PROVE  /\ pc'[v] = "gate" => position'[v] = FirstPosition
               /\ pc'[v] \in Active => ProgressOf(v)' /\ SkipsOf(v)' /\ ReadyOf(v)'
    BY <2>1, <2>3 DEF ProgressInv, ProgressOf, SkipsOf, ReadyOf, Full
  <2>. QED
    BY <2>1, <2>2, <2>3 DEF ProgressInv
<1>4. ASSUME NEW u \in Updates, PassOver(u)
      PROVE  ProgressInv'
  <2> DEFINE status == PassedOverStatus(CurrentDisposition(u))
  <2>1. /\ AtStage(u) /\ CurrentDisposition(u) # "run" /\ Record(u, status)
        /\ UNCHANGED << pc, run, verdict, bundle >>
    BY <1>4 DEF PassOver
  <2>2. status \in {"success", "skipped"}
    BY DEF PassedOverStatus
  <2>3. status = "skipped" => CurrentDisposition(u) # "resumed"
    BY DEF PassedOverStatus
  <2>4. status = "success" => CurrentDisposition(u) = "resumed"
    BY DEF PassedOverStatus
  <2> HIDE DEF status
  <2>5. status = "skipped" /\ Full(u) => \E d \in Stages : records[u][d] = "failed"
    BY <2>1, <2>3, BlockedAfterFailure
  <2>6. position[u] = 9 /\ status \in Served =>
          CarriedOver("assess", run[u].selected, run[u].skip, run[u].completed)
    <3> SUFFICES ASSUME position[u] = 9, status \in Served
                 PROVE  CarriedOver("assess", run[u].selected, run[u].skip, run[u].completed)
      OBVIOUS
    <3>1. CurrentStage(u) = "assess"
      BY <2>1, StageOrder DEF CurrentStage, AtStage
    <3>2. CurrentDisposition(u) = "resumed"
      BY <2>2, <2>4 DEF Served
    <3>. QED
      BY <3>1, <3>2 DEF CurrentDisposition, Disposition
  <2>. QED
    BY <2>1, <2>2, <2>5, <2>6, ProgressRecords DEF StageStatus
<1>5. ASSUME NEW u \in Updates, StageReturns(u)
      PROVE  ProgressInv'
  <2>1. PICK status \in ReturnedStatus(CurrentStage(u)) :
          /\ AtStage(u) /\ Record(u, status) /\ UNCHANGED << pc, run, verdict >>
          /\ bundle' = IF CurrentStage(u) = "assess"
                       THEN [bundle EXCEPT ![u] = lastWriter] ELSE bundle
    BY <1>5, StageReturnsEffect
  <2>2. status \in {"success", "partial", "failed"}
    BY DEF ReturnedStatus
  <2>3. CurrentStage(u) = "assess" <=> position[u] = 9
    BY <2>1, StageOrder DEF AtStage, CurrentStage
  <2>4. lastWriter # None
    BY NoneAssumption DEF TypeInv, TypeOK
  <2>5. /\ \A v \in Updates : v # u \/ position[u] # 9 => bundle'[v] = bundle[v]
        /\ position[u] = 9 => bundle'[u] # None
    BY <2>1, <2>3, <2>4 DEF TypeInv, TypeOK
  <2>. QED
    BY <2>1, <2>2, <2>5, ProgressRecords DEF StageStatus
<1>6. ASSUME NEW u \in Updates, StageFails(u)
      PROVE  ProgressInv'
  <2>1. AtStage(u) /\ Record(u, "failed") /\ UNCHANGED << pc, run, verdict, bundle >>
    BY <1>6 DEF StageFails
  <2>. QED
    BY <2>1, ProgressRecords DEF StageStatus, Served
<1>7. ASSUME NEW u \in Updates, StageRetries(u)
      PROVE  ProgressInv'
  BY <1>7 DEF StageRetries, ProgressInv, ProgressOf, SkipsOf, ReadyOf, Full
<1>8. UNCHANGED vars \/ (\E s \in Commanded : CommandWrites(s)) => ProgressInv'
  BY DEF vars, CommandWrites, ProgressInv, ProgressOf, SkipsOf, ReadyOf, Full
<1>. QED
  BY <1>1, <1>2, <1>3, <1>4, <1>5, <1>6, <1>7, <1>8, ProgressGate DEF Next, Advance

LEMMA ProgressInvariance == Spec => []ProgressInv
<1>1. Init => ProgressInv
  BY DEF Init, ProgressInv, Active, Critical
<1>. QED
  BY <1>1, ProgressStep, TypeInvariance, PTL DEF Spec

\* A full, unskipped run that reports success served every stage.
THEOREM SuccessIsWhole == Spec => []SuccessLeavesNothingOut
<1>1. TypeInv /\ ProgressInv => SuccessLeavesNothingOut
  <2> SUFFICES ASSUME TypeInv, ProgressInv, NEW u \in Updates,
                      pc[u] \in {"release", "persist"}, verdict[u] = "success",
                      run[u].selected = Stages, run[u].skip = {}, NEW s \in Stages
               PROVE  records[u][s] = "success"
    BY DEF SuccessLeavesNothingOut
  <2>1. ProgressOf(u) /\ SkipsOf(u) /\ records[u] \in [Stages -> StageStatus]
    BY DEF ProgressInv, Active, Critical, TypeInv, TypeOK
  <2>2. \A d \in Stages : records[u][d] \notin {"failed", "partial"}
    BY <2>1 DEF SkipsOf, FinalStatus
  <2>3. records[u][s] # "skipped"
    BY <2>1, <2>2 DEF SkipsOf, Full
  <2>4. records[u][s] # "absent"
    BY <2>1, StagePositions DEF ProgressOf, Positions
  <2>. QED
    BY <2>1, <2>2, <2>3, <2>4 DEF StageStatus
<1>. QED
  BY <1>1, TypeInvariance, ProgressInvariance, PTL

\* The reports and the archive never find the bundle missing.
THEOREM BundleAtHand == Spec => []BundleIsReady
<1>1. TypeInv /\ ProgressInv => BundleIsReady
  <2> SUFFICES ASSUME TypeInv, ProgressInv, NEW u \in Updates, AtStage(u),
                      CurrentStage(u) \in Consumers, CurrentDisposition(u) = "run"
               PROVE  bundle[u] # None
    BY DEF BundleIsReady
  <2> DEFINE s == CurrentStage(u)
             l == run[u]
  <2>1. ReadyOf(u)
    BY AtStageTypes DEF ProgressInv, Active, Critical
  <2>2. /\ s \in l.selected \ l.skip
        /\ ~CarriedOver(s, l.selected, l.skip, l.completed)
        /\ ~FailedDependency(records[u], s)
    BY DEF CurrentDisposition, Disposition
  <2>3. s # "assess" /\ s \in {"reports", "archive"}
    BY DEF Consumers
  <2>4. records[u]["assess"] \in Served
    <3>1. DEPENDENCIES[s] = {"assess"}
      BY <2>3, StageNames DEF DEPENDENCIES
    <3>. QED
      BY <2>2, <3>1 DEF FailedDependency
  <2>5. NeedsBundle(l.selected, l.skip, l.completed)
    BY <2>2, <2>3 DEF CarriedOver, NeedsBundle
  <2>. QED
    BY <2>1, <2>4, <2>5 DEF ReadyOf, CarriedOver
<1>. QED
  BY <1>1, TypeInvariance, ProgressInvariance, PTL


-----------------------------------------------------------------------------
(* The refinement.                                                         *)

\* Seen from ExclusiveUpdate, an invocation has a phase and has served the
\* stages its records say it has.
LEMMA MappedState ==
    ASSUME TypeInv, NEW u \in Updates
    PROVE  /\ PhaseOf(u) = "waiting" <=> pc[u] \in {"gate", "lock"}
           /\ PhaseOf(u) = "working" <=> pc[u] \in Critical
           /\ PhaseOf(u) \in {"waiting", "working", "gone"}
           /\ pc[u] \notin Critical => ServedBy(u) = {}
BY DEF PhaseOf, ServedBy, Critical

\* ExclusiveUpdate and UpdateRun speak of the same stage graph.
LEMMA MappedGraph ==
    /\ Promise!Stages = Stages
    /\ Promise!GateStages = GateStages
    /\ Promise!DEPENDENCIES = DEPENDENCIES
BY DEF Promise!Stages, Promise!STAGE_ORDER, Promise!Positions, Promise!GateStages,
       Promise!DEPENDENCIES, Stages, STAGE_ORDER, Positions, GateStages, DEPENDENCIES

\* One invocation leaves, the others are as they were.
LEMMA MappedLeave ==
    ASSUME TypeInv, NEW u \in Updates,
           \A v \in Updates \ {u} : pc'[v] = pc[v] /\ records'[v] = records[v],
           pc[u] \notin {"persist", "done", "crashed"}, pc'[u] \in {"persist", "done", "crashed"},
           lastWriter' = lastWriter
    PROVE  Promise!Leave(u)
<1>1. PhaseOf(u) # "gone" /\ PhaseOf(u)' = "gone" /\ ServedBy(u)' = {}
  BY DEF PhaseOf, ServedBy, Critical, TypeInv, TypeOK, Places, Ended
<1>2. \A v \in Updates \ {u} : PhaseOf(v)' = PhaseOf(v) /\ ServedBy(v)' = ServedBy(v)
  BY DEF PhaseOf, ServedBy
<1>. QED
  BY <1>1, <1>2 DEF Promise!Leave

\* Nothing ExclusiveUpdate speaks of has changed.
LEMMA MappedStutter ==
    ASSUME \A v \in Updates : PhaseOf(v)' = PhaseOf(v) /\ ServedBy(v)' = ServedBy(v),
           lastWriter' = lastWriter
    PROVE  UNCHANGED Promise!vars
BY DEF Promise!vars

\* The engine's stage is one of those ExclusiveUpdate speaks of, not yet served.
LEMMA MappedStage ==
    ASSUME TypeInv, ProgressInv, NEW u \in Updates, AtStage(u)
    PROVE  /\ CurrentStage(u) \in Stages \ GateStages
           /\ CurrentStage(u) \notin ServedBy(u)
           /\ PhaseOf(u) = "working"
           /\ CurrentDisposition(u) = "run" => DEPENDENCIES[CurrentStage(u)] \subseteq ServedBy(u)
<1>1. pc[u] = "stages" /\ pc[u] \in Critical /\ pc[u] \in Active /\ position[u] \in Positions
  BY DEF AtStage, Active, Critical
<1>2. CurrentStage(u) \in Stages \ GateStages
  BY <1>1, AtStageTypes, StageOrder DEF CurrentStage, FirstPosition, Positions
<1>3. records[u][CurrentStage(u)] = "absent"
  BY <1>1 DEF ProgressInv, ProgressOf, CurrentStage, Positions
<1>4. ASSUME CurrentDisposition(u) = "run", NEW d \in DEPENDENCIES[CurrentStage(u)]
      PROVE  d \in ServedBy(u)
  <2>1. d \in Stages \ GateStages
    BY <1>1, DependenciesComeFirst DEF CurrentStage
  <2>2. records[u][d] \in Served
    BY <1>4 DEF CurrentDisposition, Disposition, FailedDependency
  <2>. QED
    BY <1>1, <2>1, <2>2 DEF ServedBy
<1>. QED
  BY <1>1, <1>2, <1>3, <1>4, MappedState DEF ServedBy, Served

\* The engine records a status: its stage is served or it is not.
LEMMA MappedRecord ==
    ASSUME TypeInv, ProgressInv, NEW u \in Updates, AtStage(u),
           NEW status \in StageStatus, Record(u, status), pc' = pc
    PROVE  /\ \A v \in Updates : PhaseOf(v)' = PhaseOf(v)
           /\ \A v \in Updates \ {u} : ServedBy(v)' = ServedBy(v)
           /\ status \in Served => ServedBy(u)' = ServedBy(u) \union {CurrentStage(u)}
           /\ status \notin Served => ServedBy(u)' = ServedBy(u)
<1>1. \A v \in Updates \ {u} : records'[v] = records[v]
  BY DEF Record, TypeInv, TypeOK
<1>2. \A s \in Stages : records'[u][s] = IF s = CurrentStage(u) THEN status ELSE records[u][s]
  BY AtStageTypes DEF Record, TypeInv, TypeOK
<1>3. pc[u] \in Critical /\ CurrentStage(u) \in Stages \ GateStages
  BY MappedStage DEF AtStage, Critical
<1>4. records[u][CurrentStage(u)] \notin Served
  BY <1>3, MappedStage DEF ServedBy
<1>5. \A v \in Updates : PhaseOf(v)' = PhaseOf(v)
  BY DEF PhaseOf
<1>6. \A v \in Updates \ {u} : ServedBy(v)' = ServedBy(v)
  BY <1>1 DEF ServedBy
<1>7. status \in Served => ServedBy(u)' = ServedBy(u) \union {CurrentStage(u)}
  BY <1>2, <1>3 DEF ServedBy
<1>8. status \notin Served => ServedBy(u)' = ServedBy(u)
  BY <1>2, <1>3, <1>4 DEF ServedBy
<1>. QED
  BY <1>5, <1>6, <1>7, <1>8

LEMMA MappedInit == Init => Promise!Init
BY DEF Init, Promise!Init, PhaseOf, ServedBy, Critical

LEMMA MappedStep ==
    TypeInv /\ LockInv /\ ProgressInv /\ [Next]_vars => [Promise!Next]_(Promise!vars)
<1> SUFFICES ASSUME TypeInv, LockInv, ProgressInv, [Next]_vars
             PROVE  Promise!Next \/ UNCHANGED Promise!vars
  OBVIOUS
<1>1. ASSUME NEW u \in Updates, Promise!Leave(u)
      PROVE  Promise!Next
  BY <1>1 DEF Promise!Next
<1>2. ASSUME NEW u \in Updates, Gate(u) \/ LockTimeout(u)
      PROVE  Promise!Next \/ UNCHANGED Promise!vars
  <2>1. /\ pc[u] \in {"gate", "lock"} /\ pc'[u] \in {"lock", "done"}
        /\ pc'[u] = "lock" => pc[u] = "gate"
        /\ \A v \in Updates \ {u} : pc'[v] = pc[v] /\ records'[v] = records[v]
        /\ lastWriter' = lastWriter
    BY <1>2 DEF Gate, GateFails, PlanOnly, GateFresh, GateResume, LockTimeout, Return,
                Forget, Proceed, shared, TypeInv, TypeOK
  <2>2. CASE pc'[u] = "done"
    BY <1>1, <2>1, <2>2, MappedLeave
  <2>3. CASE pc'[u] = "lock"
    BY <2>1, <2>3, MappedStutter DEF PhaseOf, ServedBy, Critical
  <2>. QED
    BY <2>1, <2>2, <2>3
<1>3. ASSUME NEW u \in Updates, AcquireLock(u)
      PROVE  Promise!Next
  <2>1. /\ pc[u] = "lock" /\ pc'[u] = "open" /\ lastWriter' = lastWriter /\ records' = records
        /\ \A v \in Updates \ {u} : pc'[v] = pc[v]
        /\ \A v \in Updates : pc[v] \notin Critical
    BY <1>3, UpdatesAssumption DEF AcquireLock, TypeInv, TypeOK, LockInv, LockDiscipline
  <2>2. \A v \in Updates : PhaseOf(v) # "working"
    BY <2>1, MappedState
  <2>3. PhaseOf(u) = "waiting" /\ PhaseOf(u)' = "working"
    BY <2>1 DEF PhaseOf, Critical
  <2>4. \A v \in Updates \ {u} : PhaseOf(v)' = PhaseOf(v) /\ ServedBy(v)' = ServedBy(v)
    BY <2>1 DEF PhaseOf, ServedBy
  <2>5. ServedBy(u)' = ServedBy(u)
    <3>1. ProgressOf(u) /\ position[u] = FirstPosition
      BY <2>1 DEF ProgressInv, ProgressOf, Active
    <3>2. ASSUME NEW s \in Stages \ GateStages
          PROVE  records[u][s] \notin Served
      <4>1. PICK i \in Positions : s = STAGE_ORDER[i]
        BY StagePositions
      <4>2. i >= FirstPosition
        BY <3>2, <4>1, StageOrder DEF Positions, FirstPosition
      <4>. QED
        BY <3>1, <4>1, <4>2 DEF ProgressOf, Served
    <3>. QED
      BY <2>1, <3>2 DEF ServedBy, Critical
  <2>6. Promise!Begin(u)
    BY <2>1, <2>2, <2>3, <2>4, <2>5 DEF Promise!Begin
  <2>. QED
    BY <2>6 DEF Promise!Next
<1>4. ASSUME NEW u \in Updates, OpenRun(u) \/ EngineDone(u) \/ Finalize(u) \/ StageRetries(u)
      PROVE  UNCHANGED Promise!vars
  <2>1. /\ \A v \in Updates : pc'[v] = pc[v] \/ (pc[v] \in Critical /\ pc'[v] \in Critical)
        /\ records' = records /\ lastWriter' = lastWriter
    <3>1. CASE OpenRun(u) \/ EngineDone(u) \/ Finalize(u)
      BY <3>1 DEF OpenRun, EngineDone, Finalize, shared, TypeInv, TypeOK, Critical
    <3>2. CASE StageRetries(u)
      BY <3>2 DEF StageRetries, shared
    <3>. QED
      BY <1>4, <3>1, <3>2
  <2>. QED
    BY <2>1, MappedStutter DEF PhaseOf, ServedBy, Critical
<1>5. ASSUME NEW u \in Updates, ReleaseLock(u)
      PROVE  Promise!Next
  <2>1. /\ pc[u] = "release" /\ pc'[u] = "persist"
        /\ \A v \in Updates \ {u} : pc'[v] = pc[v] /\ records'[v] = records[v]
        /\ lastWriter' = lastWriter
    BY <1>5 DEF ReleaseLock, TypeInv, TypeOK
  <2>. QED
    BY <1>1, <2>1, MappedLeave
<1>6. ASSUME NEW u \in Updates, PersistManifest(u) \/ Crash(u)
      PROVE  Promise!Next \/ UNCHANGED Promise!vars
  <2>0. /\ pc[u] \in Active /\ Forget(u) /\ lastWriter' = lastWriter
        /\ pc' = [pc EXCEPT ![u] = "done"] \/ pc' = [pc EXCEPT ![u] = "crashed"]
    BY <1>6 DEF PersistManifest, Crash, Active
  <2>1. /\ pc[u] \in Active /\ pc'[u] \in {"done", "crashed"}
        /\ \A v \in Updates \ {u} : pc'[v] = pc[v] /\ records'[v] = records[v]
        /\ lastWriter' = lastWriter
    BY <2>0 DEF Forget, TypeInv, TypeOK
  <2>2. CASE pc[u] = "persist"
    BY <2>1, <2>2, MappedStutter DEF PhaseOf, ServedBy, Critical
  <2>3. CASE pc[u] # "persist"
    BY <1>1, <2>1, <2>3, MappedLeave DEF Active, Critical
  <2>. QED
    BY <2>2, <2>3
<1>7. ASSUME NEW u \in Updates, PassOver(u)
      PROVE  Promise!Next \/ UNCHANGED Promise!vars
  <2> DEFINE status == PassedOverStatus(CurrentDisposition(u))
  <2>1. AtStage(u) /\ Record(u, status) /\ pc' = pc /\ lastWriter' = lastWriter
    BY <1>7 DEF PassOver, shared
  <2>2. status \in StageStatus
    BY StatusTypes
  <2> HIDE DEF status
  <2>3. CASE status \in Served
    <3>1. Promise!TakeOver(u, CurrentStage(u))
      BY <2>1, <2>2, <2>3, MappedRecord, MappedStage DEF Promise!TakeOver
    <3>. QED
      BY <2>1, <3>1, MappedStage, MappedGraph DEF Promise!Next
  <2>4. CASE status \notin Served
    BY <2>1, <2>2, <2>4, MappedRecord, MappedStutter
  <2>. QED
    BY <2>3, <2>4
<1>8. ASSUME NEW u \in Updates, StageReturns(u)
      PROVE  Promise!Next
  <2>1. PICK status \in ReturnedStatus(CurrentStage(u)) :
          /\ AtStage(u) /\ CurrentDisposition(u) = "run" /\ Record(u, status) /\ pc' = pc
          /\ lastWriter' = IF CurrentStage(u) \in Inputs
                           THEN [lastWriter EXCEPT ![CurrentStage(u)] = u]
                           ELSE lastWriter
    BY <1>8, StageReturnsEffect
  <2>2. status \in StageStatus
    BY StatusTypes
  <2>3. Promise!Write(u, CurrentStage(u))
    BY <2>1 DEF Promise!Write
  <2>4. CASE status \in Served
    <3>1. Promise!Serve(u, CurrentStage(u))
      BY <2>1, <2>2, <2>3, <2>4, MappedRecord, MappedStage, MappedGraph
         DEF Promise!Serve
    <3>. QED
      BY <2>1, <3>1, MappedStage, MappedGraph DEF Promise!Next
  <2>5. CASE status \notin Served
    <3>1. Promise!Attempt(u, CurrentStage(u))
      BY <2>1, <2>2, <2>3, <2>5, MappedRecord, MappedStage, MappedGraph
         DEF Promise!Attempt
    <3>. QED
      BY <2>1, <3>1, MappedStage, MappedGraph DEF Promise!Next
  <2>. QED
    BY <2>4, <2>5
<1>9. ASSUME NEW u \in Updates, StageFails(u)
      PROVE  UNCHANGED Promise!vars
  <2>1. AtStage(u) /\ Record(u, "failed") /\ pc' = pc /\ lastWriter' = lastWriter
    BY <1>9 DEF StageFails, shared
  <2>. QED
    BY <2>1, MappedRecord, MappedStutter DEF Served, StageStatus
<1>10. UNCHANGED vars => UNCHANGED Promise!vars
  BY MappedStutter DEF vars, PhaseOf, ServedBy
<1>11. ASSUME NEW s \in Commanded, CommandWrites(s)
       PROVE  Promise!Next
  <2>1. \A v \in Updates : PhaseOf(v)' = PhaseOf(v) /\ ServedBy(v)' = ServedBy(v)
    BY <1>11 DEF CommandWrites, PhaseOf, ServedBy
  <2>2. Promise!Overwrite(s)
    BY <1>11, <2>1 DEF CommandWrites, Promise!Overwrite
  <2>. QED
    BY <2>2 DEF Promise!Next
<1>. QED
  BY <1>2, <1>3, <1>4, <1>5, <1>6, <1>7, <1>8, <1>9, <1>10, <1>11 DEF Next, Advance

\* Locks, retries, crashes and resumes add nothing to what ExclusiveUpdate
\* allows: one update works at a time, and a stage is served only when what it
\* depends on has been.
THEOREM Refinement == Spec => RefinesExclusiveUpdate
BY MappedInit, MappedStep, TypeInvariance, LockInvariance, ProgressInvariance, PTL
   DEF Spec, RefinesExclusiveUpdate, Promise!Spec


=============================================================================
