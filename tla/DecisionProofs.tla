---------------------------- MODULE DecisionProofs ----------------------------
(***************************************************************************)
(* Proofs about the decision engine's rules (DecisionRules), for every set *)
(* of models, whatever they may say and every portfolio, and about the     *)
(* archive of its predictions (PredictionArchive), for every calendar,     *)
(* sweep, set of batches and number of reporters and evaluators.           *)
(***************************************************************************)
EXTENDS PredictionArchive, DecisionRules, Sums, FunctionTheorems

-----------------------------------------------------------------------------
(* Predictions: what is inserted and not committed is new, and locked.     *)

ReporterOK(r) ==
    /\ DOMAIN reporter[r] = { "pc", "todo", "value", "pending" }
    /\ reporter[r].pending \intersect DOMAIN archive = {}

Disjoint(r, s) == reporter[r].pending \intersect reporter[s].pending = {}

ArchiveInv ==
    /\ DOMAIN reporter = Reporters
    /\ \A r \in Reporters : ReporterOK(r)
    /\ \A r, s \in Reporters : r # s => Disjoint(r, s)

LEMMA IdleHoldsNothing ==
    /\ DOMAIN IdleReporter = { "pc", "todo", "value", "pending" }
    /\ IdleReporter.pending = {}
  BY DEF IdleReporter

LEMMA InitArchiveInv == Init => ArchiveInv
  BY IdleHoldsNothing DEF Init, ArchiveInv, ReporterOK, Disjoint

\* A step of one reporter that leaves the archive alone.
LEMMA OneReporterKeeps ==
    ASSUME ArchiveInv, NEW r \in Reporters, archive' = archive,
           DOMAIN reporter' = Reporters,
           \A s \in Reporters \ {r} : reporter'[s] = reporter[s],
           DOMAIN reporter'[r] = { "pc", "todo", "value", "pending" },
           reporter'[r].pending \intersect DOMAIN archive = {},
           \A s \in Reporters \ {r} : reporter'[r].pending \intersect reporter[s].pending = {}
    PROVE  ArchiveInv'
<1>1. ASSUME NEW s \in Reporters PROVE ReporterOK(s)'
  <2>1. CASE s = r
    BY <2>1 DEF ReporterOK
  <2>2. CASE s # r
    <3>1. reporter'[s] = reporter[s] /\ ReporterOK(s)
      BY <2>2 DEF ArchiveInv
    <3>2. QED
      BY <3>1 DEF ReporterOK
  <2>3. QED
    BY <2>1, <2>2
<1>2. ASSUME NEW s \in Reporters, NEW t \in Reporters, s # t PROVE Disjoint(s, t)'
  <2>1. CASE s = r
    BY <1>2, <2>1 DEF Disjoint
  <2>2. CASE t = r
    BY <1>2, <2>2 DEF Disjoint
  <2>3. CASE s # r /\ t # r
    <3>1. reporter'[s] = reporter[s] /\ reporter'[t] = reporter[t] /\ Disjoint(s, t)
      BY <1>2, <2>3 DEF ArchiveInv
    <3>2. QED
      BY <3>1 DEF Disjoint
  <2>4. QED
    BY <2>1, <2>2, <2>3
<1>3. QED
  BY <1>1, <1>2 DEF ArchiveInv

LEMMA GiveUpKeeps ==
    ASSUME ArchiveInv, NEW r \in Reporters, archive' = archive,
           reporter' = [ reporter EXCEPT ![r] = IdleReporter ]
    PROVE  ArchiveInv'
<1>1. /\ DOMAIN reporter' = Reporters
      /\ reporter'[r] = IdleReporter
      /\ \A s \in Reporters \ {r} : reporter'[s] = reporter[s]
  BY DEF ArchiveInv
<1>2. QED
  BY <1>1, IdleHoldsNothing, OneReporterKeeps

LEMMA AssessKeeps ==
    ASSUME ArchiveInv, NEW r \in Reporters, Assess(r)
    PROVE  ArchiveInv'
<1>1. PICK batch \in Batches, value \in Values :
          reporter' = [ reporter EXCEPT ![r] =
              [ pc |-> "insert", todo |-> batch, value |-> value, pending |-> {} ] ]
  BY DEF Assess
<1>2. /\ DOMAIN reporter' = Reporters
      /\ DOMAIN reporter'[r] = { "pc", "todo", "value", "pending" }
      /\ reporter'[r].pending = {}
      /\ \A s \in Reporters \ {r} : reporter'[s] = reporter[s]
  BY <1>1 DEF ArchiveInv
<1>3. archive' = archive
  BY DEF Assess
<1>4. QED
  BY <1>2, <1>3, OneReporterKeeps

LEMMA InsertKeeps ==
    ASSUME ArchiveInv, NEW r \in Reporters, InsertPrediction(r)
    PROVE  ArchiveInv'
<1> DEFINE key == Head(reporter[r].todo)
<1>1. /\ DOMAIN reporter' = Reporters
      /\ DOMAIN reporter'[r] = { "pc", "todo", "value", "pending" }
      /\ reporter'[r].pending = reporter[r].pending \union ({key} \ DOMAIN archive)
      /\ \A s \in Reporters \ {r} : reporter'[s] = reporter[s]
      /\ archive' = archive
  BY DEF ArchiveInv, ReporterOK, InsertPrediction
<1>2. \A s \in Reporters \ {r} : key \notin reporter[s].pending
  BY DEF InsertPrediction, Waits
<1>3. ASSUME NEW s \in Reporters \ {r}
      PROVE  reporter'[r].pending \intersect reporter[s].pending = {}
  <2>1. reporter[r].pending \intersect reporter[s].pending = {}
    BY DEF ArchiveInv, Disjoint
  <2>2. QED
    BY <1>1, <1>2, <2>1
<1>4. reporter'[r].pending \intersect DOMAIN archive = {}
  BY <1>1 DEF ArchiveInv, ReporterOK
<1>5. QED
  BY <1>1, <1>3, <1>4, OneReporterKeeps

\* A commit adds the reporter's rows and changes none.
LEMMA CommitAdds ==
    ASSUME ArchiveInv, NEW r \in Reporters, CommitArchive(r)
    PROVE  /\ DOMAIN archive' = DOMAIN archive \union reporter[r].pending
           /\ \A key \in DOMAIN archive : archive'[key] = archive[key]
<1>1. reporter[r].pending \intersect DOMAIN archive = {}
  BY DEF ArchiveInv, ReporterOK
<1>2. QED
  BY <1>1 DEF CommitArchive

LEMMA CommitKeeps ==
    ASSUME ArchiveInv, NEW r \in Reporters, CommitArchive(r)
    PROVE  ArchiveInv'
<1>1. /\ DOMAIN reporter' = Reporters
      /\ reporter'[r] = IdleReporter
      /\ \A s \in Reporters \ {r} : reporter'[s] = reporter[s]
  BY DEF CommitArchive, ArchiveInv
<1>2. reporter'[r].pending = {}
  BY <1>1, IdleHoldsNothing
<1>3. ASSUME NEW s \in Reporters PROVE ReporterOK(s)'
  <2>1. CASE s = r
    BY <1>1, <1>2, <2>1, IdleHoldsNothing DEF ReporterOK
  <2>2. CASE s # r
    <3>1. reporter'[s] = reporter[s] /\ ReporterOK(s) /\ Disjoint(s, r)
      BY <1>1, <2>2 DEF ArchiveInv
    <3>2. QED
      BY <3>1, CommitAdds DEF ReporterOK, Disjoint
  <2>3. QED
    BY <2>1, <2>2
<1>4. ASSUME NEW s \in Reporters, NEW t \in Reporters, s # t PROVE Disjoint(s, t)'
  <2>1. CASE s = r \/ t = r
    BY <1>2, <2>1 DEF Disjoint
  <2>2. CASE s # r /\ t # r
    <3>1. reporter'[s] = reporter[s] /\ reporter'[t] = reporter[t] /\ Disjoint(s, t)
      BY <1>1, <1>4, <2>2 DEF ArchiveInv
    <3>2. QED
      BY <3>1 DEF Disjoint
  <2>3. QED
    BY <2>1, <2>2
<1>5. QED
  BY <1>1, <1>3, <1>4 DEF ArchiveInv

LEMMA OthersKeepArchive ==
    ASSUME ArchiveInv, UNCHANGED << archive, reporter >>
    PROVE  ArchiveInv'
<1>1. \A r \in Reporters : ReporterOK(r)'
  BY DEF ArchiveInv, ReporterOK
<1>2. ASSUME NEW s \in Reporters, NEW t \in Reporters, s # t PROVE Disjoint(s, t)'
  <2>1. Disjoint(s, t)
    BY <1>2 DEF ArchiveInv
  <2>2. QED
    BY <2>1 DEF Disjoint
<1>3. QED
  BY <1>1, <1>2 DEF ArchiveInv

Kept == \A key \in DOMAIN archive : key \in DOMAIN archive' /\ archive'[key] = archive[key]

LEMMA ReporterSteps ==
    ASSUME ArchiveInv, NEW r \in Reporters, ReporterStep(r)
    PROVE  ArchiveInv' /\ Kept
<1>1. CASE Assess(r)
  BY <1>1, AssessKeeps DEF Assess, Kept
<1>2. CASE InsertPrediction(r)
  BY <1>2, InsertKeeps DEF InsertPrediction, Kept
<1>3. CASE CommitArchive(r)
  BY <1>3, CommitKeeps, CommitAdds DEF Kept
<1>4. CASE BreakDeadlock(r) \/ CrashReporter(r)
  BY <1>4, GiveUpKeeps DEF BreakDeadlock, CrashReporter, Kept
<1>5. QED
  BY <1>1, <1>2, <1>3, <1>4 DEF ReporterStep

LEMMA NextArchiveInv == ArchiveInv /\ [Next]_vars => ArchiveInv' /\ Kept
<1> SUFFICES ASSUME ArchiveInv, [Next]_vars PROVE ArchiveInv' /\ Kept
  OBVIOUS
<1>1. ASSUME NEW r \in Reporters, ReporterStep(r) PROVE ArchiveInv' /\ Kept
  BY <1>1, ReporterSteps
<1>2. CASE MarketStep
  BY <1>2, OthersKeepArchive DEF MarketStep, ExtendCalendar, PriceSession, Restate, Kept
<1>3. ASSUME NEW e \in Evaluators, SweepStep(e) \/ CrashEvaluator(e) PROVE ArchiveInv' /\ Kept
  BY <1>3, OthersKeepArchive DEF SweepStep, BeginSweep, ReadEntry, ReadExit, CommitSweep,
        RejectSweep, CrashEvaluator, Kept
<1>4. CASE UNCHANGED vars
  BY <1>4, OthersKeepArchive DEF vars, Kept
<1>5. QED
  BY <1>1, <1>2, <1>3, <1>4 DEF Next

\* Whoever archives a key first decides what it says, for good: no later, no
\* concurrent and no repeated command changes it, whichever of them are rolled
\* back (predictions.py:7-9).
THEOREM FirstPredictionIsKept == Spec => FirstPredictionStands
<1>1. ArchiveInv /\ [Next]_vars => [Kept]_vars
  BY NextArchiveInv
<1>2. Spec => [][Kept]_vars
  BY <1>1, InitArchiveInv, NextArchiveInv, PTL DEF Spec
<1>3. QED
  BY <1>2 DEF FirstPredictionStands, Kept

-----------------------------------------------------------------------------
(* Outcomes: the sessions a key's outcome lies on are decided by the       *)
(* exchange's sessions alone, however much of them the calendar holds.     *)

\* The calendar is what the exchange's sessions are, up to some day.
CalendarOK ==
    /\ calendar \subseteq Sessions
    /\ FirstCalendar \subseteq calendar
    /\ \A d \in calendar, s \in Sessions : s <= d => s \in calendar

FinalEntry(key) ==
    LET known == { d \in Sessions : d <= key.asOf } IN IF known = {} THEN None ELSE Max(known)

Between(d, s) == { t \in Sessions : t > d /\ t <= s }

IsFinalExit(key, s) ==
    /\ s \in Sessions
    /\ s > FinalEntry(key)
    /\ Cardinality(Between(FinalEntry(key), s)) = Horizons[key.horizon]

\* What a sweep is about to write lies on those sessions; a part of a row is
\* for a row that is there.
ChangeOK(change) ==
    /\ change.key \in Keys
    /\ "entry" \in DOMAIN change.columns => change.columns["entry"] = FinalEntry(change.key)
    /\ "exit" \in DOMAIN change.columns => IsFinalExit(change.key, change.columns["exit"])
    /\ DOMAIN change.columns = Fields \/ change.key \in DOMAIN outcomes

EvaluatorOK(e) ==
    /\ DOMAIN evaluator[e] = { "pc", "todo", "price", "staged", "flushed" }
    /\ evaluator[e].todo \subseteq DOMAIN Sweep
    /\ evaluator[e].pc = "exit" =>
           /\ evaluator[e].todo # {}
           /\ evaluator[e].price[1] = FinalEntry(Sweep[At(e)])
    /\ \A change \in Flushed(e) : ChangeOK(change)

OutcomeOK(key) ==
    /\ key \in Keys
    /\ outcomes[key].entry = FinalEntry(key)
    /\ IsFinalExit(key, outcomes[key].exit)

OutcomeInv ==
    /\ CalendarOK
    /\ DOMAIN evaluator = Evaluators
    /\ \A e \in Evaluators : EvaluatorOK(e)
    /\ \A key \in DOMAIN outcomes : OutcomeOK(key)

\* A place in the sweep is found while there is one.
LEMMA PlaceInSweep ==
    ASSUME NEW e, evaluator[e].todo \subseteq DOMAIN Sweep, evaluator[e].todo # {}
    PROVE  At(e) \in evaluator[e].todo /\ Sweep[At(e)] \in Keys
<1> DEFINE todo == evaluator[e].todo
<1>1. DOMAIN Sweep = 1 .. Len(Sweep) /\ Len(Sweep) \in Nat
  BY KeysAssumption
<1>2. todo \subseteq Nat
  BY <1>1
<1>3. PICK i \in todo : \A j \in todo : ~ (<< j, i >> \in OpToRel(<, Nat))
  BY <1>2, NatLessThanWellFounded, WFMin
<1>4. \A j \in todo : ~ (j < i)
  BY <1>2, <1>3 DEF OpToRel
<1>5. \A j \in todo : i <= j
  BY <1>2, <1>4
<1>6. At(e) \in todo
  BY <1>5, Zenon DEF At
<1>7. At(e) \in DOMAIN Sweep
  BY <1>6
<1>8. Sweep[At(e)] \in Keys
  BY <1>1, <1>7, KeysAssumption
<1>9. QED
  BY <1>6, <1>8

\* The calendar covers every prediction's day.
LEMMA EntryIsFinal ==
    ASSUME CalendarOK, NEW key \in Keys
    PROVE  EntrySession(key.asOf) = FinalEntry(key)
<1>1. { d \in calendar : d <= key.asOf } = { d \in Sessions : d <= key.asOf }
  BY KeysAssumption DEF CalendarOK
<1>2. QED
  BY <1>1 DEF EntrySession, FinalEntry

\* A session the calendar counts to is the one the exchange counts to.
LEMMA ExitIsFinal ==
    ASSUME CalendarOK, NEW key \in Keys,
           NEW exit, exit = SessionAfter(FinalEntry(key), Horizons[key.horizon]), exit # None
    PROVE  IsFinalExit(key, exit)
<1> DEFINE d == FinalEntry(key)
<1> DEFINE after == { s \in calendar : s > d }
<1> DEFINE nth == { s \in after : Cardinality({ t \in after : t <= s }) = Horizons[key.horizon] }
<1>1. nth # {} /\ exit = CHOOSE s \in nth : TRUE
  BY DEF SessionAfter
<1>2. exit \in nth
  BY <1>1
<1>3. exit \in calendar /\ exit > d
  BY <1>2
<1>4. { t \in after : t <= exit } = Between(d, exit)
  BY <1>3 DEF Between, CalendarOK
<1>5. Cardinality({ t \in after : t <= exit }) = Horizons[key.horizon]
  BY <1>2
<1>6. QED
  BY <1>3, <1>4, <1>5 DEF IsFinalExit, CalendarOK

LEMMA EarlierExit ==
    ASSUME NEW key, NEW s, NEW t, IsFinalExit(key, s), IsFinalExit(key, t), s < t
    PROVE  FALSE
<1> DEFINE d == FinalEntry(key)
<1>1. s \in Nat /\ t \in Nat
  BY SessionsAssumption DEF IsFinalExit
<1>2. IsFiniteSet(Between(d, t))
  BY FS_Subset, SessionsAssumption DEF Between
<1>3. \A u \in Sessions : u <= s => u <= t
  BY <1>1, SessionsAssumption
<1>4. Between(d, s) \in SUBSET Between(d, t)
  BY <1>3 DEF Between
<1>5. Cardinality(Between(d, t)) = Cardinality(Between(d, s))
  BY DEF IsFinalExit
<1>6. Between(d, t) = Between(d, s)
  BY <1>2, <1>4, <1>5, FS_Subset
<1>7. t \in Between(d, t) /\ t \notin Between(d, s)
  BY <1>1 DEF Between, IsFinalExit
<1>8. QED
  BY <1>6, <1>7

\* There is one such session.
LEMMA OneExit ==
    ASSUME NEW key, NEW s, NEW t, IsFinalExit(key, s), IsFinalExit(key, t)
    PROVE  s = t
<1>1. s \in Nat /\ t \in Nat
  BY SessionsAssumption DEF IsFinalExit
<1>2. s < t \/ t < s \/ s = t
  BY <1>1
<1>3. QED
  BY <1>2, EarlierExit

LEMMA InitOutcomeInv == Init => OutcomeInv
<1> SUFFICES ASSUME Init PROVE OutcomeInv
  OBVIOUS
<1>1. CalendarOK
  BY SessionsAssumption DEF Init, CalendarOK
<1>2. DOMAIN evaluator = Evaluators /\ \A e \in Evaluators : evaluator[e] = IdleEvaluator
  BY DEF Init
<1>3. \A e \in Evaluators : EvaluatorOK(e)
  BY <1>2 DEF EvaluatorOK, IdleEvaluator, Flushed
<1>4. DOMAIN outcomes = {}
  BY DEF Init
<1>5. QED
  BY <1>1, <1>2, <1>3, <1>4 DEF OutcomeInv

\* An evaluator that does nothing, while outcomes are only added.
LEMMA OthersKeepSweep ==
    ASSUME NEW e, EvaluatorOK(e), evaluator'[e] = evaluator[e],
           DOMAIN outcomes \subseteq DOMAIN outcomes'
    PROVE  EvaluatorOK(e)'
<1>1. At(e)' = At(e) /\ Flushed(e)' = Flushed(e)
  BY DEF At, Flushed
<1>2. \A change \in Flushed(e) : ChangeOK(change)'
  BY DEF EvaluatorOK, ChangeOK
<1>3. QED
  BY <1>1, <1>2 DEF EvaluatorOK

LEMMA OneSweepKeeps ==
    ASSUME OutcomeInv, NEW e \in Evaluators, calendar' = calendar, outcomes' = outcomes,
           DOMAIN evaluator' = Evaluators, EvaluatorOK(e)',
           \A f \in Evaluators \ {e} : evaluator'[f] = evaluator[f]
    PROVE  OutcomeInv'
<1>1. CalendarOK'
  BY DEF OutcomeInv, CalendarOK
<1>2. ASSUME NEW f \in Evaluators PROVE EvaluatorOK(f)'
  BY OthersKeepSweep DEF OutcomeInv
<1>3. \A key \in DOMAIN outcomes : OutcomeOK(key)'
  BY DEF OutcomeInv, OutcomeOK
<1>4. QED
  BY <1>1, <1>2, <1>3 DEF OutcomeInv

LEMMA IdleSweepsNothing ==
    ASSUME NEW e, evaluator[e] = IdleEvaluator
    PROVE  EvaluatorOK(e) /\ Flushed(e) = {}
  BY DEF EvaluatorOK, IdleEvaluator, Flushed

LEMMA GivenUpSweepKeeps ==
    ASSUME OutcomeInv, NEW e \in Evaluators, calendar' = calendar, outcomes' = outcomes,
           evaluator' = [ evaluator EXCEPT ![e] = IdleEvaluator ]
    PROVE  OutcomeInv'
<1>1. /\ DOMAIN evaluator' = Evaluators
      /\ evaluator'[e] = IdleEvaluator
      /\ \A f \in Evaluators \ {e} : evaluator'[f] = evaluator[f]
  BY DEF OutcomeInv
<1>2. EvaluatorOK(e)'
  BY <1>1 DEF EvaluatorOK, IdleEvaluator, Flushed
<1>3. QED
  BY <1>1, <1>2, OneSweepKeeps

LEMMA BeginSweepKeeps ==
    ASSUME OutcomeInv, NEW e \in Evaluators, BeginSweep(e)
    PROVE  OutcomeInv'
<1>1. EvaluatorOK(e)
  BY DEF OutcomeInv
<1>2. /\ DOMAIN evaluator' = Evaluators
      /\ \A f \in Evaluators \ {e} : evaluator'[f] = evaluator[f]
      /\ DOMAIN evaluator'[e] = { "pc", "todo", "price", "staged", "flushed" }
      /\ evaluator'[e].pc = "entry"
      /\ evaluator'[e].todo \subseteq DOMAIN Sweep
      /\ evaluator'[e].staged = evaluator[e].staged
      /\ evaluator'[e].flushed = evaluator[e].flushed
  BY <1>1 DEF OutcomeInv, EvaluatorOK, BeginSweep
<1>3. Flushed(e)' = Flushed(e) /\ outcomes' = outcomes /\ calendar' = calendar
  BY <1>2 DEF Flushed, BeginSweep, market
<1>4. \A change \in Flushed(e) : ChangeOK(change)'
  BY <1>1, <1>3 DEF EvaluatorOK, ChangeOK
<1>5. EvaluatorOK(e)'
  BY <1>2, <1>3, <1>4 DEF EvaluatorOK
<1>6. QED
  BY <1>2, <1>3, <1>5, OneSweepKeeps

LEMMA ReadEntryKeeps ==
    ASSUME OutcomeInv, NEW e \in Evaluators, ReadEntry(e)
    PROVE  OutcomeInv'
<1> DEFINE key == Sweep[At(e)]
<1> DEFINE entry == EntrySession(key.asOf)
<1>1. EvaluatorOK(e) /\ CalendarOK
  BY DEF OutcomeInv
<1>2. evaluator[e].todo # {}
  BY DEF ReadEntry
<1>3. At(e) \in evaluator[e].todo /\ key \in Keys
  BY <1>1, <1>2, PlaceInSweep DEF EvaluatorOK
<1>4. /\ DOMAIN evaluator' = Evaluators
      /\ \A f \in Evaluators \ {e} : evaluator'[f] = evaluator[f]
      /\ DOMAIN evaluator'[e] = { "pc", "todo", "price", "staged", "flushed" }
      /\ evaluator'[e].staged = {}
      /\ evaluator'[e].flushed = Flushed(e)
      /\ evaluator'[e].pc = IF entry = None THEN "entry" ELSE "exit"
      /\ evaluator'[e].todo = IF entry = None THEN evaluator[e].todo \ {At(e)} ELSE evaluator[e].todo
      /\ evaluator'[e].price = IF entry = None THEN None ELSE << entry, CloseOn(key.symbol, entry) >>
  BY <1>1 DEF OutcomeInv, EvaluatorOK, ReadEntry
<1>5. Flushed(e)' = Flushed(e) /\ outcomes' = outcomes /\ calendar' = calendar
  BY <1>4 DEF Flushed, ReadEntry, market
<1>6. \A change \in Flushed(e) : ChangeOK(change)'
  BY <1>1, <1>5 DEF EvaluatorOK, ChangeOK
<1>7. evaluator'[e].todo \subseteq DOMAIN Sweep
  BY <1>1, <1>4 DEF EvaluatorOK
<1>8. ASSUME evaluator'[e].pc = "exit"
      PROVE  evaluator'[e].todo # {} /\ evaluator'[e].price[1] = FinalEntry(Sweep[At(e)'])
  <2>1. entry # None
    BY <1>4, <1>8
  <2>2. evaluator'[e].todo = evaluator[e].todo /\ evaluator'[e].price[1] = entry
    BY <1>4, <2>1
  <2>3. At(e)' = At(e)
    BY <2>2 DEF At
  <2>4. QED
    BY <1>1, <1>2, <1>3, <2>2, <2>3, EntryIsFinal
<1>9. EvaluatorOK(e)'
  BY <1>4, <1>5, <1>6, <1>7, <1>8 DEF EvaluatorOK
<1>10. QED
  BY <1>4, <1>5, <1>9, OneSweepKeeps

\* The row written for a key, in whole or in part, lies on its sessions.
LEMMA ChangesLieOnSessions ==
    ASSUME NEW key \in Keys, NEW exit, IsFinalExit(key, exit), NEW entryPrice, NEW exitPrice
    PROVE  ChangeOK(Changes(ComputeOutcome(FinalEntry(key), exit, entryPrice, exitPrice), key))
<1> DEFINE row == ComputeOutcome(FinalEntry(key), exit, entryPrice, exitPrice)
<1> DEFINE changed == IF key \in DOMAIN outcomes
                      THEN { f \in Fields : outcomes[key][f] # row[f] } ELSE Fields
<1> DEFINE columns == [ f \in changed |-> row[f] ]
<1>1. Changes(row, key) = [ key |-> key, new |-> key \notin DOMAIN outcomes, columns |-> columns ]
  BY DEF Changes, Restrict
<1>2. Changes(row, key).key = key /\ Changes(row, key).columns = columns
  BY <1>1
<1>3. row.entry = FinalEntry(key) /\ row.exit = exit
  BY DEF ComputeOutcome
<1>4. "entry" \in DOMAIN columns => columns["entry"] = FinalEntry(key)
  BY <1>3
<1>5. "exit" \in DOMAIN columns => IsFinalExit(key, columns["exit"])
  BY <1>3
<1>6. DOMAIN columns = Fields \/ key \in DOMAIN outcomes
  OBVIOUS
<1>7. QED
  BY <1>2, <1>4, <1>5, <1>6 DEF ChangeOK

LEMMA ReadExitKeeps ==
    ASSUME OutcomeInv, NEW e \in Evaluators, ReadExit(e)
    PROVE  OutcomeInv'
<1> DEFINE key == Sweep[At(e)]
<1> DEFINE entry == evaluator[e].price[1]
<1> DEFINE entryPrice == evaluator[e].price[2]
<1> DEFINE exit == SessionAfter(entry, Horizons[key.horizon])
<1> DEFINE exitPrice == IF exit = None THEN None ELSE CloseOn(key.symbol, exit)
<1> DEFINE change == Changes(ComputeOutcome(entry, exit, entryPrice, exitPrice), key)
<1>1. EvaluatorOK(e) /\ CalendarOK
  BY DEF OutcomeInv
<1>2. evaluator[e].todo # {} /\ entry = FinalEntry(key)
  BY <1>1 DEF EvaluatorOK, ReadExit
<1>3. At(e) \in evaluator[e].todo /\ key \in Keys
  BY <1>1, <1>2, PlaceInSweep DEF EvaluatorOK
<1>4. /\ DOMAIN evaluator' = Evaluators
      /\ \A f \in Evaluators \ {e} : evaluator'[f] = evaluator[f]
      /\ DOMAIN evaluator'[e] = { "pc", "todo", "price", "staged", "flushed" }
      /\ evaluator'[e].staged = IF None \in {entryPrice, exitPrice} \/ DOMAIN change.columns = {}
                                THEN {} ELSE {change}
      /\ evaluator'[e].flushed = evaluator[e].flushed
      /\ evaluator'[e].pc = "entry"
      /\ evaluator'[e].todo = evaluator[e].todo \ {At(e)}
  BY <1>1 DEF OutcomeInv, EvaluatorOK, ReadExit
<1>5. outcomes' = outcomes /\ calendar' = calendar
  BY DEF ReadExit, market
<1>6. ASSUME NEW c \in Flushed(e)' PROVE ChangeOK(c)'
  <2>1. ChangeOK(c)
    <3>1. CASE c \in evaluator[e].flushed
      BY <1>1, <3>1 DEF EvaluatorOK, Flushed
    <3>2. CASE c \notin evaluator[e].flushed
      <4>1. c \in evaluator'[e].staged
        BY <1>4, <1>6, <3>2 DEF Flushed
      <4>2. c = change /\ exitPrice # None
        BY <1>4, <4>1
      <4>3. exit # None
        BY <4>2
      <4>4. IsFinalExit(key, exit)
        BY <1>1, <1>2, <1>3, <4>3, ExitIsFinal
      <4>5. QED
        BY <1>2, <1>3, <4>2, <4>4, ChangesLieOnSessions
    <3>3. QED
      BY <3>1, <3>2
  <2>2. QED
    BY <1>5, <2>1 DEF ChangeOK
<1>7. EvaluatorOK(e)'
  BY <1>1, <1>4, <1>6 DEF EvaluatorOK
<1>8. QED
  BY <1>4, <1>5, <1>7, OneSweepKeeps

\* What a commit writes for a key.
LEMMA WrittenIsFinal ==
    ASSUME OutcomeInv, NEW e \in Evaluators, NEW change \in Flushed(e)
    PROVE  /\ change.key \in Keys
           /\ Written(e, change.key).entry = FinalEntry(change.key)
           /\ IsFinalExit(change.key, Written(e, change.key).exit)
<1> DEFINE key == change.key
<1> DEFINE c == CHOOSE x \in Flushed(e) : x.key = key
<1>1. c \in Flushed(e) /\ c.key = key
  OBVIOUS
<1>2. ChangeOK(c) /\ EvaluatorOK(e)
  BY <1>1 DEF OutcomeInv, EvaluatorOK
<1>3. key \in DOMAIN outcomes => OutcomeOK(key)
  BY DEF OutcomeInv
<1>4. Written(e, key) = [ f \in Fields |-> IF f \in DOMAIN c.columns THEN c.columns[f] ELSE outcomes[key][f] ]
  BY DEF Written
<1>5. /\ Written(e, key)["entry"] =
             IF "entry" \in DOMAIN c.columns THEN c.columns["entry"] ELSE outcomes[key]["entry"]
      /\ Written(e, key)["exit"] =
             IF "exit" \in DOMAIN c.columns THEN c.columns["exit"] ELSE outcomes[key]["exit"]
  BY <1>4 DEF Fields
<1>6. DOMAIN c.columns = Fields \/ key \in DOMAIN outcomes
  BY <1>1, <1>2 DEF ChangeOK
<1>7. Written(e, key).entry = FinalEntry(key)
  BY <1>1, <1>2, <1>3, <1>5, <1>6 DEF ChangeOK, OutcomeOK, Fields
<1>8. IsFinalExit(key, Written(e, key).exit)
  BY <1>1, <1>2, <1>3, <1>5, <1>6 DEF ChangeOK, OutcomeOK, Fields
<1>9. QED
  BY <1>1, <1>2, <1>7, <1>8 DEF ChangeOK

LEMMA CommitSweepKeeps ==
    ASSUME OutcomeInv, NEW e \in Evaluators, CommitSweep(e)
    PROVE  OutcomeInv' /\ DOMAIN outcomes \subseteq DOMAIN outcomes'
<1> DEFINE keys == { c.key : c \in Flushed(e) }
<1>1. /\ DOMAIN evaluator' = Evaluators
      /\ evaluator'[e] = IdleEvaluator
      /\ \A f \in Evaluators \ {e} : evaluator'[f] = evaluator[f]
      /\ calendar' = calendar
  BY DEF OutcomeInv, CommitSweep, market
<1>2. /\ DOMAIN outcomes' = DOMAIN outcomes \union keys
      /\ \A key \in keys : outcomes'[key] = Written(e, key)
      /\ \A key \in DOMAIN outcomes \ keys : outcomes'[key] = outcomes[key]
  BY DEF CommitSweep
<1>3. CalendarOK'
  BY <1>1 DEF OutcomeInv, CalendarOK
<1>4. ASSUME NEW f \in Evaluators PROVE EvaluatorOK(f)'
  <2>1. CASE f = e
    BY <1>1, <2>1 DEF EvaluatorOK, IdleEvaluator, Flushed
  <2>2. CASE f # e
    BY <1>1, <1>2, <2>2, OthersKeepSweep DEF OutcomeInv
  <2>3. QED
    BY <2>1, <2>2
<1>5. ASSUME NEW key \in DOMAIN outcomes' PROVE OutcomeOK(key)'
  <2>1. CASE key \in keys
    <3>1. PICK change \in Flushed(e) : key = change.key
      BY <2>1
    <3>2. /\ key \in Keys
          /\ Written(e, key).entry = FinalEntry(key)
          /\ IsFinalExit(key, Written(e, key).exit)
      BY <3>1, WrittenIsFinal
    <3>3. QED
      BY <1>2, <2>1, <3>2 DEF OutcomeOK
  <2>2. CASE key \notin keys
    BY <1>2, <1>5, <2>2 DEF OutcomeInv, OutcomeOK
  <2>3. QED
    BY <2>1, <2>2
<1>6. QED
  BY <1>1, <1>2, <1>3, <1>4, <1>5 DEF OutcomeInv

LEMMA MarketKeepsOutcomes ==
    ASSUME OutcomeInv, MarketStep
    PROVE  OutcomeInv'
<1>1. evaluator' = evaluator /\ outcomes' = outcomes
  BY DEF MarketStep, ExtendCalendar, PriceSession, Restate
<1>2. CalendarOK'
  <2>1. CASE ExtendCalendar
    <3>1. PICK through \in Sessions \ calendar :
              calendar' = calendar \union { d \in Sessions : d <= through }
      BY <2>1 DEF ExtendCalendar
    <3>2. \A s, d \in Sessions : s <= d /\ d <= through => s <= through
      BY <3>1, SessionsAssumption
    <3>3. QED
      BY <3>1, <3>2 DEF OutcomeInv, CalendarOK
  <2>2. CASE PriceSession \/ Restate
    BY <2>2 DEF PriceSession, Restate, OutcomeInv, CalendarOK
  <2>3. QED
    BY <2>1, <2>2 DEF MarketStep
<1>3. \A e \in Evaluators : EvaluatorOK(e)'
  BY <1>1, OthersKeepSweep DEF OutcomeInv
<1>4. \A key \in DOMAIN outcomes : OutcomeOK(key)'
  BY <1>1 DEF OutcomeInv, OutcomeOK
<1>5. QED
  BY <1>1, <1>2, <1>3, <1>4 DEF OutcomeInv

LEMMA NothingKeepsOutcomes ==
    ASSUME OutcomeInv, UNCHANGED << calendar, evaluator, outcomes >>
    PROVE  OutcomeInv'
<1>1. CalendarOK'
  BY DEF OutcomeInv, CalendarOK
<1>2. \A e \in Evaluators : EvaluatorOK(e)'
  BY OthersKeepSweep DEF OutcomeInv
<1>3. \A key \in DOMAIN outcomes : OutcomeOK(key)'
  BY DEF OutcomeInv, OutcomeOK
<1>4. QED
  BY <1>1, <1>2, <1>3 DEF OutcomeInv

LEMMA SweepSteps ==
    ASSUME OutcomeInv, NEW e \in Evaluators, SweepStep(e) \/ CrashEvaluator(e)
    PROVE  OutcomeInv' /\ DOMAIN outcomes \subseteq DOMAIN outcomes'
<1>1. CASE BeginSweep(e)
  BY <1>1, BeginSweepKeeps DEF BeginSweep
<1>2. CASE ReadEntry(e)
  BY <1>2, ReadEntryKeeps DEF ReadEntry
<1>3. CASE ReadExit(e)
  BY <1>3, ReadExitKeeps DEF ReadExit
<1>4. CASE CommitSweep(e)
  BY <1>4, CommitSweepKeeps
<1>5. CASE RejectSweep(e) \/ CrashEvaluator(e)
  BY <1>5, GivenUpSweepKeeps DEF RejectSweep, CrashEvaluator, market
<1>6. QED
  BY <1>1, <1>2, <1>3, <1>4, <1>5 DEF SweepStep

LEMMA NextOutcomeInv ==
    ASSUME OutcomeInv, [Next]_vars
    PROVE  OutcomeInv' /\ DOMAIN outcomes \subseteq DOMAIN outcomes'
<1>1. CASE MarketStep
  BY <1>1, MarketKeepsOutcomes DEF MarketStep, ExtendCalendar, PriceSession, Restate
<1>2. ASSUME NEW r \in Reporters, ReporterStep(r)
      PROVE  OutcomeInv' /\ DOMAIN outcomes \subseteq DOMAIN outcomes'
  BY <1>2, NothingKeepsOutcomes DEF ReporterStep, Assess, InsertPrediction, CommitArchive,
        BreakDeadlock, CrashReporter, market
<1>3. CASE UNCHANGED vars
  BY <1>3, NothingKeepsOutcomes DEF vars
<1>4. QED
  BY <1>1, <1>2, <1>3, SweepSteps DEF Next

\* Two rows of one key name the same sessions.
SessionsKept ==
    \A key \in DOMAIN outcomes :
        /\ key \in DOMAIN outcomes'
        /\ outcomes'[key].entry = outcomes[key].entry
        /\ outcomes'[key].exit = outcomes[key].exit

LEMMA SameSessions ==
    ASSUME OutcomeInv, [Next]_vars
    PROVE  SessionsKept
<1> SUFFICES ASSUME NEW key \in DOMAIN outcomes
             PROVE  /\ key \in DOMAIN outcomes'
                    /\ outcomes'[key].entry = outcomes[key].entry
                    /\ outcomes'[key].exit = outcomes[key].exit
  BY DEF SessionsKept
<1>1. OutcomeOK(key) /\ key \in DOMAIN outcomes'
  BY NextOutcomeInv DEF OutcomeInv
<1>2. /\ outcomes'[key].entry = FinalEntry(key)
      /\ IsFinalExit(key, outcomes'[key].exit)
  BY <1>1, NextOutcomeInv DEF OutcomeInv, OutcomeOK
<1>3. QED
  BY <1>1, <1>2, OneExit DEF OutcomeOK

\* An outcome never moves to other sessions, however short the calendar was
\* when it was computed, whatever was restated and however many sweeps read,
\* collide and die (outcomes.py:3-7).
THEOREM OutcomesKeepTheirSessions == Spec => OutcomeSessionsAreFinal
<1>1. OutcomeInv /\ [Next]_vars => OutcomeInv'
  BY NextOutcomeInv
<1>2. OutcomeInv /\ [Next]_vars => [SessionsKept]_vars
  BY SameSessions
<1>3. Spec => [][SessionsKept]_vars
  BY <1>1, <1>2, InitOutcomeInv, PTL DEF Spec
<1>4. QED
  BY <1>3 DEF OutcomeSessionsAreFinal, SessionsKept

-----------------------------------------------------------------------------
(* Labels: the walk from a band toward neutral ends at the nearest whose     *)
(* floor is met.                                                             *)

LEMMA BandFacts ==
    /\ DOMAIN Bands = 1 .. 6 /\ Len(Bands) = 6
    /\ NeutralIndex = 3
    /\ Bands[6].floor = 60
    /\ \A i \in 1 .. 6 : Bands[i].label = "Strong Trim Candidate" => i = 6
    /\ \A i, j \in 1 .. 6 : Bands[i].label = Bands[j].label => i = j
<1>1. DOMAIN Bands = 1 .. 6
  BY DEF Bands
<1>2. Len(Bands) = 6
  BY DEF Bands
<1>3. /\ Bands[1].upper = 25 /\ Bands[2].upper = 40 /\ Bands[3].upper = 60
      /\ Bands[4].upper = 75 /\ Bands[5].upper = 90 /\ Bands[6].upper = 100
  BY DEF Bands
<1>4. Bands[6].floor = 60
  BY DEF Bands
<1>5. /\ Bands[1].label = "Maintain" /\ Bands[2].label = "Hold / Monitor" /\ Bands[3].label = "Mixed Evidence"
      /\ Bands[4].label = "Trim Consideration" /\ Bands[5].label = "Trim"
      /\ Bands[6].label = "Strong Trim Candidate"
  BY DEF Bands
<1>6. NeutralIndex = 3
  <2> DEFINE higher == {i \in DOMAIN Bands : 0 < (Bands[i].upper - 50) * 1}
  <2>1. higher = {3, 4, 5, 6}
    BY <1>1, <1>3
  <2>2. Min(higher) = 3
    BY <2>1 DEF Min
  <2>3. QED
    BY <2>1, <2>2 DEF NeutralIndex, BandIndex
<1>7. \A i \in 1 .. 6 : i = 1 \/ i = 2 \/ i = 3 \/ i = 4 \/ i = 5 \/ i = 6
  OBVIOUS
<1>8. QED
  BY <1>1, <1>2, <1>4, <1>5, <1>6, <1>7

LEMMA BandInRange ==
    ASSUME NEW above, NEW unit
    PROVE  BandIndex(above, unit) \in 1 .. 6
<1> DEFINE higher == {i \in DOMAIN Bands : above < (Bands[i].upper - 50) * unit}
<1>0. BandIndex(above, unit) = IF higher = {} THEN 6 ELSE Min(higher)
  BY BandFacts DEF BandIndex
<1>4. \A i \in higher : i \in 1 .. 6
  BY BandFacts
<1> HIDE DEF higher
<1>1. CASE higher = {}
  BY <1>0, <1>1
<1>2. CASE higher # {}
  <2>1. higher \subseteq 1 .. 6
    BY <1>4
  <2>2. \E m \in higher : \A x \in higher : m <= x
    <3>3. \A i \in 1 .. 6 : i = 1 \/ i = 2 \/ i = 3 \/ i = 4 \/ i = 5 \/ i = 6
      OBVIOUS
    <3>1. 1 \in higher \/ 2 \in higher \/ 3 \in higher \/ 4 \in higher \/ 5 \in higher \/ 6 \in higher
      BY <1>2, <2>1, <3>3
    <3>2. QED
      BY <2>1, <3>1, <3>3
  <2>3. Min(higher) \in higher
    BY <2>2, Zenon DEF Min
  <2>4. QED
    BY <1>0, <1>2, <2>1, <2>3
<1>3. QED
  BY <1>1, <1>2

\* g is the recursive function of Label.
IsToward(g, confidence) ==
    g = [ i \in DOMAIN Bands |->
            IF Ungated(i, confidence) \/ i = NeutralIndex THEN i
            ELSE g[IF i < NeutralIndex THEN i + 1 ELSE i - 1] ]

LEMMA LabelIsToward ==
    ASSUME NEW above, NEW unit, NEW confidence
    PROVE  Label(above, unit, confidence) = (CHOOSE g : IsToward(g, confidence))[BandIndex(above, unit)]
  BY DEF Label, IsToward

\* What the steps from a band end at.
EndsAt(g, confidence) ==
    /\ g[3] = 3
    /\ g[2] = IF Ungated(2, confidence) THEN 2 ELSE g[3]
    /\ g[1] = IF Ungated(1, confidence) THEN 1 ELSE g[2]
    /\ g[4] = IF Ungated(4, confidence) THEN 4 ELSE g[3]
    /\ g[5] = IF Ungated(5, confidence) THEN 5 ELSE g[4]
    /\ g[6] = IF Ungated(6, confidence) THEN 6 ELSE g[5]

LEMMA TowardExists ==
    ASSUME NEW confidence
    PROVE  \E g : IsToward(g, confidence)
<1> DEFINE U(i) == Ungated(i, confidence)
           two == IF U(2) THEN 2 ELSE 3
           four == IF U(4) THEN 4 ELSE 3
           five == IF U(5) THEN 5 ELSE four
           w == [ i \in 1 .. 6 |-> IF i = 3 THEN 3 ELSE IF i = 2 THEN two
                    ELSE IF i = 1 THEN (IF U(1) THEN 1 ELSE two)
                    ELSE IF i = 4 THEN four ELSE IF i = 5 THEN five ELSE IF U(6) THEN 6 ELSE five ]
<1> HIDE DEF U
<1>1. ASSUME NEW i \in 1 .. 6
      PROVE  w[i] = IF U(i) \/ i = 3 THEN i ELSE w[IF i < 3 THEN i + 1 ELSE i - 1]
  <2>1. i = 1 \/ i = 2 \/ i = 3 \/ i = 4 \/ i = 5 \/ i = 6
    OBVIOUS
  <2>2. CASE i = 1
    BY <2>2
  <2>3. CASE i = 2
    BY <2>3
  <2>4. CASE i = 3
    BY <2>4
  <2>5. CASE i = 4
    BY <2>5
  <2>6. CASE i = 5
    BY <2>6
  <2>7. CASE i = 6
    BY <2>7
  <2>8. QED
    BY <2>1, <2>2, <2>3, <2>4, <2>5, <2>6, <2>7
<1>2. w = [ i \in 1 .. 6 |-> w[i] ]
  OBVIOUS
<1> HIDE DEF w
<1>3. w = [ i \in 1 .. 6 |-> IF U(i) \/ i = 3 THEN i ELSE w[IF i < 3 THEN i + 1 ELSE i - 1] ]
  BY <1>1, <1>2
<1>4. IsToward(w, confidence)
  <2>1. DOMAIN Bands = 1 .. 6 /\ NeutralIndex = 3
    BY BandFacts
  <2>2. QED
    BY <1>3, <2>1, Zenon DEF IsToward, U
<1>5. QED
  BY <1>4

LEMMA TowardEnds ==
    ASSUME NEW confidence
    PROVE  EndsAt(CHOOSE g : IsToward(g, confidence), confidence)
<1> DEFINE t == CHOOSE g : IsToward(g, confidence)
<1>1. IsToward(t, confidence)
  BY TowardExists
<1> HIDE DEF t
<1>0. t = [ i \in 1 .. 6 |-> IF Ungated(i, confidence) \/ i = 3 THEN i
                              ELSE t[IF i < 3 THEN i + 1 ELSE i - 1] ]
  <2>1. DOMAIN Bands = 1 .. 6 /\ NeutralIndex = 3
    BY BandFacts
  <2>2. QED
    BY <1>1, <2>1 DEF IsToward
<1>2. \A i \in 1 .. 6 : t[i] = IF Ungated(i, confidence) \/ i = 3 THEN i
                              ELSE t[IF i < 3 THEN i + 1 ELSE i - 1]
  BY <1>0
<1>3. t[3] = 3
  BY <1>2
<1>4. t[2] = IF Ungated(2, confidence) THEN 2 ELSE t[3]
  BY <1>2
<1>5. t[1] = IF Ungated(1, confidence) THEN 1 ELSE t[2]
  BY <1>2
<1>6. t[4] = IF Ungated(4, confidence) THEN 4 ELSE t[3]
  BY <1>2
<1>7. t[5] = IF Ungated(5, confidence) THEN 5 ELSE t[4]
  BY <1>2
<1>8. t[6] = IF Ungated(6, confidence) THEN 6 ELSE t[5]
  BY <1>2
<1>9. QED
  BY <1>3, <1>4, <1>5, <1>6, <1>7, <1>8 DEF EndsAt, t

\* The label is that of the nearest band on the way to neutral whose floor is met.
LEMMA NearestUngated ==
    ASSUME NEW above, NEW unit, NEW confidence
    PROVE  LET band == BandIndex(above, unit)
               i == Label(above, unit, confidence)
           IN  /\ i \in 1 .. 6
               /\ i \in 3 .. band \cup band .. 3
               /\ Ungated(i, confidence) \/ i = 3
               /\ \A j \in 1 .. 6 : /\ j \in 3 .. band \cup band .. 3
                                    /\ Square(j - 3) > Square(i - 3)
                                    => ~ Ungated(j, confidence)
<1> DEFINE band == BandIndex(above, unit)
           t == CHOOSE g : IsToward(g, confidence)
           U(j) == Ungated(j, confidence)
<1>1. band \in 1 .. 6 /\ (band = 1 \/ band = 2 \/ band = 3 \/ band = 4 \/ band = 5 \/ band = 6)
  BY BandInRange
<1>2. /\ t[3] = 3
      /\ t[2] = IF U(2) THEN 2 ELSE t[3]
      /\ t[1] = IF U(1) THEN 1 ELSE t[2]
      /\ t[4] = IF U(4) THEN 4 ELSE t[3]
      /\ t[5] = IF U(5) THEN 5 ELSE t[4]
      /\ t[6] = IF U(6) THEN 6 ELSE t[5]
  BY TowardEnds DEF EndsAt
<1>3. Label(above, unit, confidence) = t[band]
  BY LabelIsToward
<1> HIDE DEF band, t, U
<1>4. ASSUME NEW i, i = t[band]
      PROVE  /\ i \in 1 .. 6
             /\ i \in 3 .. band \cup band .. 3
             /\ U(i) \/ i = 3
             /\ \A j \in 1 .. 6 : j \in 3 .. band \cup band .. 3 /\ Square(j - 3) > Square(i - 3) => ~ U(j)
  <2>0. /\ Square(1 - 3) = 4 /\ Square(2 - 3) = 1 /\ Square(3 - 3) = 0
        /\ Square(4 - 3) = 1 /\ Square(5 - 3) = 4 /\ Square(6 - 3) = 9
    BY DEF Square
  <2> DEFINE Good(k, b) == \A j \in 1 .. 6 : j \in 3 .. b \cup b .. 3 /\ Square(j - 3) > Square(k - 3) => ~ U(j)
  <2>1. CASE band = 1
    BY <1>2, <1>4, <2>0, <2>1
  <2>2. CASE band = 2
    BY <1>2, <1>4, <2>0, <2>2
  <2>3. CASE band = 3
    BY <1>2, <1>4, <2>0, <2>3
  <2>4. CASE band = 4
    BY <1>2, <1>4, <2>0, <2>4
  <2>5. CASE band = 5
    BY <1>2, <1>4, <2>0, <2>5
  <2>6. CASE band = 6
    BY <1>2, <1>4, <2>0, <2>6
  <2>7. QED
    BY <1>1, <2>1, <2>2, <2>3, <2>4, <2>5, <2>6
<1>5. QED
  BY <1>3, <1>4 DEF band, U

\* What models may have said.
SaidOK(said) == DOMAIN said \subseteq AllModels /\ \A m \in DOMAIN said : said[m] \in Evidences

LEMMA ModelsFinite == IsFiniteSet(AllModels)
<1> DEFINE n == Len(ModelOrder)
           f == [ i \in 1 .. n |-> ModelOrder[i] ]
<1>1. n \in Nat /\ DOMAIN ModelOrder = 1 .. n
  BY ModelsAssumption
<1>2. f \in Surjection(1 .. n, AllModels)
  BY <1>1 DEF Surjection, AllModels, Range
<1>3. IsFiniteSet(1 .. n)
  BY <1>1, FS_Interval
<1> HIDE DEF f, n
<1>4. QED
  BY <1>2, <1>3, FS_Surjection

LEMMA ParticipantsOK ==
    ASSUME NEW said, SaidOK(said)
    PROVE  /\ IsFiniteSet(DOMAIN said)
           /\ IsFiniteSet(Participating(said))
           /\ Participating(said) \subseteq DOMAIN said
           /\ \A m \in Participating(said) :
                 said[m].effect \in Int /\ said[m].root \in Nat \ {0} /\ said[m].size \in Nat
<1>1. Participating(said) \subseteq DOMAIN said
  BY DEF Participating, Official
<1>2. IsFiniteSet(DOMAIN said)
  BY ModelsFinite, FS_Subset DEF SaidOK
<1>3. IsFiniteSet(Participating(said))
  BY <1>1, <1>2, FS_Subset
<1>4. \A m \in Participating(said) :
         said[m].effect \in Int /\ said[m].root \in Nat \ {0} /\ said[m].size \in Nat
  BY <1>1, EvidencesAssumption DEF Participating, SaidOK
<1>5. QED
  BY <1>1, <1>2, <1>3, <1>4

-----------------------------------------------------------------------------
(* The sums over models, as sums of functions. *)

IsTotal(g, said, S) ==
    g = [ T \in SUBSET S |-> IF T = {} THEN 0 ELSE Precision(said, Chosen(T)) + g[T \ {Chosen(T)}] ]

LEMMA TotalIsSum ==
    ASSUME NEW said, NEW S, IsFiniteSet(S), NEW f, \A m \in S : f[m] = Precision(said, m)
    PROVE  Total(said, S) = SumOver(f, S)
<1> DEFINE h == [ T \in SUBSET S |-> SumOver(f, T) ]
<1>1. Total(said, S) = (CHOOSE g : IsTotal(g, said, S))[S]
  BY DEF Total, MapThenSumSet, MapThenFoldSet, IsTotal, Chosen
<1>2. \A T \in SUBSET S : T # {} => Chosen(T) \in S
  BY DEF Chosen
<1>3. ASSUME NEW g PROVE IsTotal(g, said, S) <=> IsSumOf(g, f, S)
  <2>1. \A T \in SUBSET S : T # {} => Precision(said, Chosen(T)) = f[Chosen(T)]
    BY <1>2
  <2>2. [ T \in SUBSET S |-> IF T = {} THEN 0 ELSE Precision(said, Chosen(T)) + g[T \ {Chosen(T)}] ]
        = [ T \in SUBSET S |-> IF T = {} THEN 0 ELSE f[Chosen(T)] + g[T \ {Chosen(T)}] ]
    BY <2>1
  <2>3. QED
    BY <2>2 DEF IsTotal, IsSumOf
<1>4. IsSumOf(h, f, S)
  BY SumsExist
<1>5. IsTotal(CHOOSE g : IsTotal(g, said, S), said, S)
  BY <1>3, <1>4
<1>6. (CHOOSE g : IsTotal(g, said, S)) = h
  BY <1>3, <1>4, <1>5, SumsUnique
<1>7. QED
  BY <1>1, <1>6

IsPull(g, said, S) ==
    g = [ T \in SUBSET S |-> IF T = {} THEN 0
            ELSE Precision(said, Chosen(T)) * said[Chosen(T)].effect + g[T \ {Chosen(T)}] ]

LEMMA PullIsSum ==
    ASSUME NEW said, NEW S, IsFiniteSet(S), NEW f, \A m \in S : f[m] = Precision(said, m) * said[m].effect
    PROVE  Pull(said, S) = SumOver(f, S)
<1> DEFINE h == [ T \in SUBSET S |-> SumOver(f, T) ]
<1>1. Pull(said, S) = (CHOOSE g : IsPull(g, said, S))[S]
  BY DEF Pull, MapThenSumSet, MapThenFoldSet, IsPull, Chosen
<1>2. \A T \in SUBSET S : T # {} => Chosen(T) \in S
  BY DEF Chosen
<1>3. ASSUME NEW g PROVE IsPull(g, said, S) <=> IsSumOf(g, f, S)
  <2>1. \A T \in SUBSET S : T # {} => Precision(said, Chosen(T)) * said[Chosen(T)].effect = f[Chosen(T)]
    BY <1>2
  <2>2. [ T \in SUBSET S |-> IF T = {} THEN 0
            ELSE Precision(said, Chosen(T)) * said[Chosen(T)].effect + g[T \ {Chosen(T)}] ]
        = [ T \in SUBSET S |-> IF T = {} THEN 0 ELSE f[Chosen(T)] + g[T \ {Chosen(T)}] ]
    BY <2>1
  <2>3. QED
    BY <2>2 DEF IsPull, IsSumOf
<1>4. IsSumOf(h, f, S)
  BY SumsExist
<1>5. IsPull(CHOOSE g : IsPull(g, said, S), said, S)
  BY <1>3, <1>4
<1>6. (CHOOSE g : IsPull(g, said, S)) = h
  BY <1>3, <1>4, <1>5, SumsUnique
<1>7. QED
  BY <1>1, <1>6

\* Each participant counts, and those that agree are some of them.
LEMMA Weights ==
    ASSUME NEW said, SaidOK(said), Participating(said) # {}
    PROVE  LET models == Participating(said)
           IN  /\ Total(said, models) \in Nat \ {0}
               /\ Agreeing(said, models) \in Nat /\ Agreeing(said, models) <= Total(said, models)
<1> DEFINE models == Participating(said)
           f == [ m \in models |-> Precision(said, m) ]
           some == {m \in models : (said[m].effect >= 0) = (Pull(said, models) >= 0)}
<1>1. IsFiniteSet(models) /\ some \in SUBSET models
  BY ParticipantsOK
<1>2. \A m \in models : f[m] \in Nat \ {0}
  <2>1. \A m \in models : said[m].root \in Nat \ {0}
    BY ParticipantsOK
  <2>2. \A r \in Nat \ {0} : r * r \in Nat \ {0}
    OBVIOUS
  <2>3. QED
    BY <2>1, <2>2 DEF Precision, Square
<1>3. Total(said, models) = SumOver(f, models)
  BY <1>1, TotalIsSum
<1>4. Agreeing(said, models) = SumOver(f, some)
  <2>1. IsFiniteSet(some)
    BY <1>1, FS_Subset
  <2>2. \A m \in some : f[m] = Precision(said, m)
    OBVIOUS
  <2>3. Total(said, some) = SumOver(f, some)
    BY <2>1, <2>2, TotalIsSum
  <2>4. QED
    BY <2>3 DEF Agreeing
<1> HIDE DEF f, some
<1>5. SumOver(f, models) \in Nat /\ SumOver(f, some) \in Nat /\ SumOver(f, some) <= SumOver(f, models)
  <2>1. IsFiniteSet(some)
    BY <1>1, FS_Subset
  <2>2. \A m \in models : f[m] \in Nat
    BY <1>2
  <2>3. SumOver(f, models) \in Nat
    BY <1>1, <2>2, SumNat
  <2>4. SumOver(f, some) \in Nat
    BY <1>1, <2>1, <2>2, SumNat
  <2>5. SumOver(f, some) <= SumOver(f, models)
    BY <1>1, <2>2, SumPart
  <2>6. QED
    BY <2>3, <2>4, <2>5
<1>6. SumOver(f, models) # 0
  <2>1. PICK m \in models : TRUE
    OBVIOUS
  <2>2. SumOver(f, {m}) = f[m] /\ f[m] \in Nat \ {0}
    <3>1. f[m] \in Nat \ {0} /\ f[m] \in Int
      BY <1>2, <2>1
    <3>2. QED
      BY <3>1, SumSingle
  <2>3. \A x \in models : f[x] \in Nat
    BY <1>2
  <2>4. {m} \in SUBSET models
    OBVIOUS
  <2>5. SumOver(f, {m}) <= SumOver(f, models)
    BY <1>1, <2>3, <2>4, SumPart
  <2>6. QED
    BY <1>5, <2>2, <2>5
<1>7. QED
  BY <1>3, <1>4, <1>5, <1>6

LEMMA SizeIsNat ==
    ASSUME NEW said, SaidOK(said), Participating(said) # {}
    PROVE  Size(said, Participating(said)) \in Nat
<1> DEFINE models == Participating(said)
           sizes == {said[m].size : m \in models}
           f == [ m \in models |-> said[m].size ]
<1>1. IsFiniteSet(models) /\ \A m \in models : said[m].size \in Nat
  BY ParticipantsOK
<1>2. f \in Surjection(models, sizes)
  BY DEF Surjection
<1>3. sizes # {} /\ sizes \subseteq Int /\ sizes \subseteq Nat
  BY <1>1
<1> HIDE DEF f, sizes
<1>4. IsFiniteSet(sizes)
  <2> HIDE DEF models
  <2>1. QED
    BY <1>1, <1>2, FS_Surjection
<1>5. Max(sizes) \in sizes
  BY <1>3, <1>4, HasMax
<1>6. QED
  BY <1>3, <1>5 DEF Size, sizes

-----------------------------------------------------------------------------
\* The assessment's parts.
LEMMA CombineParts ==
    ASSUME NEW said, NEW omitted
    PROVE  LET c == Combine(said, omitted)
               models == Participating(said)
           IN  /\ c.participating = models
               /\ c.pull = Pull(said, models)
               /\ c.shares = [m \in models |-> Precision(said, m) * said[m].effect]
               /\ c.edge = IF models = {} THEN 0 ELSE Edge(said, models)
               /\ c.size = IF models = {} THEN 0 ELSE Size(said, models)
               /\ c.confidence = IF models = {} THEN << 0, 1 >>
                                 ELSE << Size(said, models) * Agreeing(said, models),
                                         (Size(said, models) + PriorEvents) * Total(said, models) >>
               /\ c.dissent = IF models = {} THEN << 0, 1 >>
                              ELSE << Total(said, models) - Agreeing(said, models), Total(said, models) >>
  BY DEF Combine

LEMMA StrongArithmetic ==
    ASSUME NEW S \in Nat, NEW T \in Nat \ {0}, NEW A \in Nat, A <= T,
           60 * ((S + 30) * T) <= 100 * (S * A)
    PROVE  /\ 2 * S >= 90
           /\ ~ (2 * (T - A) >= T)
<1> DEFINE P == S * A
           Q == S * T
<1>1. P \in Nat /\ Q \in Nat
  OBVIOUS
<1>2. P <= Q
  OBVIOUS
<1>3. (S + 30) * T = Q + 30 * T
  OBVIOUS
<1>4. 60 * Q + 1800 * T <= 100 * P
  <2> HIDE DEF P, Q
  <2>1. 60 * (Q + 30 * T) <= 100 * P
    BY <1>3 DEF P
  <2>2. QED
    BY <1>1, <2>1
<1>5. 45 * T <= Q
  <2> HIDE DEF P, Q
  <2>1. QED
    BY <1>1, <1>2, <1>4
<1>6. S >= 45
  <2> SUFFICES ASSUME S <= 44 PROVE FALSE
    OBVIOUS
  <2>1. Q <= 44 * T
    OBVIOUS
  <2> HIDE DEF P, Q
  <2>2. QED
    BY <1>1, <1>5, <2>1
<1>7. ~ (2 * (T - A) >= T)
  <2> SUFFICES ASSUME 2 * A <= T PROVE FALSE
    OBVIOUS
  <2>1. 2 * P <= Q
    <3>1. S * (2 * A) <= S * T
      OBVIOUS
    <3>2. S * (2 * A) = 2 * P
      OBVIOUS
    <3>3. QED
      BY <3>1, <3>2
  <2> HIDE DEF P, Q
  <2>2. QED
    BY <1>1, <1>4, <2>1
<1>8. QED
  BY <1>6, <1>7

\* What a verdict was reached from is still there to see.
RulesInv ==
    /\ heard \in 0 .. Len(ModelOrder)
    /\ SaidOK(evidence)
    /\ verdict # Missing =>
         /\ heard = Len(ModelOrder)
         /\ \E position \in Positions \cup {Missing}, source \in Shadow \cup {Missing} :
               verdict = Review(evidence, AllModels \ DOMAIN evidence, position, Catalyst(evidence, source))

LEMMA InitRulesInv == RulesInit => RulesInv
<1> SUFFICES ASSUME RulesInit PROVE RulesInv
  OBVIOUS
<1>1. heard = 0 /\ evidence = [m \in {} |-> Missing] /\ verdict = Missing
  BY DEF RulesInit
<1>2. Len(ModelOrder) \in Nat
  BY ModelsAssumption
<1>3. SaidOK(evidence)
  BY <1>1 DEF SaidOK
<1>4. QED
  BY <1>1, <1>2, <1>3 DEF RulesInv

LEMMA NextRulesInv == RulesInv /\ [RulesNext]_rulesVars => RulesInv'
<1> SUFFICES ASSUME RulesInv, [RulesNext]_rulesVars PROVE RulesInv'
  OBVIOUS
<1> DEFINE n == Len(ModelOrder)
<1>1. n \in Nat /\ DOMAIN ModelOrder = 1 .. n
  BY ModelsAssumption
<1>2. heard \in 0 .. n /\ SaidOK(evidence)
  BY DEF RulesInv
<1>3. ASSUME NEW e \in Evidences \cup {Missing}, GatherModel(e) PROVE RulesInv'
  <2>1. /\ heard < n /\ heard' = heard + 1 /\ verdict' = verdict
        /\ evidence' = IF e = Missing THEN evidence
                       ELSE [m \in DOMAIN evidence \cup {ModelOrder[heard + 1]} |->
                               IF m \in DOMAIN evidence THEN evidence[m] ELSE e]
    BY <1>3 DEF GatherModel
  <2>2. verdict = Missing
    BY <1>1, <2>1 DEF RulesInv
  <2>3. heard' \in 0 .. n
    BY <1>1, <1>2, <2>1
  <2>4. SaidOK(evidence')
    <3>1. CASE e = Missing
      BY <1>2, <2>1, <3>1
    <3>2. CASE e # Missing
      <4>1. heard + 1 \in DOMAIN ModelOrder
        BY <1>1, <1>2, <2>1
      <4>2. ModelOrder[heard + 1] \in AllModels
        BY <4>1 DEF AllModels, Range
      <4> DEFINE next == ModelOrder[heard + 1]
      <4>3. evidence' = [m \in DOMAIN evidence \cup {next} |-> IF m \in DOMAIN evidence THEN evidence[m] ELSE e]
        BY <2>1, <3>2
      <4> HIDE DEF next
      <4>4. next \in AllModels /\ e \in Evidences
        BY <3>2, <4>2 DEF next
      <4>5. QED
        BY <1>2, <4>3, <4>4 DEF SaidOK
    <3>3. QED
      BY <3>1, <3>2
  <2>5. QED
    BY <2>1, <2>2, <2>3, <2>4 DEF RulesInv
<1>4. ASSUME NEW position \in Positions \cup {Missing}, NEW source \in Shadow \cup {Missing},
             ReviewHolding(position, source)
      PROVE  RulesInv'
  <2>1. /\ heard = n /\ heard' = heard /\ evidence' = evidence
        /\ verdict' = Review(evidence, AllModels \ DOMAIN evidence, position, Catalyst(evidence, source))
    BY <1>4 DEF ReviewHolding
  <2>2. QED
    BY <1>2, <2>1 DEF RulesInv
<1>5. ASSUME UNCHANGED rulesVars PROVE RulesInv'
  BY <1>5 DEF RulesInv, rulesVars
<1>6. QED
  BY <1>3, <1>4, <1>5 DEF RulesNext

-----------------------------------------------------------------------------
LEMMA ReviewParts ==
    ASSUME NEW said, NEW omitted, NEW position, NEW catalyst
    PROVE  LET r == Review(said, omitted, position, catalyst)
           IN  /\ r.position = position
               /\ r.combined = Combine(said, omitted)
               /\ r.trim = AssessTrim(r.combined, position)
               /\ r.lines = Attribute(r.combined, r.trim, position)
               /\ r.recommendation.catalyst = catalyst
  BY DEF Review, Recommendation

LEMMA TrimParts ==
    ASSUME NEW combined, NEW position
    PROVE  LET t == AssessTrim(combined, position)
           IN  /\ t.unit = 12 * combined.confidence[2]
               /\ t.evidence = -12 * combined.confidence[1] * combined.edge
               /\ t.overlay = combined.confidence[2] * Adjustment(position)
               /\ t.above = Larger(-50 * t.unit, Smaller(50 * t.unit, t.evidence + t.overlay))
               /\ t.label = IF combined.participating = {} THEN "Insufficient Evidence"
                            ELSE Bands[Label(t.above, t.unit, combined.confidence)].label
               /\ t.quality = DataQuality(combined)
               /\ t.drivers = {m \in combined.participating : combined.shares[m] < 0}
  BY DEF AssessTrim

\* The strongest label needs evidence that is not conflicted and rests on many events.
LEMMA StrongIsEarned ==
    ASSUME NEW said, SaidOK(said), NEW omitted, Participating(said) # {},
           Ungated(6, Combine(said, omitted).confidence)
    PROVE  LET c == Combine(said, omitted)
           IN  DataQuality(c) # "conflicted" /\ 2 * c.size >= 3 * PriorEvents
<1> DEFINE c == Combine(said, omitted)
           models == Participating(said)
           S == Size(said, models)
           T == Total(said, models)
           A == Agreeing(said, models)
<1>1. /\ c.size = S
      /\ c.confidence = << S * A, (S + PriorEvents) * T >>
      /\ c.dissent = << T - A, T >>
  BY CombineParts
<1>2. S \in Nat /\ T \in Nat \ {0} /\ A \in Nat /\ A <= T
  BY Weights, SizeIsNat
<1>3. 60 * c.confidence[2] <= 100 * c.confidence[1]
  BY BandFacts DEF Ungated
<1> HIDE DEF c, S, T, A
<1>4. c.confidence[1] = S * A /\ c.confidence[2] = (S + 30) * T /\ c.dissent[1] = T - A /\ c.dissent[2] = T
  BY <1>1 DEF PriorEvents
<1>5. 2 * S >= 90 /\ ~ (2 * (T - A) >= T)
  BY <1>2, <1>3, <1>4, StrongArithmetic
<1>6. 2 * c.size >= 3 * PriorEvents
  BY <1>1, <1>5 DEF PriorEvents
<1>7. DataQuality(c) # "conflicted"
  BY <1>4, <1>5 DEF DataQuality
<1>8. QED
  BY <1>6, <1>7 DEF c

Strongest(label) == label = "Strong Trim Candidate"

LEMMA StrongestIsLast == \A i \in 1 .. 6 : Strongest(Bands[i].label) => i = 6
  BY BandFacts, Zenon DEF Strongest

LEMMA EarnedLabels == RulesInv => LabelIsEarned
<1> SUFFICES ASSUME RulesInv, verdict # Missing, verdict.combined.participating # {}
             PROVE  LabelIsEarned
  BY DEF LabelIsEarned, Reviewed
<1> DEFINE om == AllModels \ DOMAIN evidence
<1>1. PICK position \in Positions \cup {Missing}, source \in Shadow \cup {Missing} :
        verdict = Review(evidence, om, position, Catalyst(evidence, source))
  BY DEF RulesInv
<1> DEFINE combined == Combine(evidence, om)
           trim == AssessTrim(combined, position)
           band == BandIndex(trim.above, trim.unit)
           i == Label(trim.above, trim.unit, combined.confidence)
<1> HIDE DEF om
<1>2. verdict.combined = combined /\ verdict.trim = trim
  BY <1>1, ReviewParts
<1>3. SaidOK(evidence)
  BY DEF RulesInv
<1>4. combined.participating # {} /\ Participating(evidence) # {}
  BY <1>2, CombineParts
<1>5. trim.label = Bands[i].label /\ trim.quality = DataQuality(combined)
  BY <1>4, TrimParts
<1>6. /\ i \in 1 .. 6
      /\ i \in 3 .. band \cup band .. 3
      /\ Ungated(i, combined.confidence) \/ i = 3
      /\ \A j \in 1 .. 6 : j \in 3 .. band \cup band .. 3 /\ Square(j - 3) > Square(i - 3)
                           => ~ Ungated(j, combined.confidence)
  BY NearestUngated
<1>7. Strongest(trim.label) =>
        trim.quality # "conflicted" /\ 2 * combined.size >= 3 * PriorEvents
  <2> SUFFICES ASSUME Strongest(trim.label)
               PROVE  trim.quality # "conflicted" /\ 2 * combined.size >= 3 * PriorEvents
    OBVIOUS
  <2>1. Strongest(Bands[i].label)
    BY <1>5
  <2> HIDE DEF trim, i, combined, band
  <2>2. i = 6
    BY <1>6, <2>1, StrongestIsLast
  <2>3. i # 3
    BY <2>2
  <2>4. Ungated(6, combined.confidence)
    BY <1>6, <2>2, <2>3, Zenon
  <2>5. QED
    BY <1>3, <1>4, <1>5, <2>4, StrongIsEarned DEF combined
<1> HIDE DEF combined, trim, band, i
<1>8. \E k \in DOMAIN Bands :
         /\ Bands[k].label = trim.label /\ k \in NeutralIndex .. band \cup band .. NeutralIndex
         /\ Ungated(k, combined.confidence) \/ k = NeutralIndex
         /\ \A j \in DOMAIN Bands : /\ j \in NeutralIndex .. band \cup band .. NeutralIndex
                                    /\ Square(j - NeutralIndex) > Square(k - NeutralIndex)
                                    => ~ Ungated(j, combined.confidence)
  BY <1>5, <1>6, BandFacts
<1>9. QED
  BY <1>2, <1>7, <1>8 DEF LabelIsEarned, Ungated, band, Strongest

\* Whatever the models say of a holding, its label is that of the nearest band toward
\* neutral whose confidence floor is met, and the strongest one is never given on
\* conflicted evidence or on few events (apply_label, engine/trim.py).
THEOREM LabelsAreEarned ==
    RulesInit /\ [][RulesNext]_rulesVars => []LabelIsEarned
<1>1. QED
  BY InitRulesInv, NextRulesInv, EarnedLabels, PTL

-----------------------------------------------------------------------------
(* The lines of the attribution.                                             *)

IsTakings(g, models, S) ==
    g = [ T \in SUBSET S |-> IF T = {} THEN 0 ELSE models[Chosen(T)][1] + g[T \ {Chosen(T)}] ]

\* The sum of the lines' numerators.
Takings(models) == MapThenSumSet(LAMBDA m : models[m][1], DOMAIN models)

LEMMA TakingsIsSum ==
    ASSUME NEW models, NEW S, S = DOMAIN models, IsFiniteSet(S), NEW f, \A m \in S : f[m] = models[m][1]
    PROVE  Takings(models) = SumOver(f, S)
<1> DEFINE h == [ T \in SUBSET S |-> SumOver(f, T) ]
<1>1. Takings(models) = (CHOOSE g : IsTakings(g, models, S))[S]
  BY DEF Takings, MapThenSumSet, MapThenFoldSet, IsTakings, Chosen
<1>2. \A T \in SUBSET S : T # {} => Chosen(T) \in S
  BY DEF Chosen
<1>3. ASSUME NEW g PROVE IsTakings(g, models, S) <=> IsSumOf(g, f, S)
  <2>1. \A T \in SUBSET S : T # {} => models[Chosen(T)][1] = f[Chosen(T)]
    BY <1>2
  <2>2. [ T \in SUBSET S |-> IF T = {} THEN 0 ELSE models[Chosen(T)][1] + g[T \ {Chosen(T)}] ]
        = [ T \in SUBSET S |-> IF T = {} THEN 0 ELSE f[Chosen(T)] + g[T \ {Chosen(T)}] ]
    BY <2>1
  <2>3. QED
    BY <2>2 DEF IsTakings, IsSumOf
<1>4. IsSumOf(h, f, S)
  BY SumsExist
<1>5. IsTakings(CHOOSE g : IsTakings(g, models, S), models, S)
  BY <1>3, <1>4
<1>6. (CHOOSE g : IsTakings(g, models, S)) = h
  BY <1>3, <1>4, <1>5, SumsUnique
<1>7. QED
  BY <1>1, <1>6

LEMMA StepsOK == \A step \in Range(ScoreSteps) : step[2] \in 1 .. 50
<1>1. DOMAIN ScoreSteps = 1 .. 6
  BY DEF ScoreSteps
<1>2. /\ ScoreSteps[1][2] = 10 /\ ScoreSteps[2][2] = 19 /\ ScoreSteps[3][2] = 34
      /\ ScoreSteps[4][2] = 43 /\ ScoreSteps[5][2] = 48 /\ ScoreSteps[6][2] = 50
  BY DEF ScoreSteps
<1>3. \A i \in 1 .. 6 : i = 1 \/ i = 2 \/ i = 3 \/ i = 4 \/ i = 5 \/ i = 6
  OBVIOUS
<1>4. \A i \in 1 .. 6 : ScoreSteps[i][2] \in 1 .. 50
  BY <1>2, <1>3
<1>5. QED
  BY <1>1, <1>4 DEF Range

LEMMA HighestStep ==
    ASSUME NEW S, S \subseteq 1 .. 50, S # {}
    PROVE  Max(S) \in Nat
<1>1. 1 \in Int /\ 50 \in Int
  OBVIOUS
<1>2. IsFiniteSet(1 .. 50)
  BY <1>1, FS_Interval
<1>3. IsFiniteSet(S)
  BY <1>2, FS_Subset
<1>4. S \subseteq Int
  OBVIOUS
<1>5. Max(S) \in S
  BY <1>3, <1>4, HasMax
<1>6. \A x \in S : x \in Nat
  OBVIOUS
<1>7. QED
  BY <1>5, <1>6, Zenon

\* The score is on the side of 50 that the pull is on.
LEMMA EdgeFacts ==
    ASSUME NEW said, NEW models, Pull(said, models) \in Int
    PROVE  /\ Edge(said, models) \in Int
           /\ Pull(said, models) > 0 => Edge(said, models) >= 0
           /\ Pull(said, models) < 0 => Edge(said, models) <= 0
           /\ Pull(said, models) = 0 => Edge(said, models) = 0
<1> DEFINE reached == {step \in Range(ScoreSteps) :
                         1000 * Square(Pull(said, models)) >= step[1] * Variance(said, models)}
           heights == {step[2] : step \in reached}
           k == IF reached = {} THEN 0 ELSE Max(heights)
           p == Pull(said, models)
<1>1. Edge(said, models) = SignOfInt(p) * k
  BY DEF Edge
<1>2. \A step \in reached : step[2] \in 1 .. 50
  BY StepsOK
<1> HIDE DEF reached
<1>3. k \in Nat
  <2>1. CASE reached = {}
    BY <2>1
  <2>2. CASE reached # {}
    <3>1. heights \subseteq 1 .. 50 /\ heights # {}
      BY <1>2, <2>2
    <3> HIDE DEF heights
    <3>2. Max(heights) \in Nat
      BY <3>1, HighestStep
    <3>3. QED
      BY <2>2, <3>2
  <2>3. QED
    BY <2>1, <2>2
<1> HIDE DEF k, p
<1>4. p \in Int
  BY DEF p
<1>5. SignOfInt(p) = IF p > 0 THEN 1 ELSE IF p < 0 THEN -1 ELSE 0
  BY DEF SignOfInt
<1>6. CASE p > 0
  BY <1>1, <1>3, <1>4, <1>5, <1>6 DEF p
<1>7. CASE p < 0
  BY <1>1, <1>3, <1>4, <1>5, <1>7 DEF p
<1>8. CASE p = 0
  BY <1>1, <1>3, <1>4, <1>5, <1>8 DEF p
<1>9. QED
  BY <1>4, <1>6, <1>7, <1>8

LEMMA Signs ==
    ASSUME NEW e \in Int, NEW s \in Int, NEW p \in Int, (e < 0 /\ p > 0) \/ (e > 0 /\ p < 0)
    PROVE  (e * s) * p > 0 <=> s < 0
<1>1. ASSUME NEW a \in Int, NEW b \in Int, a > 0, b > 0 PROVE a * b > 0
  BY <1>1
<1>2. ASSUME NEW a \in Int, NEW b \in Int, a > 0, b < 0 PROVE a * b < 0
  BY <1>2
<1>3. ASSUME NEW a \in Int, NEW b \in Int, a < 0, b < 0 PROVE a * b > 0
  BY <1>3
<1>4. ASSUME NEW a \in Int, NEW b \in Int PROVE a * b \in Int /\ a * b = b * a /\ (b = 0 => a * b = 0)
  BY <1>4
<1> DEFINE q == e * s
<1>5. q \in Int
  OBVIOUS
<1>6. CASE s = 0
  <2>1. q = 0
    BY <1>4, <1>6
  <2> HIDE DEF q
  <2>2. q * p = 0
    BY <2>1
  <2>3. QED
    BY <1>6, <2>2 DEF q
<1>7. CASE s < 0
  <2>1. CASE e < 0
    <3>1. q > 0 /\ p > 0
      BY <1>3, <1>7, <2>1
    <3> HIDE DEF q
    <3>2. q * p > 0
      BY <1>1, <1>5, <3>1
    <3>3. QED
      BY <1>7, <3>2 DEF q
  <2>2. CASE e > 0
    <3>1. q < 0 /\ p < 0
      BY <1>2, <1>7, <2>2
    <3> HIDE DEF q
    <3>2. q * p > 0
      BY <1>3, <1>5, <3>1
    <3>3. QED
      BY <1>7, <3>2 DEF q
  <2>3. QED
    BY <2>1, <2>2
<1>8. CASE s > 0
  <2>1. CASE e < 0
    <3>1. q < 0 /\ p > 0
      BY <1>2, <1>4, <1>8, <2>1
    <3> HIDE DEF q
    <3>2. q * p < 0
      BY <1>2, <1>4, <1>5, <3>1
    <3>3. QED
      BY <1>4, <1>5, <1>8, <3>2 DEF q
  <2>2. CASE e > 0
    <3>1. q > 0 /\ p < 0
      BY <1>1, <1>8, <2>2
    <3> HIDE DEF q
    <3>2. q * p < 0
      BY <1>2, <1>5, <3>1
    <3>3. QED
      BY <1>4, <1>5, <1>8, <3>2 DEF q
  <2>3. QED
    BY <2>1, <2>2
<1>9. QED
  BY <1>6, <1>7, <1>8

LEMMA TermsOK ==
    ASSUME NEW position \in Positions \cup {Missing}
    PROVE  /\ WeightTerm(position) \in Int /\ RiskTerm(position) \in Int
           /\ Adjustment(position) \in Int
           /\ WeightTerm(position) + RiskTerm(position) = 0 => Adjustment(position) = 0
<1>1. WeightTerm(position) \in Int
  <2>1. CASE position = Missing
    BY <2>1 DEF WeightTerm
  <2>2. CASE position # Missing
    <3>1. position.weight \in Int
      BY <2>2, PositionsAssumption
    <3>2. QED
      BY <2>2, <3>1 DEF WeightTerm, Larger, WeightLimit
  <2>3. QED
    BY <2>1, <2>2
<1>2. RiskTerm(position) \in Int
  <2>1. CASE position = Missing
    BY <2>1 DEF RiskTerm
  <2>2. CASE position # Missing
    <3>1. position.weight \in Int /\ (position.risk # Missing => position.risk \in Int)
      BY <2>2, PositionsAssumption
    <3>2. QED
      BY <2>2, <3>1 DEF RiskTerm
  <2>3. QED
    BY <2>1, <2>2
<1>3. ASSUME NEW r \in Int
      PROVE  /\ Larger(-120, Smaller(120, r)) \in Int
             /\ r = 0 => Larger(-120, Smaller(120, r)) = 0
  BY DEF Larger, Smaller
<1>4. Adjustment(position) = Larger(-120, Smaller(120, WeightTerm(position) + RiskTerm(position)))
  <2>1. -12 * MaxAdjustment = -120 /\ 12 * MaxAdjustment = 120
    BY DEF MaxAdjustment
  <2>2. QED
    BY <2>1 DEF Adjustment
<1>5. WeightTerm(position) + RiskTerm(position) \in Int
  BY <1>1, <1>2
<1>6. QED
  BY <1>1, <1>2, <1>3, <1>4, <1>5

\* The two parts of the overlay make up the whole of it.
LEMMA OverlayLines ==
    ASSUME NEW combined, combined.confidence[2] \in Int, NEW position \in Positions \cup {Missing}
    PROVE  LET raw == WeightTerm(position) + RiskTerm(position)
           IN  Concentration(combined, position)[1] + Diversification(combined, position)[1]
                 = (combined.confidence[2] * Adjustment(position)) * (IF raw = 0 THEN 1 ELSE raw)
<1> DEFINE c == combined.confidence[2]
           w == WeightTerm(position)
           r == RiskTerm(position)
           raw == w + r
           adj == Adjustment(position)
           up == w + Larger(r, 0)
           down == Smaller(r, 0)
<1>1. /\ Concentration(combined, position)[1] = IF raw = 0 THEN c * up ELSE c * up * adj
      /\ Diversification(combined, position)[1] = IF raw = 0 THEN c * down ELSE c * down * adj
  BY DEF Concentration, Diversification
<1>2. w \in Int /\ r \in Int /\ adj \in Int /\ (raw = 0 => adj = 0) /\ c \in Int
  BY TermsOK
<1> HIDE DEF c, w, r, adj
<1>3. up \in Int /\ down \in Int /\ up + down = raw /\ raw \in Int
  BY <1>2 DEF Larger, Smaller
<1> HIDE DEF raw, up, down
<1>4. CASE raw = 0
  <2>1. c * up + c * down = c * (up + down)
    BY <1>2, <1>3
  <2>2. c * raw = 0 /\ c * adj = 0 /\ (c * adj) * 1 = 0
    BY <1>2, <1>4
  <2>3. c * up + c * down = (c * adj) * 1
    BY <1>3, <2>1, <2>2
  <2>4. QED
    BY <1>1, <1>4, <2>3 DEF raw, c, w, r, adj
<1>5. CASE raw # 0
  <2>1. c * up * adj + c * down * adj = (c * adj) * raw
    <3>1. c * up * adj = (c * adj) * up /\ c * down * adj = (c * adj) * down
      BY <1>2, <1>3
    <3> DEFINE k == c * adj
    <3>2. k \in Int
      BY <1>2
    <3> HIDE DEF k
    <3>3. k * up + k * down = k * (up + down)
      BY <1>3, <3>2
    <3>4. QED
      BY <1>3, <3>1, <3>3 DEF k
  <2>2. QED
    BY <1>1, <1>5, <2>1 DEF raw, c, w, r, adj
<1>6. QED
  BY <1>4, <1>5

\* What the accounting needs to know of a combination.
Accountable(c) ==
    /\ IsFiniteSet(c.participating)
    /\ \A m \in c.participating : c.shares[m] \in Int
    /\ c.pull \in Int /\ c.pull = SumOver(c.shares, c.participating)
    /\ c.confidence[1] \in Nat /\ c.confidence[2] \in Nat
    /\ c.edge \in Int
    /\ (c.pull > 0 => c.edge >= 0) /\ (c.pull < 0 => c.edge <= 0) /\ (c.pull = 0 => c.edge = 0)

LEMMA CombineAccountable ==
    ASSUME NEW said, SaidOK(said), NEW omitted
    PROVE  Accountable(Combine(said, omitted))
<1> DEFINE c == Combine(said, omitted)
           models == Participating(said)
           f == [m \in models |-> Precision(said, m) * said[m].effect]
<1>1. IsFiniteSet(models) /\ \A m \in models : said[m].effect \in Int /\ said[m].root \in Nat \ {0}
  BY ParticipantsOK
<1>2. \A m \in models : f[m] \in Int
  <2>1. \A r \in Nat, e \in Int : (r * r) * e \in Int
    OBVIOUS
  <2>2. QED
    BY <1>1, <2>1 DEF Precision, Square
<1>3. Pull(said, models) = SumOver(f, models)
  <2>1. \A m \in models : f[m] = Precision(said, m) * said[m].effect
    OBVIOUS
  <2> HIDE DEF f
  <2>2. QED
    BY <1>1, <2>1, PullIsSum
<1>4. c.participating = models /\ c.pull = Pull(said, models) /\ c.shares = f
  BY CombineParts
<1>5. c.edge = IF models = {} THEN 0 ELSE Edge(said, models)
  BY CombineParts
<1>6. c.confidence[1] \in Nat /\ c.confidence[2] \in Nat
  <2>1. CASE models = {}
    <3>1. c.confidence = << 0, 1 >>
      BY <2>1, CombineParts
    <3>2. QED
      BY <3>1
  <2>2. CASE models # {}
    <3> DEFINE S == Size(said, models)
               T == Total(said, models)
               A == Agreeing(said, models)
    <3>1. c.confidence = << S * A, (S + PriorEvents) * T >>
      BY <2>2, CombineParts
    <3>2. S \in Nat /\ T \in Nat /\ A \in Nat
      BY <2>2, Weights, SizeIsNat
    <3> HIDE DEF S, T, A, c
    <3>3. QED
      BY <3>1, <3>2 DEF PriorEvents
  <2>3. QED
    BY <2>1, <2>2
<1> HIDE DEF c, f, models
<1>7. Pull(said, models) \in Int
  BY <1>1, <1>2, <1>3, SumInt
<1>8. /\ c.edge \in Int
      /\ (c.pull > 0 => c.edge >= 0) /\ (c.pull < 0 => c.edge <= 0) /\ (c.pull = 0 => c.edge = 0)
  <2>1. CASE models = {}
    BY <1>5, <2>1
  <2>2. CASE models # {}
    BY <1>4, <1>5, <1>7, <2>2, EdgeFacts
  <2>3. QED
    BY <2>1, <2>2
<1>9. Accountable(c)
  BY <1>1, <1>2, <1>3, <1>4, <1>6, <1>7, <1>8 DEF Accountable
<1>10. QED
  BY <1>9 DEF c

\* The evidence pulls the score to the other side than the combined effect.
LEMMA DevianceSign ==
    ASSUME NEW n \in Nat, NEW g \in Int, NEW p \in Int,
           p > 0 => g >= 0, p < 0 => g <= 0, p = 0 => g = 0
    PROVE  LET d == -12 * n * g
           IN  /\ d \in Int
               /\ p = 0 => d = 0
               /\ d # 0 => (d < 0 /\ p > 0) \/ (d > 0 /\ p < 0)
<1> DEFINE k == n * g
<1>1. k \in Int
  OBVIOUS
<1>2. -12 * n * g = -12 * k
  OBVIOUS
<1>3. (p > 0 => k >= 0) /\ (p < 0 => k <= 0) /\ (p = 0 => k = 0)
  OBVIOUS
<1> HIDE DEF k
<1>4. QED
  BY <1>1, <1>2, <1>3

\* The models' lines make up the evidence, and those that raise the score drive it.
LEMMA ModelLines ==
    ASSUME NEW c, Accountable(c), NEW position
    PROVE  LET t == AssessTrim(c, position)
               models == Attribute(c, t, position).models
           IN  /\ Takings(models) = t.evidence * (IF c.pull = 0 THEN 1 ELSE c.pull)
               /\ t.evidence # 0 => {m \in DOMAIN models : models[m][1] * models[m][2] > 0} = t.drivers
               /\ t.evidence \in Int
<1> DEFINE t == AssessTrim(c, position)
           e == t.evidence
           S == c.participating
           p == c.pull
           models == Attribute(c, t, position).models
           f == [m \in S |-> models[m][1]]
<1>1. e = -12 * c.confidence[1] * c.edge /\ t.drivers = {m \in S : c.shares[m] < 0}
  BY TrimParts
<1>2. e \in Int /\ (p = 0 => e = 0) /\ (e # 0 => (e < 0 /\ p > 0) \/ (e > 0 /\ p < 0))
  BY <1>1, DevianceSign DEF Accountable
<1>3. models = [m \in S |-> IF p = 0 THEN << 0, 1 >> ELSE << e * c.shares[m], p >>]
  BY DEF Attribute, ModelLine
<1>4. IsFiniteSet(S) /\ (\A m \in S : c.shares[m] \in Int) /\ p \in Int /\ p = SumOver(c.shares, S)
  BY DEF Accountable
<1> HIDE DEF t, e, S, p, models
<1>5. DOMAIN models = S /\ \A m \in S : models[m] = IF p = 0 THEN << 0, 1 >> ELSE << e * c.shares[m], p >>
  BY <1>3
<1>6. \A m \in S : models[m][1] = IF p = 0 THEN 0 ELSE e * c.shares[m]
  BY <1>5
<1>7. \A m \in S : models[m][2] = IF p = 0 THEN 1 ELSE p
  BY <1>5
<1>8. Takings(models) = SumOver(f, S)
  <2>1. \A m \in S : f[m] = models[m][1]
    OBVIOUS
  <2> HIDE DEF f
  <2>2. QED
    BY <1>4, <1>5, <2>1, TakingsIsSum
<1>9. SumOver(f, S) = e * (IF p = 0 THEN 1 ELSE p)
  <2>1. CASE p = 0
    <3>1. \A m \in S : c.shares[m] \in Int /\ f[m] = 0 * c.shares[m]
      BY <1>4, <1>6, <2>1
    <3> HIDE DEF f
    <3>2. SumOver(f, S) = 0 * SumOver(c.shares, S)
      BY <1>4, <3>1, SumScale
    <3>3. SumOver(c.shares, S) \in Int /\ p \in Int
      BY <1>4, SumInt
    <3>4. SumOver(f, S) = 0 /\ e = 0
      BY <1>2, <2>1, <3>2, <3>3
    <3>5. e * (IF p = 0 THEN 1 ELSE p) = 0
      BY <2>1, <3>4
    <3>6. QED
      BY <3>4, <3>5
  <2>2. CASE p # 0
    <3>1. \A m \in S : c.shares[m] \in Int /\ f[m] = e * c.shares[m]
      BY <1>4, <1>6, <2>2
    <3> HIDE DEF f
    <3>2. SumOver(f, S) = e * SumOver(c.shares, S)
      BY <1>2, <1>4, <3>1, SumScale
    <3>3. QED
      BY <1>4, <2>2, <3>2
  <2>3. QED
    BY <2>1, <2>2
<1>10. ASSUME e # 0 PROVE {m \in DOMAIN models : models[m][1] * models[m][2] > 0} = t.drivers
  <2>1. p # 0
    BY <1>2, <1>10
  <2>2. ASSUME NEW m \in S PROVE models[m][1] * models[m][2] > 0 <=> c.shares[m] < 0
    <3>1. models[m][1] * models[m][2] = (e * c.shares[m]) * p
      BY <1>6, <1>7, <2>1
    <3>2. c.shares[m] \in Int
      BY <1>4
    <3>3. (e * c.shares[m]) * p > 0 <=> c.shares[m] < 0
      BY <1>2, <1>4, <1>10, <3>2, Signs
    <3>4. QED
      BY <3>1, <3>3
  <2>3. QED
    BY <1>1, <1>5, <2>2
<1>11. QED
  BY <1>2, <1>8, <1>9, <1>10 DEF t, e, p, models

-----------------------------------------------------------------------------
\* The four parts of AttributionIsExact, for any verdict.
Exact(v) ==
    LET trim     == v.trim
        lines    == v.lines
        combined == v.combined
        Den(n)   == IF n = 0 THEN 1 ELSE n
        raw      == WeightTerm(v.position) + RiskTerm(v.position)
    IN  /\ Takings(lines.models) = trim.evidence * Den(combined.pull)
        /\ lines.concentration[1] + lines.diversification[1] = trim.overlay * Den(raw)
        /\ trim.evidence + trim.overlay + lines.clip[1] = trim.above
        /\ trim.evidence # 0 =>
             {m \in DOMAIN lines.models : lines.models[m][1] * lines.models[m][2] > 0} = trim.drivers

LEMMA ReviewIsExact ==
    ASSUME NEW said, SaidOK(said), NEW omitted, NEW position \in Positions \cup {Missing}, NEW catalyst
    PROVE  Exact(Review(said, omitted, position, catalyst))
<1> DEFINE r == Review(said, omitted, position, catalyst)
           c == Combine(said, omitted)
           t == AssessTrim(c, position)
           lines == Attribute(c, t, position)
<1>1. r.position = position /\ r.combined = c /\ r.trim = t /\ r.lines = lines
  BY ReviewParts
<1>2. Accountable(c)
  BY CombineAccountable
<1>3. t.overlay = c.confidence[2] * Adjustment(position)
  BY TrimParts
<1>4. t.above = Larger(-50 * t.unit, Smaller(50 * t.unit, t.evidence + t.overlay)) /\ t.unit = 12 * c.confidence[2]
  BY TrimParts
<1>5. /\ lines.concentration = Concentration(c, position) /\ lines.diversification = Diversification(c, position)
      /\ lines.clip = << t.above - (t.evidence + t.overlay), 1 >>
  BY DEF Attribute, ClipResidual
<1>6. /\ Takings(lines.models) = t.evidence * (IF c.pull = 0 THEN 1 ELSE c.pull)
      /\ t.evidence # 0 => {m \in DOMAIN lines.models : lines.models[m][1] * lines.models[m][2] > 0} = t.drivers
      /\ t.evidence \in Int
  BY <1>2, ModelLines
<1>7. c.confidence[2] \in Int /\ Adjustment(position) \in Int
  BY <1>2, TermsOK DEF Accountable
<1>8. lines.concentration[1] + lines.diversification[1]
        = t.overlay * (IF WeightTerm(position) + RiskTerm(position) = 0 THEN 1
                       ELSE WeightTerm(position) + RiskTerm(position))
  BY <1>3, <1>5, <1>7, OverlayLines
<1>9. t.evidence + t.overlay + lines.clip[1] = t.above
  <2> HIDE DEF t, c, lines
  <2>1. t.overlay \in Int /\ t.unit \in Int
    BY <1>3, <1>4, <1>7
  <2>2. t.above \in Int
    BY <1>4, <1>6, <2>1 DEF Larger, Smaller
  <2>3. lines.clip[1] = t.above - (t.evidence + t.overlay)
    BY <1>5
  <2>4. QED
    BY <1>6, <2>1, <2>2, <2>3
<1> HIDE DEF r, c, t, lines
<1>10. Exact(r)
  BY <1>1, <1>6, <1>8, <1>9 DEF Exact
<1>11. QED
  BY <1>10 DEF r

LEMMA ExactAttribution == RulesInv => AttributionIsExact
<1> SUFFICES ASSUME RulesInv PROVE Reviewed => Exact(verdict)
  BY DEF AttributionIsExact, Exact, Takings
<1> SUFFICES ASSUME verdict # Missing PROVE Exact(verdict)
  BY DEF Reviewed
<1>1. PICK position \in Positions \cup {Missing}, source \in Shadow \cup {Missing} :
        verdict = Review(evidence, AllModels \ DOMAIN evidence, position, Catalyst(evidence, source))
  BY DEF RulesInv
<1>2. SaidOK(evidence)
  BY DEF RulesInv
<1>3. QED
  BY <1>1, <1>2, ReviewIsExact

\* Whatever the models and the portfolio analysis say, the lines of the attribution
\* sum exactly to the score, capped and clipped or not, and those of the models that
\* raise it are the drivers the assessment names (engine/attribution.py, trim.py).
THEOREM AttributionsAreExact ==
    RulesInit /\ [][RulesNext]_rulesVars => []AttributionIsExact
<1>1. QED
  BY InitRulesInv, NextRulesInv, ExactAttribution, PTL

-----------------------------------------------------------------------------
(* Without the shadow models.                                                *)

\* Both say the same of each of these models.
Alike(a, b, S) == \A m \in S : a[m] = b[m]

LEMMA SameTotal ==
    ASSUME NEW a, NEW b, NEW S, Alike(a, b, S)
    PROVE  Total(a, S) = Total(b, S)
<1>1. \A T \in SUBSET S : T # {} => a[Chosen(T)] = b[Chosen(T)]
  BY DEF Chosen, Alike
<1>2. ASSUME NEW g PROVE IsTotal(g, a, S) <=> IsTotal(g, b, S)
  <2>1. \A T \in SUBSET S : T # {} => Precision(a, Chosen(T)) = Precision(b, Chosen(T))
    BY <1>1 DEF Precision
  <2>2. [ T \in SUBSET S |-> IF T = {} THEN 0 ELSE Precision(a, Chosen(T)) + g[T \ {Chosen(T)}] ]
        = [ T \in SUBSET S |-> IF T = {} THEN 0 ELSE Precision(b, Chosen(T)) + g[T \ {Chosen(T)}] ]
    BY <2>1
  <2>3. QED
    BY <2>2 DEF IsTotal
<1>3. (CHOOSE g : IsTotal(g, a, S)) = (CHOOSE g : IsTotal(g, b, S))
  BY <1>2
<1>4. \A said : Total(said, S) = (CHOOSE g : IsTotal(g, said, S))[S]
  BY DEF Total, MapThenSumSet, MapThenFoldSet, IsTotal, Chosen
<1>5. QED
  BY <1>3, <1>4

LEMMA SamePull ==
    ASSUME NEW a, NEW b, NEW S, Alike(a, b, S)
    PROVE  Pull(a, S) = Pull(b, S)
<1>1. \A T \in SUBSET S : T # {} => a[Chosen(T)] = b[Chosen(T)]
  BY DEF Chosen, Alike
<1>2. ASSUME NEW g PROVE IsPull(g, a, S) <=> IsPull(g, b, S)
  <2>1. \A T \in SUBSET S : T # {} => /\ Precision(a, Chosen(T)) = Precision(b, Chosen(T))
                                      /\ a[Chosen(T)].effect = b[Chosen(T)].effect
    BY <1>1 DEF Precision
  <2>2. [ T \in SUBSET S |-> IF T = {} THEN 0
            ELSE Precision(a, Chosen(T)) * a[Chosen(T)].effect + g[T \ {Chosen(T)}] ]
        = [ T \in SUBSET S |-> IF T = {} THEN 0
            ELSE Precision(b, Chosen(T)) * b[Chosen(T)].effect + g[T \ {Chosen(T)}] ]
    BY <2>1
  <2>3. QED
    BY <2>2 DEF IsPull
<1>3. (CHOOSE g : IsPull(g, a, S)) = (CHOOSE g : IsPull(g, b, S))
  BY <1>2
<1>4. \A said : Pull(said, S) = (CHOOSE g : IsPull(g, said, S))[S]
  BY DEF Pull, MapThenSumSet, MapThenFoldSet, IsPull, Chosen
<1>5. QED
  BY <1>3, <1>4

\* One term of the variance.
Joint(said, p) == said[p[1]].root * said[p[2]].root * Correlation(p[1], p[2])

IsVariance(g, said, S) ==
    g = [ T \in SUBSET S |-> IF T = {} THEN 0 ELSE Joint(said, Chosen(T)) + g[T \ {Chosen(T)}] ]

LEMMA SameVariance ==
    ASSUME NEW a, NEW b, NEW models, Alike(a, b, models)
    PROVE  Variance(a, models) = Variance(b, models)
<1> DEFINE S == models \X models
<1>1. \A p \in S : Joint(a, p) = Joint(b, p)
  <2>1. \A p \in S : p[1] \in models /\ p[2] \in models
    OBVIOUS
  <2> HIDE DEF S
  <2>2. \A p \in S : a[p[1]] = b[p[1]] /\ a[p[2]] = b[p[2]]
    BY <2>1 DEF Alike
  <2>3. QED
    BY <2>2 DEF Joint
<1>4. \A said : Variance(said, models) = (CHOOSE g : IsVariance(g, said, S))[S]
  BY DEF Variance, MapThenSumSet, MapThenFoldSet, IsVariance, Chosen, Joint
<1> HIDE DEF S
<1>2. ASSUME NEW g PROVE IsVariance(g, a, S) <=> IsVariance(g, b, S)
  <2>1. \A T \in SUBSET S : T # {} => Joint(a, Chosen(T)) = Joint(b, Chosen(T))
    BY <1>1 DEF Chosen
  <2>2. [ T \in SUBSET S |-> IF T = {} THEN 0 ELSE Joint(a, Chosen(T)) + g[T \ {Chosen(T)}] ]
        = [ T \in SUBSET S |-> IF T = {} THEN 0 ELSE Joint(b, Chosen(T)) + g[T \ {Chosen(T)}] ]
    BY <2>1
  <2>3. QED
    BY <2>2 DEF IsVariance
<1>3. (CHOOSE g : IsVariance(g, a, S)) = (CHOOSE g : IsVariance(g, b, S))
  BY <1>2
<1>5. QED
  BY <1>3, <1>4

LEMMA SameMeasures ==
    ASSUME NEW a, NEW b, NEW models, Alike(a, b, models)
    PROVE  /\ Edge(a, models) = Edge(b, models)
           /\ Agreeing(a, models) = Agreeing(b, models)
           /\ Size(a, models) = Size(b, models)
           /\ [m \in models |-> Precision(a, m) * a[m].effect] = [m \in models |-> Precision(b, m) * b[m].effect]
<1>1. Pull(a, models) = Pull(b, models) /\ Variance(a, models) = Variance(b, models)
  BY SamePull, SameVariance
<1>2. Edge(a, models) = Edge(b, models)
  BY <1>1 DEF Edge
<1>3. Agreeing(a, models) = Agreeing(b, models)
  <2> DEFINE S == {m \in models : (a[m].effect >= 0) = (Pull(a, models) >= 0)}
             R == {m \in models : (b[m].effect >= 0) = (Pull(b, models) >= 0)}
  <2>1. \A m \in models : a[m].effect = b[m].effect
    BY DEF Alike
  <2>2. S = R
    BY <1>1, <2>1
  <2>3. Alike(a, b, S)
    BY DEF Alike
  <2> HIDE DEF S, R
  <2>4. Total(a, S) = Total(b, R)
    BY <2>2, <2>3, SameTotal
  <2>5. QED
    BY <2>4 DEF Agreeing, S, R
<1>4. Size(a, models) = Size(b, models)
  <2>1. {a[m].size : m \in models} = {b[m].size : m \in models}
    BY DEF Alike
  <2>2. QED
    BY <2>1 DEF Size
<1>5. [m \in models |-> Precision(a, m) * a[m].effect] = [m \in models |-> Precision(b, m) * b[m].effect]
  BY DEF Alike, Precision
<1>6. QED
  BY <1>2, <1>3, <1>4, <1>5

\* The same models count, and each says the same.
SameOfficial(a, b) == Official(a) = Official(b) /\ Alike(a, b, Official(a))

LEMMA SameParticipants ==
    ASSUME NEW a, NEW b, SameOfficial(a, b)
    PROVE  Participating(a) = Participating(b) /\ Alike(a, b, Participating(a))
<1>1. \A m \in Official(a) : a[m] = b[m]
  BY DEF SameOfficial, Alike
<1>2. \A m \in Official(a) : Usable(a[m]) <=> Usable(b[m])
  BY <1>1
<1>3. QED
  BY <1>1, <1>2 DEF Participating, SameOfficial, Alike

\* A combination, and one with its list of shadow models replaced.
Summary(p, n, s, o, e, c, z, d, q, w) ==
    [participating |-> p, neutral |-> n, shadow |-> s, omitted |-> o, edge |-> e, confidence |-> c,
     size |-> z, dissent |-> d, pull |-> q, shares |-> w]

Relist(combined, r) == [combined EXCEPT !.shadow = r]

LEMMA Relisted ==
    ASSUME NEW p, NEW n, NEW s, NEW r, NEW o, NEW e, NEW c, NEW z, NEW d, NEW q, NEW w
    PROVE  Relist(Summary(p, n, s, o, e, c, z, d, q, w), r) = Summary(p, n, r, o, e, c, z, d, q, w)
  BY DEF Relist, Summary

LEMMA SameCombination ==
    ASSUME NEW a, NEW b, SameOfficial(a, b), NEW omitted
    PROVE  Relist(Combine(a, omitted), DOMAIN b \cap Shadow) = Combine(b, omitted)
<1> DEFINE models == Participating(a)
           neutral == Official(a) \ models
           edge == IF models = {} THEN 0 ELSE Edge(a, models)
           size == IF models = {} THEN 0 ELSE Size(a, models)
           confidence == IF models = {} THEN << 0, 1 >>
                         ELSE << Size(a, models) * Agreeing(a, models),
                                 (Size(a, models) + PriorEvents) * Total(a, models) >>
           dissent == IF models = {} THEN << 0, 1 >>
                      ELSE << Total(a, models) - Agreeing(a, models), Total(a, models) >>
           pull == Pull(a, models)
           shares == [m \in models |-> Precision(a, m) * a[m].effect]
<1>1. Participating(b) = models /\ Alike(a, b, models)
  BY SameParticipants
<1>2. Official(a) = Official(b)
  BY DEF SameOfficial
<1>3. /\ Edge(a, models) = Edge(b, models) /\ Agreeing(a, models) = Agreeing(b, models)
      /\ Size(a, models) = Size(b, models) /\ Pull(a, models) = Pull(b, models)
      /\ Total(a, models) = Total(b, models)
      /\ shares = [m \in models |-> Precision(b, m) * b[m].effect]
  BY <1>1, SameMeasures, SamePull, SameTotal
<1>4. Combine(a, omitted) =
        Summary(models, neutral, DOMAIN a \cap Shadow, omitted, edge, confidence, size, dissent, pull, shares)
  BY Zenon DEF Combine, Summary
<1>5. Combine(b, omitted) =
        Summary(models, neutral, DOMAIN b \cap Shadow, omitted, edge, confidence, size, dissent, pull, shares)
  BY <1>1, <1>2, <1>3, Zenon DEF Combine, Summary
<1> HIDE DEF models, neutral, edge, size, confidence, dissent, pull, shares
<1>6. QED
  BY <1>4, <1>5, Relisted

LEMMA SamePoints ==
    ASSUME NEW a, NEW b, SameOfficial(a, b)
    PROVE  Points(a) = Points(b)
<1> DEFINE P(said, m) == {[model |-> m, label |-> r.label, excess |-> r.excess,
                           strength |-> Larger(r.root * r.excess, -r.root * r.excess)] : r \in said[m].reasons}
           S == {o \in Official(a) : ~a[o].neutral}
           R == {o \in Official(b) : ~b[o].neutral}
<1>1. \A m \in Official(a) : a[m] = b[m]
  BY DEF SameOfficial, Alike
<1>2. S = R
  BY <1>1 DEF SameOfficial
<1>3. \A m \in S : P(a, m) = P(b, m)
  BY <1>1
<1>4. Points(a) = UNION {P(a, m) : m \in S} /\ Points(b) = UNION {P(b, m) : m \in R}
  BY DEF Points
<1> HIDE DEF P, S, R
<1>5. {P(a, m) : m \in S} = {P(b, m) : m \in R}
  BY <1>2, <1>3
<1>6. QED
  BY <1>4, <1>5

LEMMA SameThesis ==
    ASSUME NEW a, NEW b, SameOfficial(a, b), NEW sign
    PROVE  Thesis(a, sign) = Thesis(b, sign)
  BY SamePoints DEF Thesis, Unique

\* The parts of a combination that the score, its label and its lines are made from.
SameWeights(c, k) ==
    /\ c.participating = k.participating /\ c.edge = k.edge /\ c.confidence = k.confidence
    /\ c.size = k.size /\ c.dissent = k.dissent /\ c.pull = k.pull /\ c.shares = k.shares

LEMMA SameOfficialWeights ==
    ASSUME NEW a, NEW b, SameOfficial(a, b), NEW omitted
    PROVE  SameWeights(Combine(a, omitted), Combine(b, omitted))
<1> DEFINE models == Participating(a)
           c == Combine(a, omitted)
           k == Combine(b, omitted)
<1>1. Participating(b) = models /\ Alike(a, b, models)
  BY SameParticipants
<1>2. /\ Edge(a, models) = Edge(b, models) /\ Agreeing(a, models) = Agreeing(b, models)
      /\ Size(a, models) = Size(b, models) /\ Pull(a, models) = Pull(b, models)
      /\ Total(a, models) = Total(b, models)
      /\ [m \in models |-> Precision(a, m) * a[m].effect] = [m \in models |-> Precision(b, m) * b[m].effect]
  BY <1>1, SameMeasures, SamePull, SameTotal
<1>3. /\ c.participating = models
      /\ c.pull = Pull(a, models)
      /\ c.shares = [m \in models |-> Precision(a, m) * a[m].effect]
      /\ c.edge = IF models = {} THEN 0 ELSE Edge(a, models)
      /\ c.size = IF models = {} THEN 0 ELSE Size(a, models)
      /\ c.confidence = IF models = {} THEN << 0, 1 >>
                        ELSE << Size(a, models) * Agreeing(a, models),
                                (Size(a, models) + PriorEvents) * Total(a, models) >>
      /\ c.dissent = IF models = {} THEN << 0, 1 >>
                     ELSE << Total(a, models) - Agreeing(a, models), Total(a, models) >>
  BY CombineParts
<1>4. /\ k.participating = models
      /\ k.pull = Pull(b, models)
      /\ k.shares = [m \in models |-> Precision(b, m) * b[m].effect]
      /\ k.edge = IF models = {} THEN 0 ELSE Edge(b, models)
      /\ k.size = IF models = {} THEN 0 ELSE Size(b, models)
      /\ k.confidence = IF models = {} THEN << 0, 1 >>
                        ELSE << Size(b, models) * Agreeing(b, models),
                                (Size(b, models) + PriorEvents) * Total(b, models) >>
      /\ k.dissent = IF models = {} THEN << 0, 1 >>
                     ELSE << Total(b, models) - Agreeing(b, models), Total(b, models) >>
  BY <1>1, CombineParts
<1> HIDE DEF models, c, k
<1>5. SameWeights(c, k)
  BY <1>2, <1>3, <1>4, Zenon DEF SameWeights
<1>6. QED
  BY <1>5 DEF c, k

LEMMA SameAssessment ==
    ASSUME NEW c, NEW k, SameWeights(c, k), NEW position
    PROVE  AssessTrim(c, position) = AssessTrim(k, position)
<1>1. DataQuality(c) = DataQuality(k)
  BY DEF DataQuality, SameWeights
<1>2. QED
  BY <1>1, Zenon DEF AssessTrim, SameWeights

LEMMA SameAttribution ==
    ASSUME NEW c, NEW k, SameWeights(c, k), NEW trim, NEW position
    PROVE  Attribute(c, trim, position) = Attribute(k, trim, position)
<1>1. \A m : ModelLine(c, trim, m) = ModelLine(k, trim, m)
  BY Zenon DEF ModelLine, SameWeights
<1>2. Concentration(c, position) = Concentration(k, position)
  BY Zenon DEF Concentration, SameWeights
<1>3. Diversification(c, position) = Diversification(k, position)
  BY Zenon DEF Diversification, SameWeights
<1>4. c.participating = k.participating
  BY DEF SameWeights
<1>5. [m \in c.participating |-> ModelLine(c, trim, m)] = [m \in k.participating |-> ModelLine(k, trim, m)]
  BY <1>1, <1>4
<1>6. QED
  BY <1>2, <1>3, <1>5, Zenon DEF Attribute

\* The recommendation r with the catalyst put in place of its own.
Redated(r, catalyst) == [r EXCEPT !.catalyst = catalyst]

LEMMA SameRecommendation ==
    ASSUME NEW a, NEW b, SameOfficial(a, b), NEW trim, NEW c, NEW k
    PROVE  Redated(Recommendation(a, trim, c), k) = Recommendation(b, trim, k)
<1> DEFINE why(said) == Foremost(Thesis(said, IF trim.above >= 0 THEN -1 ELSE 1), ReasonsGiven)
           conflicting(said) == Foremost(Thesis(said, -(IF trim.above >= 0 THEN -1 ELSE 1)), ReasonsGiven)
           risks(said) == Foremost(Thesis(said, -1), ReasonsGiven)
           Rec(said, date) == [label |-> trim.label, why |-> why(said), conflicting |-> conflicting(said),
                               risks |-> risks(said), catalyst |-> date]
<1>1. \A sign : Thesis(a, sign) = Thesis(b, sign)
  BY SameThesis
<1>2. Recommendation(a, trim, c) = Rec(a, c) /\ Recommendation(b, trim, k) = Rec(b, k)
  BY DEF Recommendation
<1>3. why(a) = why(b) /\ conflicting(a) = conflicting(b) /\ risks(a) = risks(b)
  BY <1>1
<1> HIDE DEF why, conflicting, risks
<1>4. Redated(Rec(a, c), k) = Rec(a, k)
  BY DEF Redated
<1>5. Rec(a, k) = Rec(b, k)
  BY <1>3, Zenon
<1> HIDE DEF Rec
<1>6. QED
  BY <1>2, <1>4, <1>5

Verdict(p, c, t, l, u, w, r) ==
    [position |-> p, combined |-> c, trim |-> t, lines |-> l, bull |-> u, bear |-> w, recommendation |-> r]

Unshaded(v) == [v EXCEPT !.combined.shadow = {}, !.recommendation.catalyst = Missing]

LEMMA UnshadedVerdict ==
    ASSUME NEW p, NEW c, NEW t, NEW l, NEW u, NEW w, NEW r
    PROVE  Unshaded(Verdict(p, c, t, l, u, w, r)) = Verdict(p, Relist(c, {}), t, l, u, w, Redated(r, Missing))
<1> DEFINE v == Verdict(p, c, t, l, u, w, r)
           x == Relist(c, {})
           y == Redated(r, Missing)
           z == [v EXCEPT !.combined = x]
<1>1. v.combined = c
  BY DEF Verdict
<1>2. z = Verdict(p, x, t, l, u, w, r)
  <2> HIDE DEF x
  <2>1. QED
    BY DEF Verdict
<1>3. z.recommendation = r
  BY <1>2 DEF Verdict
<1>4. [z EXCEPT !.recommendation = y] = Verdict(p, x, t, l, u, w, y)
  <2> HIDE DEF x, y, z
  <2>1. QED
    BY <1>2 DEF Verdict
<1>5. Unshaded(v) = [[v EXCEPT !.combined = [v.combined EXCEPT !.shadow = {}]] EXCEPT
                       !.recommendation = [[v EXCEPT !.combined = [v.combined EXCEPT !.shadow = {}]].recommendation
                                             EXCEPT !.catalyst = Missing]]
  <2> HIDE DEF v
  <2>1. QED
    BY DEF Unshaded
<1>6. [v.combined EXCEPT !.shadow = {}] = x
  BY <1>1 DEF Relist
<1> HIDE DEF v
<1>7. [z.recommendation EXCEPT !.catalyst = Missing] = y
  <2> HIDE DEF z
  <2>1. QED
    BY <1>3 DEF Redated
<1>8. Unshaded(v) = [z EXCEPT !.recommendation = [z.recommendation EXCEPT !.catalyst = Missing]]
  BY <1>5, <1>6, Zenon
<1> HIDE DEF x, y, z
<1>9. QED
  BY <1>4, <1>7, <1>8 DEF v, x, y

LEMMA SameReview ==
    ASSUME NEW a, NEW b, SameOfficial(a, b), DOMAIN b \cap Shadow = {},
           NEW omitted, NEW position, NEW catalyst
    PROVE  Unshaded(Review(a, omitted, position, catalyst)) = Review(b, omitted, position, Missing)
<1> DEFINE c == Combine(a, omitted)
           k == Combine(b, omitted)
           t == AssessTrim(c, position)
           l == Attribute(c, t, position)
           r == Recommendation(a, t, catalyst)
           u == Thesis(a, 1)
           w == Thesis(a, -1)
<1>1. Review(a, omitted, position, catalyst) = Verdict(position, c, t, l, u, w, r)
  BY Zenon DEF Review, Verdict
<1>2. SameWeights(c, k)
  BY SameOfficialWeights
<1>3. Relist(c, {}) = k
  BY SameCombination
<1>4. Review(b, omitted, position, Missing)
        = Verdict(position, k, AssessTrim(k, position), Attribute(k, AssessTrim(k, position), position),
                  Thesis(b, 1), Thesis(b, -1), Recommendation(b, AssessTrim(k, position), Missing))
  BY Zenon DEF Review, Verdict
<1>5. AssessTrim(k, position) = t
  BY <1>2, SameAssessment
<1>6. Attribute(k, t, position) = l
  BY <1>2, SameAttribution
<1>7. Thesis(b, 1) = u /\ Thesis(b, -1) = w
  BY SameThesis
<1>8. Redated(r, Missing) = Recommendation(b, t, Missing)
  BY SameRecommendation
<1> HIDE DEF c, k, t, l, r, u, w
<1>9. QED
  BY <1>1, <1>3, <1>4, <1>5, <1>6, <1>7, <1>8, UnshadedVerdict

LEMMA NoShadows == RulesInv => ShadowsStayOut
<1> SUFFICES ASSUME RulesInv, verdict # Missing
             PROVE  Unshaded(verdict) =
                      Review(Restrict(evidence, DOMAIN evidence \ Shadow), AllModels \ DOMAIN evidence,
                             verdict.position, Missing)
  BY DEF ShadowsStayOut, Reviewed, Unshaded
<1> DEFINE om == AllModels \ DOMAIN evidence
           b == Restrict(evidence, DOMAIN evidence \ Shadow)
<1>1. PICK position \in Positions \cup {Missing}, source \in Shadow \cup {Missing} :
        verdict = Review(evidence, om, position, Catalyst(evidence, source))
  BY DEF RulesInv
<1>2. verdict.position = position
  BY <1>1, ReviewParts
<1>3. /\ DOMAIN b = DOMAIN evidence \ Shadow
      /\ \A m \in DOMAIN evidence \ Shadow : b[m] = evidence[m]
  BY DEF Restrict
<1> HIDE DEF b, om
<1>4. SameOfficial(evidence, b) /\ DOMAIN b \cap Shadow = {}
  BY <1>3 DEF SameOfficial, Official, Alike
<1>5. Unshaded(verdict) = Review(b, om, position, Missing)
  BY <1>1, <1>4, SameReview
<1>6. QED
  BY <1>2, <1>5 DEF b, om

\* Whatever the models say, leaving the shadow models' evidence out changes of a review
\* the list of the shadow models and the next earnings date at the most, which is the
\* one thing engine/intelligence.py:587 takes from them: neither score, label, lines,
\* theses nor the reasons given (engine/evidence.py:66-70).
THEOREM ShadowsAreInformational ==
    RulesInit /\ [][RulesNext]_rulesVars => []ShadowsStayOut
<1>1. QED
  BY InitRulesInv, NextRulesInv, NoShadows, PTL
=============================================================================
