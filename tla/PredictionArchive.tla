-------------------------- MODULE PredictionArchive --------------------------
(***************************************************************************)
(* The archive of published predictions and their realized outcomes        *)
(* (evaluation/archive.py, evaluation/outcomes.py,                         *)
(* repositories/predictions.py).                                           *)
(*                                                                         *)
(* Reporters (the update, `mip report`, `mip trim score`) archive what     *)
(* they publish, one database transaction per command; a prediction that   *)
(* is there already is left alone.  Evaluators (the update, `mip evaluate  *)
(* matured`) sweep the archive and write the outcome of every prediction   *)
(* whose closes exist, while price ingestion adds closes and restates old  *)
(* ones.  Only the update takes a lock, so all of them interleave, each    *)
(* statement seeing what is committed when it starts.                      *)
(*                                                                         *)
(* A close is represented by the number of restatements it has been        *)
(* through, and a return by the two closes it divides.                     *)
(***************************************************************************)
EXTENDS Integers, Sequences, FiniteSetsExt, SequencesExt

CONSTANTS
    Sessions,        \* the exchange's sessions
    FirstCalendar,   \* the sessions in the calendar at first
    Priceable,       \* the <<symbol, session>> pairs the provider has closes for
    Horizons,        \* sessions of each horizon: HORIZON_SESSIONS
    Sweep,           \* every prediction's key, in the order of all_predictions
    Batches,         \* what a command may assess: sequences of keys
    Values,          \* what an assessment may say
    Reporters,       \* processes that archive
    Evaluators,      \* processes that evaluate
    None,            \* no session, no close
    MaxRestatements, \* bound: splits
    MaxCrashes       \* bound: transactions that die

Keys == Range(Sweep)
Fields == {"entry", "exit", "entryPrice", "exitPrice", "actual"}

ASSUME SessionsAssumption ==
    /\ Sessions \subseteq Nat /\ IsFiniteSet(Sessions)
    /\ FirstCalendar \subseteq Sessions
    /\ \A d \in FirstCalendar, s \in Sessions : s <= d => s \in FirstCalendar
    /\ None \notin Nat
\* A prediction is made as of a day the calendar covers (update/market.py).
ASSUME KeysAssumption ==
    /\ Sweep \in Seq(Keys)
    /\ \A key \in Keys : key.asOf \in Nat /\ key.horizon \in DOMAIN Horizons
    /\ \A key \in Keys, d \in Sessions : d <= key.asOf => d \in FirstCalendar
    /\ \A i, j \in DOMAIN Sweep : Sweep[i] = Sweep[j] => i = j
    /\ \A batch \in Batches : Range(batch) \subseteq Keys

VARIABLES
    calendar,    \* the sessions stored
    close,       \* the closes stored, as restatements so far
    splits,      \* how many restatements there have been
    archive,     \* committed predictions, by key
    reporter,    \* what each reporter is doing
    outcomes,    \* committed outcomes, by the prediction's key
    evaluator,   \* what each evaluator is doing
    crashes      \* history: the transactions that died

market == << calendar, close, splits >>
vars == << calendar, close, splits, archive, reporter, outcomes, evaluator, crashes >>

IdleReporter == [ pc |-> "idle", todo |-> << >>, value |-> None, pending |-> {} ]
IdleEvaluator ==
    [ pc |-> "idle", todo |-> {}, price |-> None, staged |-> {}, flushed |-> {} ]

Init ==
    /\ calendar = FirstCalendar
    /\ close = << >>
    /\ splits = 0
    /\ archive = << >>
    /\ reporter = [ r \in Reporters |-> IdleReporter ]
    /\ outcomes = << >>
    /\ evaluator = [ e \in Evaluators |-> IdleEvaluator ]
    /\ crashes = 0

-----------------------------------------------------------------------------
(* The market data the archive is compared with.                           *)

\* `mip calendar build` extends the calendar.
ExtendCalendar ==
    \E through \in Sessions \ calendar :
        /\ \A d \in calendar : d < through
        /\ calendar' = calendar \union { d \in Sessions : d <= through }
        /\ UNCHANGED << close, splits, archive, reporter, outcomes, evaluator, crashes >>

\* A new close comes in today's share basis.
PriceSession ==
    \E pair \in Priceable \ DOMAIN close :
        /\ pair[2] \in calendar
        /\ close' = (pair :> splits) @@ close
        /\ UNCHANGED << calendar, splits, archive, reporter, outcomes, evaluator, crashes >>

\* A split restates every close before it.
Restate ==
    /\ splits < MaxRestatements
    /\ splits' = splits + 1
    /\ \E exDate \in Sessions :
           close' = [ pair \in DOMAIN close |->
                        IF pair[2] < exDate THEN close[pair] + 1 ELSE close[pair] ]
    /\ UNCHANGED << calendar, archive, reporter, outcomes, evaluator, crashes >>

-----------------------------------------------------------------------------
(* Archiving.                                                              *)

Assess(r) ==
    /\ reporter[r].pc = "idle"
    /\ \E batch \in Batches, value \in Values :
           reporter' = [ reporter EXCEPT ![r] =
               [ pc |-> "insert", todo |-> batch, value |-> value, pending |-> {} ] ]
    /\ UNCHANGED << market, archive, outcomes, evaluator, crashes >>

\* An insert waits for the transaction that holds its key.
Waits(r, s) ==
    /\ s # r
    /\ reporter[r].todo # << >>
    /\ Head(reporter[r].todo) \in reporter[s].pending

\* ON CONFLICT DO UPDATE: the last writer wins.
InsertPredictionOver(r) ==
    /\ reporter[r].pc = "insert" /\ reporter[r].todo # << >>
    /\ \A s \in Reporters : ~ Waits(r, s)
    /\ reporter' = [ reporter EXCEPT
           ![r].todo = Tail(@), ![r].pending = @ \union {Head(reporter[r].todo)} ]
    /\ UNCHANGED << market, archive, outcomes, evaluator, crashes >>

InsertPrediction(r) ==
    /\ reporter[r].pc = "insert" /\ reporter[r].todo # << >>
    /\ \A s \in Reporters : ~ Waits(r, s)
    /\ reporter' = [ reporter EXCEPT
           ![r].todo = Tail(@),
           ![r].pending = @ \union ({Head(reporter[r].todo)} \ DOMAIN archive) ]
    /\ UNCHANGED << market, archive, outcomes, evaluator, crashes >>

CommitArchive(r) ==
    /\ reporter[r].pc = "insert" /\ reporter[r].todo = << >>
    /\ archive' = [ key \in DOMAIN archive \union reporter[r].pending |->
                      IF key \in reporter[r].pending THEN reporter[r].value ELSE archive[key] ]
    /\ reporter' = [ reporter EXCEPT ![r] = IdleReporter ]
    /\ UNCHANGED << market, outcomes, evaluator, crashes >>

\* Two commands that archive the same symbols in different orders deadlock;
\* the database rolls one of them back.
BreakDeadlock(r) ==
    /\ \E s \in Reporters : Waits(r, s) /\ Waits(s, r)
    /\ reporter' = [ reporter EXCEPT ![r] = IdleReporter ]
    /\ UNCHANGED << market, archive, outcomes, evaluator, crashes >>

CrashReporter(r) ==
    /\ crashes < MaxCrashes
    /\ reporter[r].pc = "insert"
    /\ crashes' = crashes + 1
    /\ reporter' = [ reporter EXCEPT ![r] = IdleReporter ]
    /\ UNCHANGED << market, archive, outcomes, evaluator >>

-----------------------------------------------------------------------------
(* Evaluation.                                                             *)

EntrySession(asOf) ==
    LET known == { d \in calendar : d <= asOf }
    IN  IF known = {} THEN None ELSE Max(known)

\* A defect: the last session the calendar has, when it has fewer.
SessionAfterOrLast(d, n) ==
    LET after == { s \in calendar : s > d }
        known == { s \in after : Cardinality({ t \in after : t <= s }) <= n }
    IN  IF known = {} THEN None ELSE Max(known)

\* The n-th session strictly after a session, once the calendar has it.
SessionAfter(d, n) ==
    LET after == { s \in calendar : s > d }
        nth   == { s \in after : Cardinality({ t \in after : t <= s }) = n }
    IN  IF nth = {} THEN None ELSE CHOOSE s \in nth : TRUE

CloseOn(symbol, d) ==
    IF << symbol, d >> \in DOMAIN close THEN close[<< symbol, d >>] ELSE None

ComputeOutcome(entry, exit, entryPrice, exitPrice) ==
    [ entry |-> entry, exit |-> exit, entryPrice |-> entryPrice,
      exitPrice |-> exitPrice, actual |-> << entryPrice, exitPrice >> ]

\* An outcome once there is not looked at again.
ChangesOnce(row, key) ==
    LET changed == IF key \in DOMAIN outcomes THEN {} ELSE Fields
    IN  [ key |-> key, new |-> key \notin DOMAIN outcomes, columns |-> Restrict(row, changed) ]

\* What upsert_outcome writes: the whole row, or the columns that differ from
\* the row it sees.
Changes(row, key) ==
    LET changed == IF key \in DOMAIN outcomes
                   THEN { f \in Fields : outcomes[key][f] # row[f] } ELSE Fields
    IN  [ key |-> key, new |-> key \notin DOMAIN outcomes, columns |-> Restrict(row, changed) ]

BeginSweep(e) ==
    /\ evaluator[e].pc = "idle"
    /\ LET todo == { i \in DOMAIN Sweep : Sweep[i] \in DOMAIN archive } IN
           /\ todo # {}
           /\ evaluator' = [ evaluator EXCEPT ![e].pc = "entry", ![e].todo = todo ]
    /\ UNCHANGED << market, archive, reporter, outcomes, crashes >>

\* The place in the sweep an evaluator is at.
At(e) == CHOOSE i \in evaluator[e].todo : \A j \in evaluator[e].todo : i <= j

Held(e) == { change.key : change \in evaluator[e].flushed }

\* What is staged goes to the database before the next query.  It waits for the
\* transaction that holds the row, and fails when that one has inserted it.
CanFlush(e) ==
    \A change \in evaluator[e].staged :
        \A f \in Evaluators \ {e} : change.key \notin Held(f)
Conflict(e) ==
    \E change \in evaluator[e].staged : change.new /\ change.key \in DOMAIN outcomes
Flushed(e) == evaluator[e].flushed \union evaluator[e].staged

ReadEntry(e) ==
    /\ evaluator[e].pc = "entry" /\ evaluator[e].todo # {}
    /\ CanFlush(e) /\ ~ Conflict(e)
    /\ LET key == Sweep[At(e)]
           entry == EntrySession(key.asOf) IN
       evaluator' = [ evaluator EXCEPT
           ![e].flushed = Flushed(e), ![e].staged = {},
           ![e].pc = IF entry = None THEN "entry" ELSE "exit",
           ![e].todo = IF entry = None THEN @ \ {At(e)} ELSE @,
           ![e].price = IF entry = None THEN None ELSE << entry, CloseOn(key.symbol, entry) >> ]
    /\ UNCHANGED << market, archive, reporter, outcomes, crashes >>

ReadExit(e) ==
    /\ evaluator[e].pc = "exit"
    /\ LET key == Sweep[At(e)]
           entry == evaluator[e].price[1]
           entryPrice == evaluator[e].price[2]
           exit == SessionAfter(entry, Horizons[key.horizon])
           exitPrice == IF exit = None THEN None ELSE CloseOn(key.symbol, exit)
           change == Changes(ComputeOutcome(entry, exit, entryPrice, exitPrice), key) IN
       evaluator' = [ evaluator EXCEPT
           ![e].pc = "entry", ![e].todo = @ \ {At(e)}, ![e].price = None,
           ![e].staged = IF None \in {entryPrice, exitPrice} \/ DOMAIN change.columns = {}
                         THEN {} ELSE {change} ]
    /\ UNCHANGED << market, archive, reporter, outcomes, crashes >>

\* The row a sweep leaves: it writes each key once.
Written(e, key) ==
    LET change == CHOOSE c \in Flushed(e) : c.key = key
    IN  [ f \in Fields |-> IF f \in DOMAIN change.columns THEN change.columns[f] ELSE outcomes[key][f] ]

CommitSweep(e) ==
    /\ evaluator[e].pc = "entry" /\ evaluator[e].todo = {}
    /\ CanFlush(e) /\ ~ Conflict(e)
    /\ LET keys == { c.key : c \in Flushed(e) } IN
       outcomes' = [ key \in DOMAIN outcomes \union keys |->
                       IF key \in keys THEN Written(e, key) ELSE outcomes[key] ]
    /\ evaluator' = [ evaluator EXCEPT ![e] = IdleEvaluator ]
    /\ UNCHANGED << market, archive, reporter, crashes >>

\* Another sweep has inserted the row: the unique key rolls this one back.
RejectSweep(e) ==
    /\ CanFlush(e) /\ Conflict(e)
    /\ evaluator' = [ evaluator EXCEPT ![e] = IdleEvaluator ]
    /\ UNCHANGED << market, archive, reporter, outcomes, crashes >>

CrashEvaluator(e) ==
    /\ crashes < MaxCrashes
    /\ evaluator[e].pc # "idle"
    /\ crashes' = crashes + 1
    /\ evaluator' = [ evaluator EXCEPT ![e] = IdleEvaluator ]
    /\ UNCHANGED << market, archive, reporter, outcomes >>

-----------------------------------------------------------------------------
SweepStep(e) ==
    BeginSweep(e) \/ ReadEntry(e) \/ ReadExit(e) \/ CommitSweep(e) \/ RejectSweep(e)
ReporterStep(r) ==
    Assess(r) \/ InsertPrediction(r) \/ CommitArchive(r) \/ BreakDeadlock(r) \/ CrashReporter(r)
MarketStep == ExtendCalendar \/ PriceSession \/ Restate

Next ==
    \/ MarketStep
    \/ \E r \in Reporters : ReporterStep(r)
    \/ \E e \in Evaluators : SweepStep(e) \/ CrashEvaluator(e)

Spec == Init /\ [][Next]_vars

\* Sweeps are run again and again, and one that has begun goes on.
FairSpec == Spec /\ \A e \in Evaluators : WF_vars(SweepStep(e))

-----------------------------------------------------------------------------
\* What was archived first stays what it was, whoever archives the same key
\* later or at the same time and whichever of them dies (predictions.py:7-9).
FirstPredictionStands ==
    [][ \A key \in DOMAIN archive : key \in DOMAIN archive' /\ archive'[key] = archive[key] ]_vars

\* An outcome once written never moves to other sessions: not when the
\* calendar, too short when the prediction was made, grows (outcomes.py:3-7).
OutcomeSessionsAreFinal ==
    [][ \A key \in DOMAIN outcomes :
            /\ key \in DOMAIN outcomes'
            /\ outcomes'[key].entry = outcomes[key].entry
            /\ outcomes'[key].exit = outcomes[key].exit ]_vars

\* Both closes of a prediction, once they are there.
Closes(key) ==
    LET entry == EntrySession(key.asOf)
        exit == IF entry = None THEN None ELSE SessionAfter(entry, Horizons[key.horizon])
    IN  IF exit = None THEN << >>
        ELSE << CloseOn(key.symbol, entry), CloseOn(key.symbol, exit) >>

\* Every prediction whose closes exist ends up with the outcome those closes
\* give, whatever was restated while sweeps were reading, writing, colliding
\* or dying (outcomes.py:73-75).
OutcomesCatchUp ==
    \A key \in Keys :
        <>[](( /\ key \in DOMAIN archive
               /\ Closes(key) # << >>
               /\ None \notin Range(Closes(key)) )
             => /\ key \in DOMAIN outcomes
                /\ outcomes[key].actual = Closes(key)
                /\ << outcomes[key].entryPrice, outcomes[key].exitPrice >> = Closes(key))
=============================================================================
