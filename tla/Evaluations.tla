----------------------------- MODULE Evaluations -----------------------------
(***************************************************************************)
(* Who asks the models, and when: the validation of walkforward.py makes a *)
(* model for every question, the harness of research/experiments makes one *)
(* per scoring date and asks it of every target in turn.  Both ask on some *)
(* later day what a model says as of an earlier one.                       *)
(***************************************************************************)
EXTENDS AnalogueSearch, ConditionalOdds

CONSTANTS
    Tapes,          \* histories of the market, whole
    Targets,        \* the symbols evaluated, in their order
    FirstDay, FinalDay,     \* the days the questions are asked on
    ScoringDates    \* the days they are asked about

ASSUME QuestionsAssumption ==
    /\ Targets \in Seq(Range(Targets)) /\ FirstDay \in Int /\ FinalDay \in Int /\ ScoringDates \subseteq Int

IsSeries(series) == DOMAIN series \subseteq Int /\ IsFiniteSet(DOMAIN series)

\* Every instrument asked about, its fund and SPY has a series of prices, which may
\* be empty; a return is computed on days with a price.
ASSUME TapesAssumption ==
    \A history \in Tapes :
        /\ DOMAIN history = {"etf", "price", "feature"}
        /\ \A s \in DOMAIN history.price :
              /\ IsSeries(history.price[s])
              /\ history.etf[s] \in DOMAIN history.price \cup {Absent}
              /\ DOMAIN Values(history, "ret", s) \subseteq DOMAIN history.price[s]
        /\ \A key \in DOMAIN history.feature : IsSeries(history.feature[key])
        /\ {"SPY"} \cup Range(Targets) \subseteq DOMAIN history.price

VARIABLES
    tape,       \* the history
    today,      \* how much of it is stored
    harness,    \* the harness's instances: their scoring date, the targets passed, the memory
    told        \* the last answer, with who was asked what

evaluationVars == << tape, today, harness, told >>

KindsOfModel == {"momentum", "analogues", "conditional"}

Database == Stored(tape, today)

\* A model can answer if the series it dates itself by has begun.
CanAnswer(db, model, symbol, asOf) ==
    CASE model = "momentum"    -> DOMAIN Observable(db, symbol, asOf) # {}
      [] model = "analogues"   -> DOMAIN Through(Values(db, "ret", symbol), asOf) # {}
      [] model = "conditional" -> DOMAIN Observable(db, symbol, asOf) # {}

WithLengths(evaluated) ==
    [evaluated EXCEPT !.result = [odds |-> @, scored |-> ScoredLengths(@)]]

\* model.evaluate(symbol, as_of), and the memory its instance is left with.
Asking(db, memory, model, symbol, asOf) ==
    CASE model = "momentum"    -> [result |-> Momentum(db, symbol, asOf), memory |-> memory]
      [] model = "analogues"   -> [result |-> Analogous(db, symbol, asOf), memory |-> memory]
      [] model = "conditional" -> WithLengths(Evaluate(db, memory, symbol, asOf))

Answer(by, model, symbol, asOf, result) ==
    [by |-> by, model |-> model, symbol |-> symbol, asked |-> asOf, result |-> result]

NextDay ==
    /\ today < FinalDay
    /\ today' = today + 1
    /\ UNCHANGED << tape, harness, told >>

\* validation/walkforward.py: a new instance for every pair, so that no question
\* bears on another: a behaviour asks one.
ValidatePair(model, symbol, asOf) ==
    /\ told = Absent /\ harness = Absent /\ asOf <= today
    /\ CanAnswer(Database, model, symbol, asOf)
    /\ told' = Answer("validation", model, symbol, asOf,
                      Asking(Database, NoMemory, model, symbol, asOf).result)
    /\ UNCHANGED << tape, today, harness >>

\* WalkForwardHarness.capture: new instances at a scoring date; a resumed capture
\* passes over the targets it finds done.  A behaviour has one scoring date.
NewInstances(asOf, passed) ==
    /\ told = Absent /\ harness = Absent /\ asOf <= today
    /\ harness' = [date |-> asOf, passed |-> passed, memory |-> NoMemory]
    /\ UNCHANGED << tape, today, told >>

\* WalkForwardHarness._capture_pair: the next target, by every model; the answer
\* looked at is one of them.
HarnessPair(model) ==
    LET symbol == Targets[harness.passed + 1]
    IN  /\ harness # Absent /\ harness.passed < Len(Targets)
        /\ harness' = [harness EXCEPT !.passed = @ + 1,
                         !.memory = IF CanAnswer(Database, "conditional", symbol, harness.date)
                                    THEN Evaluate(Database, @, symbol, harness.date).memory ELSE @]
        /\ told' = IF CanAnswer(Database, model, symbol, harness.date)
                   THEN Answer("harness", model, symbol, harness.date,
                               Asking(Database, harness.memory, model, symbol, harness.date).result)
                   ELSE told
        /\ UNCHANGED << tape, today >>

EvaluationInit == tape \in Tapes /\ today = FirstDay /\ harness = Absent /\ told = Absent

EvaluationNext ==
    \/ NextDay
    \/ \E model \in KindsOfModel, i \in DOMAIN Targets, d \in ScoringDates : ValidatePair(model, Targets[i], d)
    \/ \E d \in ScoringDates, n \in 0 .. Len(Targets) - 1 : NewInstances(d, n)
    \/ \E model \in KindsOfModel : HarnessPair(model)

----------------------------------------------------------------------------
\* What a new instance said on the evening of the day it is about.
Live(model, symbol, asOf) == Asking(Stored(tape, asOf), NoMemory, model, symbol, asOf).result

\* What of an answer does not go through the memory of an instance.
Memoryless(answer, result) ==
    IF answer.by = "harness" /\ answer.model = "conditional"
    THEN [asOf |-> result.odds.asOf, rung |-> result.odds.rung, match |-> result.odds.match]
    ELSE result

\* An answer about a day is the one live inference gave on that day, whenever it is
\* asked for: nothing later leaks into thresholds, scores, matches or outcomes, and
\* samples shrink as they did live (research/engine.py:101-104, matching.py:11-15).
\* Of the harness's conditional engine this holds for its matches only.
ReplayTellsTheSame ==
    told # Absent =>
        Memoryless(told, told.result) = Memoryless(told, Live(told.model, told.symbol, told.asked))

\* Outcomes are used of no more analogues than were observable on the scoring date,
\* as verify_analogue_observability counts them on any later day
\* (validation/eligibility.py).
EmbargoHolds ==
    (told # Absent /\ told.model = "analogues") =>
        Violations(Database, told.symbol, told.result.found) = {}

\* evaluate(as_of=T) is what live inference produced on T for the harness's
\* conditional engine too (research/engine.py:102-103); its memory of forward returns
\* does not say as of which date they were computed.
HarnessTellsTheSame ==
    (told # Absent /\ told.by = "harness") =>
        told.result = Live(told.model, told.symbol, told.asked)

\* A forward return is adj_close[t+h]/adj_close[t] - 1 of its event's day t
\* (research/engine.py:75): the benchmark traded on the day its return is of.
BenchmarkReturnsAreOfTheDay ==
    (told # Absent /\ told.model = "analogues") =>
        LET outcomes == told.result.found.outcomes
        IN  outcomes # Absent => \A h \in Lengths : \A row \in outcomes[h].sector :
                row[1] \in DOMAIN Database.price[Database.etf[told.symbol]]
=============================================================================
