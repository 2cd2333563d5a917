----------------------------- MODULE PointInTime -----------------------------
(***************************************************************************)
(* Evidence as of a date: the prices and feature values a session holds    *)
(* (research/engine.py, repositories/features.py), what the research       *)
(* engine says of the days on which a set of filters held, and the         *)
(* momentum model that asks it (models/base.py, models/momentum.py).       *)
(*                                                                         *)
(* A series is a function on the days it has a value for.  A return is the *)
(* pair of the two prices it divides; a statistic is left out, because it  *)
(* is a function of the sample it is taken of, and samples are kept whole. *)
(* Thresholds are in tenths, so that an interpolated quantile is exact.    *)
(***************************************************************************)
EXTENDS Integers, Sequences, FiniteSets, FiniteSetsExt, Functions, TLC

CONSTANTS
    Absent,         \* no value: None, NaN, an empty series' last element
    Lengths,        \* the horizons, in sessions
    MinHistory,     \* values of its own a quantile needs
    MinEvents       \* resolved episodes a regime's study needs

ASSUME StudiesAssumption ==
    Lengths \subseteq Nat \ {0} /\ MinHistory \in Nat \ {0} /\ MinEvents \in Nat \ {0, 1}

\* No values at all.
EmptySeries == [d \in {} |-> Absent]

\* series[series.index <= last]
Through(series, last) == Restrict(series, {d \in DOMAIN series : d <= last})

LastDay(series) == Max(DOMAIN series)

LastValue(series) == IF DOMAIN series = {} THEN Absent ELSE series[LastDay(series)]

\* What the database holds on the evening of day: tape is the history of the
\* market as it will have been.
Stored(tape, day) ==
    [tape EXCEPT !.price = [s \in DOMAIN @ |-> Through(@[s], day)],
                 !.feature = [f \in DOMAIN @ |-> Through(@[f], day)]]

\* A feature of a symbol, or of the market; nothing stored is an empty series.
Values(db, name, subject) ==
    IF << name, subject >> \in DOMAIN db.feature THEN db.feature[<< name, subject >>] ELSE EmptySeries

----------------------------------------------------------------------------
\* Positions count from 0, as an index of pandas does; -1 stands for a label
\* that the index does not have.

Rank(series, d) == Cardinality({e \in DOMAIN series : e < d})

DayAt(series, pos) == CHOOSE d \in DOMAIN series : Rank(series, d) = pos

Position(series, d) == IF d \in DOMAIN series THEN Rank(series, d) ELSE -1

CutShort(series, d, h) ==
    LET pos == Position(series, d)
    IN  IF pos = -1 THEN Absent ELSE << series[DayAt(series, Min({pos + h, Rank(series, LastDay(series))}))], series[d] >>

\* values[pos + h] / values[pos] - 1, when pos + h is inside; values[-1] is the
\* last value, as Python has it.
ForwardReturn(series, d, h) ==
    LET size == Cardinality(DOMAIN series)
        pos  == Position(series, d)
    IN  IF pos + h < size
        THEN << series[DayAt(series, pos + h)], series[DayAt(series, pos % size)] >>
        ELSE Absent

\* The days that begin an episode: the eligible day before did not match.
Episodes(eligible, matching) ==
    {d \in matching : LET before == {e \in eligible : e < d}
                      IN  before = {} \/ Max(before) \notin matching}

\* A filter is [feature, subject, op, value]; subject Absent means the queried symbol.
Satisfies(filter, value) ==
    CASE filter.op = ">=" -> 10 * value >= filter.value
      [] filter.op = "<=" -> 10 * value <= filter.value
      [] filter.op = ">"  -> 10 * value > filter.value
      [] filter.op = "<"  -> 10 * value < filter.value
      [] filter.op = "==" -> 10 * value = filter.value

FilterValues(db, filter, symbol) ==
    Values(db, filter.feature, IF filter.subject = Absent THEN symbol ELSE filter.subject)

\* The prices there are as of last.
Observable(db, symbol, last) == Through(db.price[symbol], last)

\* ResearchEngine.run in events mode, with the window's end at last.
Study(db, symbol, filters, last) ==
    LET prices   == Observable(db, symbol, last)
        eligible == {d \in DOMAIN prices : d <= last /\ \A f \in filters : d \in DOMAIN FilterValues(db, f, symbol)}
        matching == {d \in eligible : \A f \in filters : Satisfies(f, FilterValues(db, f, symbol)[d])}
        Sample(days, h) == {<< d, ForwardReturn(prices, d, h) >> : d \in days}
    IN  [h \in Lengths |-> [events   |-> Sample(Episodes(eligible, matching), h),
                            baseline |-> Sample(eligible, h)]]

Completed(sample) == {s \in sample : s[2] # Absent}

----------------------------------------------------------------------------
(***************************************************************************)
(* Regimes.  A candidate is a set of conditions: a feature against a tenth *)
(* of the symbol's own history, or against zero; a family lists its        *)
(* candidates, the most specific first.                                    *)
(***************************************************************************)

\* The k-th smallest value, from 0, and the interpolated quantile, in tenths.
Smallest(series, k) ==
    CHOOSE v \in Range(series) : /\ Cardinality({d \in DOMAIN series : series[d] < v}) <= k
                                 /\ Cardinality({d \in DOMAIN series : series[d] <= v}) > k

QuantileOf(series, tenths) ==
    LET steps == tenths * (Cardinality(DOMAIN series) - 1)
        low   == Smallest(series, steps \div 10)
    IN  IF steps % 10 = 0 THEN 10 * low
        ELSE 10 * low + (steps % 10) * (Smallest(series, steps \div 10 + 1) - low)

AtLeast(feature, tenths) == [feature |-> feature, op |-> ">=", tenths |-> tenths, of |-> "self"]
AtMost(feature, tenths) == [feature |-> feature, op |-> "<=", tenths |-> tenths, of |-> "self"]
Sign(feature, op, of) == [feature |-> feature, op |-> op, tenths |-> Absent, of |-> of]

\* Momentum, extension, relative confirmation (only with a sector ETF) and trend.
RegimeFamilies(etf) ==
    << << {AtLeast("ret", 7), AtLeast("trend", 7)}, {AtLeast("ret", 9)}, {AtLeast("ret", 7)}, {AtMost("ret", 1)} >>,
       << {AtLeast("trend", 6), AtMost("ret", 2)}, {AtLeast("trend", 9)}, {AtMost("trend", 1)} >>,
       IF etf = Absent THEN << >>
       ELSE << {AtLeast("ret", 7), Sign("trend", "<", "self")}, {Sign("ret", "<", "self"), Sign("ret", ">", "etf")} >>,
       << {Sign("trend", ">=", "self")}, {Sign("trend", "<", "self")} >> >>

Threshold(db, symbol, last, condition) ==
    LET own == Through(Values(db, condition.feature, symbol), last)
    IN  IF condition.tenths = Absent THEN 0
        ELSE IF Cardinality(DOMAIN own) < MinHistory THEN Absent
        ELSE QuantileOf(own, condition.tenths)

AsFilters(db, symbol, last, candidate) ==
    {[feature |-> c.feature, op |-> c.op, value |-> Threshold(db, symbol, last, c),
      subject |-> IF c.of = "etf" THEN db.etf[symbol] ELSE Absent] : c \in candidate}

\* select_active: of each family the first candidate whose thresholds are all
\* known and whose conditions hold of the last values.
ActiveRegimes(db, symbol, last) ==
    LET families == RegimeFamilies(db.etf[symbol])
        Holds(candidate) ==
            \A f \in AsFilters(db, symbol, last, candidate) :
                LET value == LastValue(Through(FilterValues(db, f, symbol), last))
                IN  f.value # Absent /\ value # Absent /\ Satisfies(f, value)
        First(family) ==
            {i \in DOMAIN family : Holds(family[i]) /\ \A j \in 1 .. i - 1 : ~Holds(family[j])}
    IN  UNION {{AsFilters(db, symbol, last, families[k][i]) : i \in First(families[k])} : k \in DOMAIN families}

\* collect_regime_evidence: the studies with enough resolved episodes.
Supported(study, h) ==
    Cardinality(Completed(study[h].events)) >= MinEvents /\ Completed(study[h].baseline) # {}

\* MomentumExhaustionModel.evaluate: per horizon the studies that back its score;
\* with none it is neutral.
Backing(study, h) ==
    {<< r, Completed(study[r][h].events), Completed(study[r][h].baseline) >> :
       r \in {r \in DOMAIN study : Supported(study[r], h)}}

Backings(study) == [h \in Lengths |-> Backing(study, h)]

Momentum(db, symbol, asOf) ==
    [asOf |-> asOf,
     studies |-> Backings([r \in ActiveRegimes(db, symbol, asOf) |-> Study(db, symbol, r, asOf)])]
=============================================================================
