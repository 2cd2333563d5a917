--------------------------- MODULE ConditionalOdds ---------------------------
(***************************************************************************)
(* The conditional probability engine: the target's present state is       *)
(* turned into conditions (research/conditions.py), the days any           *)
(* instrument met them are gathered (research/matching.py), down a ladder  *)
(* of ever fewer conditions until there is support, and what followed is   *)
(* pooled against what followed every eligible day                         *)
(* (research/conditional.py, models/conditional.py).                       *)
(*                                                                         *)
(* An engine remembers the forward returns it has computed: evaluating     *)
(* yields a result and the memory that is left behind.                     *)
(***************************************************************************)
EXTENDS PointInTime

CONSTANTS
    FocusLength,        \* the horizon that decides on support
    MinMatches,         \* matches, calendar episodes and years a rung needs
    MinEpisodes,
    MinYears,
    YearLength,         \* days to a year
    MinEffective        \* calendar episodes a score needs

ASSUME SupportAssumption == FocusLength \in Lengths /\ YearLength \in Nat \ {0}

Template(family, mode, feature, on) ==
    [family |-> family, mode |-> mode, feature |-> feature, on |-> on, band |-> 0]

\* build_condition_templates, by name.
Templates ==
    [market_trend        |-> Template("market", "market_flag", "regime", "market"),
     market_volatility   |-> Template("market", "market_bucket", "vix", "market"),
     rates_direction     |-> [Template("market", "market_direction", "rates", "market") EXCEPT !.band = 1],
     inflation_direction |-> Template("market", "market_direction", "cpi", "market"),
     sector_trend        |-> Template("sector", "structural", "trend", "sector_etf"),
     sector_relative_strength |-> Template("sector", "structural", "relative", "self"),
     own_momentum        |-> Template("company", "self_bucket", "ret", "self"),
     own_trend           |-> Template("company", "structural", "trend", "self"),
     own_extension       |-> Template("company", "self_bucket", "high", "self"),
     valuation_pe        |-> Template("valuation", "self_bucket", "pe", "self"),
     valuation_ps        |-> Template("valuation", "self_bucket", "ps", "self"),
     pre_earnings        |-> Template("catalyst", "catalyst_window", "days", "self"),
     post_earnings       |-> Template("catalyst", "catalyst_window", "since", "self")]

HighPct == 8     \* in tenths, as are the market's percentiles
LowPct == 2
CatalystMax == 10

\* The ladder: the groups of families a rung needs, the strictest first.
Ladder ==
    << {"market", "sector", "company", "catalyst"}, {"market", "sector", "company"},
       {"market", "company", "catalyst"}, {"market", "company"}, {"market", "sector"}, {"market"} >>

FamilyGroup(group) == IF group = "company" THEN {"company", "valuation"} ELSE {group}

----------------------------------------------------------------------------
(***************************************************************************)
(* The port: series as of a date, of the market, the symbol or its sector. *)
(***************************************************************************)

PortSeries(db, feature, on, symbol, asOf) ==
    LET subject == CASE on = "market" -> "market" [] on = "self" -> symbol [] on = "sector_etf" -> db.etf[symbol]
    IN  IF subject = Absent THEN EmptySeries ELSE Through(Values(db, feature, subject), asOf)

OwnQuantile(db, c, symbol, asOf) ==
    LET own == PortSeries(db, c.feature, c.on, symbol, asOf)
    IN  IF Cardinality(DOMAIN own) < MinHistory THEN Absent ELSE QuantileOf(own, c.tenths)

\* A condition compares with a number, or with a quantile of each candidate's own.
Fixed(t, op, value) == [name |-> t, feature |-> Templates[t].feature, on |-> Templates[t].on,
                        op |-> op, value |-> value, tenths |-> Absent]
OwnTenths(t, op, tenths) == [Fixed(t, op, Absent) EXCEPT !.tenths = tenths]

\* The condition a template makes of the target's last value, as a set: empty when
\* the value is missing or says nothing.
Resolve(db, t, symbol, asOf) ==
    LET template == Templates[t]
        current  == LastValue(PortSeries(db, template.feature, template.on, symbol, asOf))
        Bucket(tenths) == OwnQuantile(db, OwnTenths(t, ">=", tenths), symbol, asOf)
    IN  IF current = Absent THEN {}
        ELSE CASE template.mode = "market_flag" -> {Fixed(t, "==", IF 2 * current >= 1 THEN 10 ELSE 0)}
               [] template.mode = "market_bucket" ->
                    IF current >= HighPct THEN {Fixed(t, ">=", 10 * HighPct)}
                    ELSE IF current <= LowPct THEN {Fixed(t, "<=", 10 * LowPct)} ELSE {}
               [] template.mode = "market_direction" ->
                    {Fixed(t, ">", 0) : x \in {y \in {1} : current > template.band}}
                    \cup {Fixed(t, "<", 0) : x \in {y \in {1} : current < -template.band}}
               [] template.mode = "structural" -> {Fixed(t, IF current >= 0 THEN ">=" ELSE "<", 0)}
               [] template.mode = "self_bucket" ->
                    IF Bucket(HighPct) = Absent THEN {}
                    ELSE IF 10 * current >= Bucket(HighPct) THEN {OwnTenths(t, ">=", HighPct)}
                    ELSE IF 10 * current <= Bucket(LowPct) THEN {OwnTenths(t, "<=", LowPct)}
                    ELSE {}
               [] template.mode = "catalyst_window" ->
                    IF current > CatalystMax THEN {} ELSE {Fixed(t, "<=", 10 * CatalystMax)}

ActiveConditions(db, symbol, asOf) ==
    UNION {Resolve(db, t, symbol, asOf) : t \in DOMAIN Templates}

ConditionThreshold(db, c, symbol, asOf) ==
    IF c.tenths = Absent THEN c.value ELSE OwnQuantile(db, c, symbol, asOf)

\* The days a candidate can be judged on and the ones that match, or no days at all
\* when one of its thresholds is unknown.
Masks(db, symbol, conditions, asOf) ==
    LET Series(c) == PortSeries(db, c.feature, c.on, symbol, asOf)
        AsFilter(c) == [op |-> c.op, value |-> ConditionThreshold(db, c, symbol, asOf)]
        eligible == {d \in DOMAIN Observable(db, symbol, asOf) : \A c \in conditions : d \in DOMAIN Series(c)}
    IN  IF \E c \in conditions : AsFilter(c).value = Absent
        THEN [eligible |-> {}, matching |-> {}]
        ELSE [eligible |-> eligible,
              matching |-> {d \in eligible : \A c \in conditions : Satisfies(AsFilter(c), Series(c)[d])}]

\* CrossSectionalMatcher.match over the whole universe.
Match(db, conditions, asOf) ==
    LET masks == [s \in DOMAIN db.price |-> Masks(db, s, conditions, asOf)]
    IN  [conditional |-> UNION {{s} \X Episodes(masks[s].eligible, masks[s].matching) : s \in DOMAIN masks},
         baseline    |-> UNION {{s} \X masks[s].eligible : s \in DOMAIN masks}]

----------------------------------------------------------------------------
\* Days more than the horizon's length of calendar days after the day before
\* begin an episode; a concentration is the sum of squared shares.

CalendarEpisodes(days, h) == {d \in days : \A e \in days : e < d => 5 * (d - e) > 7 * h}

SquaredCounts(pairs, Label(_)) ==
    MapThenSumSet(LAMBDA l : Cardinality({p \in pairs : Label(p) = l}) ^ 2, {Label(p) : p \in pairs})

HasSupport(pairs) ==
    LET total == Cardinality(pairs)
        Day(p) == p[2]  Symbol(p) == p[1]  Year(p) == p[2] \div YearLength
    IN  /\ total >= MinMatches
        /\ Cardinality(CalendarEpisodes({Day(p) : p \in pairs}, FocusLength)) >= MinEpisodes
        /\ Cardinality({Year(p) : p \in pairs}) >= MinYears
        /\ 2 * SquaredCounts(pairs, Symbol) <= total ^ 2
        /\ 5 * SquaredCounts(pairs, Year) <= 3 * total ^ 2

\* The conditions of a rung: none if one of its groups has no active condition.
Gather(active, groups) ==
    LET Of(group) == {c \in active : Templates[c.name].family \in FamilyGroup(group)}
    IN  IF \E group \in groups : Of(group) = {} THEN {} ELSE UNION {Of(group) : group \in groups}

MinOrZero(set) == IF set = {} THEN 0 ELSE Min(set)

\* The first rung that forms and has support; 0 when none does.
Supports(db, conditions, asOf) ==
    conditions # {} /\ HasSupport(Match(db, conditions, asOf).conditional)

Rung(db, active, asOf) ==
    MinOrZero({i \in DOMAIN Ladder : Supports(db, Gather(active, Ladder[i]), asOf)})

----------------------------------------------------------------------------
(***************************************************************************)
(* Outcomes.  The memory maps a symbol and a horizon to the forward        *)
(* returns computed when they were first asked for; it does not say as of  *)
(* which date that was.                                                    *)
(***************************************************************************)

NoMemory == [key \in {} |-> EmptySeries]

ForwardSeries(db, memory, symbol, h, asOf) ==
    IF << symbol, h >> \in DOMAIN memory THEN memory[<< symbol, h >>]
    ELSE LET prices == Observable(db, symbol, asOf)
         IN  [d \in DOMAIN prices |-> ForwardReturn(prices, d, h)]

\* The forward return of a matched day; reindexing gives nothing for a day the
\* series does not have.
ReturnOn(db, memory, symbol, d, h, asOf) ==
    LET series == ForwardSeries(db, memory, symbol, h, asOf)
    IN  IF d \in DOMAIN series THEN series[d] ELSE Absent

\* _pooled_returns: per matched day with an outcome, the return and the market's
\* and the sector's over the same window.
Pooled(db, memory, pairs, h, asOf) ==
    LET Own(p) == ReturnOn(db, memory, p[1], p[2], h, asOf)
        Of(s, p) == IF s = Absent THEN Absent ELSE ReturnOn(db, memory, s, p[2], h, asOf)
    IN  {<< p, Own(p), Of("SPY", p), Of(db.etf[p[1]], p) >> : p \in {p \in pairs : Own(p) # Absent}}

\* The symbols whose series pooling asks for.
Asked(db, memory, pairs, h, asOf) ==
    ({"SPY"} \cup {p[1] : p \in pairs}
             \cup {db.etf[row[1][1]] : row \in Pooled(db, memory, pairs, h, asOf)}) \ {Absent}

Remembered(db, memory, match, asOf) ==
    memory @@ [key \in UNION {Asked(db, memory, match[set], h, asOf) \X {h} :
                                set \in DOMAIN match, h \in Lengths} |->
                 ForwardSeries(db, memory, key[1], key[2], asOf)]

NoOdds(asOf) == [asOf |-> asOf, rung |-> 0, match |-> {}, outcomes |-> Absent]

\* ConditionalEngine.evaluate: the result, and what the engine remembers after it.
OddsOf(db, memory, last, rung, match) ==
    [result |-> [asOf |-> last, rung |-> rung, match |-> match.conditional,
                 outcomes |-> [h \in Lengths |->
                    [set \in DOMAIN match |-> Pooled(db, memory, match[set], h, last)]]],
     memory |-> Remembered(db, memory, match, last)]

OddsAt(db, memory, last, rung, active) ==
    IF rung = 0 THEN [result |-> NoOdds(last), memory |-> memory]
    ELSE OddsOf(db, memory, last, rung, Match(db, Gather(active, Ladder[rung]), last))

OddsGiven(db, memory, last, active) == OddsAt(db, memory, last, Rung(db, active, last), active)

Evaluate(db, memory, symbol, asOf) ==
    LET last == LastDay(Observable(db, symbol, asOf))
    IN  OddsGiven(db, memory, last, ActiveConditions(db, symbol, last))

\* ConditionalProbabilityModel._score_horizon: a horizon is scored if its returns
\* differ and fall into enough calendar episodes.
ScoredLengths(result) ==
    {h \in Lengths :
       /\ result.outcomes # Absent
       /\ LET rows == result.outcomes[h].conditional
          IN  /\ result.outcomes[h].baseline # {}
              /\ \E r, q \in rows : r[2][1] * q[2][2] # q[2][1] * r[2][2]
              /\ Cardinality(CalendarEpisodes({r[1][2] : r \in rows}, h)) >= MinEffective}
=============================================================================
