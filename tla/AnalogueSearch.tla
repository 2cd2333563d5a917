--------------------------- MODULE AnalogueSearch ---------------------------
(***************************************************************************)
(* Historical analogues (research/analogues.py): the days most like a      *)
(* target day, chosen in stages over four domains of features, thinned so  *)
(* that none are close together, and what followed them; the model that    *)
(* scores it (models/analogues.py); and the check of the embargo           *)
(* (validation/eligibility.py).                                            *)
(*                                                                         *)
(* A domain has one feature here, for which the cosine of two z-scores is  *)
(* the product of their signs.                                             *)
(***************************************************************************)
EXTENDS PointInTime

CONSTANTS
    PriorSessions,  \* sessions a candidate needs before it
    MinAnalogues,   \* analogues, and completed outcomes, a result needs
    MaxAnalogues,   \* analogues kept
    MarketCount, SectorCount,   \* candidates kept by the first two stages
    Gap             \* sessions between two analogues, and before the target

ASSUME SearchAssumption == {MinAnalogues, MaxAnalogues, Gap} \subseteq Nat \ {0}

Weight == [market |-> 35, sector |-> 20, company |-> 30, catalysts |-> 15]

Domain(db, symbol, name) ==
    CASE name = "market"    -> Values(db, "regime", "market")
      [] name = "sector"    -> IF db.etf[symbol] \in {Absent, symbol} THEN EmptySeries
                               ELSE Values(db, "ret", db.etf[symbol])
      [] name = "company"   -> Values(db, "ret", symbol)
      [] name = "catalysts" -> Values(db, "days", symbol)

SignOf(n) == IF n > 0 THEN 1 ELSE IF n < 0 THEN -1 ELSE 0

WholeFrame(series, target) == series

\* zscore_frame: scored against the history through the target; a column that
\* does not vary is dropped.
Basis(series, target) == Through(series, target)

Scorable(series, target) == Cardinality(Range(Basis(series, target))) > 1

ZSign(series, target, d) ==
    LET basis == Basis(series, target)
    IN  SignOf(series[d] * Cardinality(DOMAIN basis) - MapThenSumSet(LAMBDA e : basis[e], DOMAIN basis))

Similarity(series, target, d) ==
    IF {target, d} \subseteq DOMAIN series /\ Scorable(series, target)
    THEN ZSign(series, target, target) * ZSign(series, target, d)
    ELSE Absent

----------------------------------------------------------------------------
\* The first n of a set in an order without ties.
Best(set, n, Before(_, _)) == {x \in set : Cardinality({y \in set : Before(y, x)}) < n}

\* The n days with the highest scores, the earlier ones of those with the same.
Nearest(days, n, score) ==
    Best(days, n, LAMBDA d, e : score[d] > score[e] \/ (score[d] = score[e] /\ d < e))

\* The stages, by sim, which gives every candidate's similarity in each domain.
\* An analogue is [date, sim].
Select(sim, candidates, hasSector) ==
    LET market == Nearest({d \in candidates : sim[d].market # Absent}, MarketCount,
                          [d \in candidates |-> sim[d].market])
        score  == [d \in candidates |-> IF sim[d].sector = Absent THEN -2 ELSE sim[d].sector]
        sector == IF hasSector THEN Nearest(market, SectorCount, score) ELSE market
    IN  {[date |-> d, sim |-> sim[d]] : d \in {d \in sector : sim[d].company # Absent}}

Staged(db, symbol, target, candidates) ==
    Select([d \in candidates |->
              [name \in DOMAIN Weight |-> Similarity(Domain(db, symbol, name), target, d)]],
           candidates, Scorable(Domain(db, symbol, "sector"), target))

\* The weighted mean over the domains both days have, as numerator and denominator.
Overall(analogue) ==
    LET present == {name \in DOMAIN Weight : analogue.sim[name] # Absent}
    IN  << MapThenSumSet(LAMBDA name : Weight[name] * analogue.sim[name], present),
           MapThenSumSet(LAMBDA name : Weight[name], present) >>

Closer(a, b) ==
    LET x == Overall(a)  y == Overall(b)
    IN  \/ x[1] * y[2] > y[1] * x[2]
        \/ x[1] * y[2] = y[1] * x[2] /\ a.date < b.date

InOrderOf(set) ==
    [i \in 1 .. Cardinality(set) |-> CHOOSE x \in set : Cardinality({y \in set : Closer(y, x)}) = i - 1]

\* Best first; one is kept if it is Gap sessions from every one kept before it.
Deduplicated(ranked, positions) ==
    LET Far1(a, kept) == \A b \in kept : LET away == positions[a.date] - positions[b.date]
                                         IN  away >= Gap \/ -away >= Gap
        kept[i \in 0 .. Len(ranked)] ==
            IF i = 0 THEN {}
            ELSE IF Far1(ranked[i], kept[i - 1]) THEN kept[i - 1] \cup {ranked[i]} ELSE kept[i - 1]
    IN  kept[Len(ranked)]

\* deduped[: cfg.final_analogue_count]
Thinned(similar, positions) == Best(Deduplicated(InOrderOf(similar), positions), MaxAnalogues, Closer)

----------------------------------------------------------------------------
NoAnalogues(target) == [asOf |-> target, analogues |-> << >>, outcomes |-> Absent]

\* AnalogueEngine._outcomes: what followed the analogues, by prices as of the target.
Followed(db, symbol, analogues, candidates, target) ==
    LET After(s, days, h) == {<< d, ForwardReturn(Observable(db, s, target), d, h) >> : d \in days}
        dates == {a.date : a \in analogues}
        Benchmark(s, days, h) ==
            IF s = Absent THEN {}
            ELSE IF DOMAIN Observable(db, s, target) = {} THEN {} ELSE Completed(After(s, days, h))
        Own(h)  == Completed(After(symbol, dates, h))
        Days(h) == {s[1] : s \in Own(h)}
    IN  [h \in Lengths |-> [own |-> Own(h),
                            market |-> Benchmark("SPY", Days(h), h),
                            sector |-> Benchmark(db.etf[symbol], Days(h), h),
                            baseline |-> Completed(After(symbol, candidates, h))]]

\* The result: none if a stage leaves too few.
FoundAmong(db, symbol, target, candidates, similar, chosen) ==
    IF \E n \in {Cardinality(candidates), similar, Cardinality(chosen)} : n < MinAnalogues
    THEN NoAnalogues(target)
    ELSE [asOf |-> target, analogues |-> InOrderOf(chosen),
          outcomes |-> Followed(db, symbol, chosen, candidates, target)]

\* AnalogueEngine.find; without a company feature until asOf there is no result.
Find(db, symbol, asOf) ==
    LET index      == Values(db, "ret", symbol)
        target     == LastDay(Through(index, asOf))
        cutoff     == Rank(index, target) - Gap
        candidates == {d \in DOMAIN index : Rank(index, d) >= PriorSessions /\ Rank(index, d) < cutoff}
        similar    == Staged(db, symbol, target, candidates)
    IN  FoundAmong(db, symbol, target, candidates, Cardinality(similar),
                   Thinned(similar, [d \in candidates |-> Rank(index, d)]))

\* HistoricalAnalogueModel._score_horizon: neutral, or scored on the outcomes of
\* the horizon with the overlap of the first of the analogues' dates.
Scored(found, h) ==
    LET n == Cardinality(found.outcomes[h].own)
    IN  IF n < MinAnalogues \/ found.outcomes[h].baseline = {} THEN Absent
        ELSE [dates |-> {found.analogues[i].date : i \in 1 .. n}, sample |-> found.outcomes[h]]

WithScores(found) ==
    [found |-> found,
     scores |-> [h \in Lengths |-> IF found.outcomes = Absent THEN Absent ELSE Scored(found, h)]]

Analogous(db, symbol, asOf) == WithScores(Find(db, symbol, asOf))

----------------------------------------------------------------------------
\* label_observable, on the traded days the check finds in the database.
LabelObservable(sessions, d, scoring, h) ==
    /\ d <= scoring /\ d \in DOMAIN sessions
    /\ Rank(sessions, d) + h < Cardinality(DOMAIN sessions)
    /\ DayAt(sessions, Rank(sessions, d) + h) <= scoring

\* verify_analogue_observability: outcomes used beyond the observable ones.
Violations(db, symbol, found) ==
    {h \in Lengths :
       /\ found.outcomes # Absent
       /\ Cardinality(found.outcomes[h].own) >
            Cardinality({i \in DOMAIN found.analogues :
                           LabelObservable(db.price[symbol], found.analogues[i].date, found.asOf, h)})}
=============================================================================
