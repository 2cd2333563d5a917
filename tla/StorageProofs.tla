--------------------------- MODULE StorageProofs ---------------------------
(***************************************************************************)
(* Proofs about what the database holds.  Features (FeatureStore): for any *)
(* publication lags, overlaps, number of days and revisions, no feature    *)
(* looks ahead.  The schema (Schema): with runs of any types and any rows  *)
(* they leave, every migration up and down succeeds, keeps what can stay,  *)
(* and leads to the schema of its revision.                                *)
(***************************************************************************)
EXTENDS FeatureStore, Schema, Sums, SequenceTheorems, WellFoundedInduction, TLAPS

-----------------------------------------------------------------------------
(* Features: stored sources are of days, and a value sees none published   *)
(* after its day.                                                          *)

\* Sources are of days.
StoredOK ==
    /\ \A s \in Series : DOMAIN stored.macro[s] \subseteq Days
    /\ DOMAIN stored.snaps \subseteq Days

IngestOK ==
    /\ \A s \in Series : s \in DOMAIN ingest.macro => DOMAIN ingest.macro[s] \subseteq Days
    /\ DOMAIN ingest.snaps \subseteq Days

SourcesInv ==
    /\ today \in Days
    /\ StoredOK
    /\ ingest.pc = "fetched" => IngestOK

-----------------------------------------------------------------------------
\* A set of days has a last one.
LEMMA LastOfDays ==
    ASSUME NEW S, S \subseteq Days, S # {}
    PROVE  Max(S) \in S /\ \A y \in S : y <= Max(S)
<1> DEFINE T == { LastDay - x : x \in S }
<1>1. LastDay \in Nat
  BY BoundsAssumption
<1>2. T \subseteq Nat /\ T # {}
  <2>1. \A x \in S : x \in Int /\ x <= LastDay
    BY <1>1 DEF Days
  <2>2. \A x \in S : LastDay - x \in Nat
    BY <1>1, <2>1
  <2>3. QED
    BY <2>2
<1>3. PICK t \in T : \A y \in T : ~ (<< y, t >> \in OpToRel(<, Nat))
  BY <1>2, NatLessThanWellFounded, WFMin
<1>4. \A y \in T : ~ (y < t)
  BY <1>2, <1>3 DEF OpToRel
<1>5. PICK x \in S : t = LastDay - x
  OBVIOUS
<1>6. ASSUME NEW y \in S PROVE x >= y
  <2>1. x \in Int /\ y \in Int /\ LastDay - y \in T
    BY <1>1, <1>5 DEF Days
  <2>2. ~ (LastDay - y < LastDay - x)
    BY <1>4, <1>5, <2>1
  <2>3. QED
    BY <1>1, <2>1, <2>2
<1>7. Max(S) \in S /\ \A y \in S : Max(S) >= y
  BY <1>6, Zenon DEF Max
<1>8. \A y \in S : y \in Int
  BY DEF Days
<1>9. QED
  BY <1>7, <1>8

\* Two alignments that agree on what is public give the same value.
LEMMA SameAlignment ==
    ASSUME NEW value, NEW available, NEW other, NEW known, NEW d,
           DOMAIN value \subseteq Days,
           { t \in DOMAIN value : available[t] <= d } = { t \in DOMAIN other : known[t] <= d },
           \A t \in DOMAIN value : available[t] <= d => value[t] = other[t]
    PROVE  AlignAvailability(value, available, d) = AlignAvailability(other, known, d)
<1> DEFINE public == { t \in DOMAIN value : available[t] <= d }
<1>1. CASE public = {}
  BY <1>1 DEF AlignAvailability
<1>2. CASE public # {}
  <2>1. Max(public) \in public
    BY <1>2, LastOfDays
  <2>2. value[Max(public)] = other[Max(public)]
    BY <2>1
  <2>3. QED
    BY <1>2, <2>2 DEF AlignAvailability
<1>3. QED
  BY <1>1, <1>2

-----------------------------------------------------------------------------
\* One series, and what of it is public on a day.
Public(rows, s, d) == Restrict(rows, { t \in DOMAIN rows : t + Lag[s] <= d })

LEMMA PublicRows ==
    ASSUME NEW rows, DOMAIN rows \subseteq Days, NEW s \in Series, NEW d \in Int
    PROVE  /\ DOMAIN Public(rows, s, d) = { t \in DOMAIN rows : t + Lag[s] <= d }
           /\ \A t \in DOMAIN Public(rows, s, d) : Public(rows, s, d)[t] = rows[t]
  BY DEF Public, Restrict

LEMMA LevelLooksBack ==
    ASSUME NEW rows, DOMAIN rows \subseteq Days, NEW s \in Series, NEW d \in Int
    PROVE  MacroLevel(rows, s, d) = MacroLevel(Public(rows, s, d), s, d)
<1> DEFINE other == Public(rows, s, d)
<1>1. /\ DOMAIN other = { t \in DOMAIN rows : t + Lag[s] <= d }
      /\ \A t \in DOMAIN other : other[t] = rows[t]
  BY PublicRows
<1> HIDE DEF other
<1>2. { t \in DOMAIN rows : AvailableFrom(rows, s)[t] <= d }
          = { t \in DOMAIN other : AvailableFrom(other, s)[t] <= d }
  BY <1>1 DEF AvailableFrom
<1>3. \A t \in DOMAIN rows : AvailableFrom(rows, s)[t] <= d => rows[t] = other[t]
  BY <1>1 DEF AvailableFrom
<1>4. AlignAvailability(rows, AvailableFrom(rows, s), d)
          = AlignAvailability(other, AvailableFrom(other, s), d)
  BY <1>2, <1>3, SameAlignment
<1>5. QED
  BY <1>4 DEF MacroLevel, other

\* What came before a public observation was public before it.
LEMMA ChangeLooksBack ==
    ASSUME NEW rows, DOMAIN rows \subseteq Days, NEW s \in Series, NEW d \in Int
    PROVE  MacroChange(rows, s, d) = MacroChange(Public(rows, s, d), s, d)
<1> DEFINE other == Public(rows, s, d)
<1> DEFINE earlier(t) == { u \in DOMAIN rows : u < t }
<1> DEFINE known(t) == { u \in DOMAIN other : u < t }
<1> DEFINE value == [ t \in DOMAIN rows |->
                        IF earlier(t) = {} THEN Null ELSE Minus(rows[t], rows[Max(earlier(t))]) ]
<1> DEFINE seen == [ t \in DOMAIN other |->
                       IF known(t) = {} THEN Null ELSE Minus(other[t], other[Max(known(t))]) ]
<1>1. /\ DOMAIN other = { t \in DOMAIN rows : t + Lag[s] <= d }
      /\ \A t \in DOMAIN other : other[t] = rows[t]
  BY PublicRows
<1>2. Lag[s] \in Nat /\ \A t \in DOMAIN rows : t \in Int
  BY BoundsAssumption DEF Days
<1> HIDE DEF other
<1>3. ASSUME NEW t \in DOMAIN other PROVE value[t] = seen[t]
  <2>1. t \in DOMAIN rows /\ t + Lag[s] <= d
    BY <1>1
  <2>2. \A u \in DOMAIN rows : u < t => u + Lag[s] <= d
    BY <1>2, <2>1
  <2>3. earlier(t) = known(t)
    BY <1>1, <2>2
  <2>4. CASE earlier(t) = {}
    BY <2>1, <2>3, <2>4
  <2>5. CASE earlier(t) # {}
    <3>1. Max(earlier(t)) \in earlier(t)
      <4>1. earlier(t) \subseteq Days
        OBVIOUS
      <4>2. QED
        BY <2>5, <4>1, LastOfDays
    <3>2. Max(earlier(t)) \in DOMAIN other
      BY <2>3, <3>1
    <3>3. rows[Max(earlier(t))] = other[Max(known(t))] /\ rows[t] = other[t]
      BY <1>1, <2>3, <3>2
    <3>4. value[t] = Minus(rows[t], rows[Max(earlier(t))])
      BY <2>1, <2>5
    <3>5. seen[t] = Minus(other[t], other[Max(known(t))])
      BY <2>3, <2>5
    <3>6. QED
      BY <3>3, <3>4, <3>5
  <2>6. QED
    BY <2>4, <2>5
<1>4. DOMAIN value = DOMAIN rows /\ DOMAIN seen = DOMAIN other
  OBVIOUS
<1> HIDE DEF value, seen
<1>5. { t \in DOMAIN value : AvailableFrom(rows, s)[t] <= d }
          = { t \in DOMAIN seen : AvailableFrom(other, s)[t] <= d }
  BY <1>1, <1>4 DEF AvailableFrom
<1>6. \A t \in DOMAIN value : AvailableFrom(rows, s)[t] <= d => value[t] = seen[t]
  BY <1>1, <1>3, <1>4 DEF AvailableFrom
<1>7. AlignAvailability(value, AvailableFrom(rows, s), d)
          = AlignAvailability(seen, AvailableFrom(other, s), d)
  BY <1>4, <1>5, <1>6, SameAlignment
<1>8. QED
  BY <1>7, Zenon DEF MacroChange, value, seen, other

\* A slope waits for both of its legs.
LEMMA LaterLeg ==
    ASSUME NEW t \in Int
    PROVE  /\ Max({ t + Lag[s] : s \in Series }) \in Int
           /\ \A d \in Int : Max({ t + Lag[s] : s \in Series }) <= d
                             <=> t + Lag["long"] <= d /\ t + Lag["short"] <= d
<1> DEFINE long == t + Lag["long"]
<1> DEFINE short == t + Lag["short"]
<1>1. Lag["long"] \in Nat /\ Lag["short"] \in Nat
  BY BoundsAssumption DEF Series
<1>2. long \in Int /\ short \in Int
  BY <1>1
<1>3. { t + Lag[s] : s \in Series } = {long, short}
  BY DEF Series
<1> HIDE DEF long, short
<1>4. \E x \in {long, short} : \A y \in {long, short} : x >= y
  BY <1>2
<1>5. Max({long, short}) \in {long, short} /\ \A y \in {long, short} : Max({long, short}) >= y
  BY <1>4, Zenon DEF Max
<1>6. \A d \in Int : Max({long, short}) <= d <=> long <= d /\ short <= d
  BY <1>2, <1>5
<1>7. QED
  BY <1>2, <1>3, <1>5, <1>6 DEF long, short

PublicMacro(macro, d) == [ s \in Series |-> Public(macro[s], s, d) ]

\* On a day and on those before it.
LEMMA SlopeLooksBack ==
    ASSUME NEW macro, \A s \in Series : DOMAIN macro[s] \subseteq Days,
           NEW d \in Int, NEW e \in Int, e <= d
    PROVE  CurveSlope(macro, e) = CurveSlope(PublicMacro(macro, d), e)
<1> DEFINE other == PublicMacro(macro, d)
<1> DEFINE both == DOMAIN macro["long"] \intersect DOMAIN macro["short"]
<1> DEFINE seen == DOMAIN other["long"] \intersect DOMAIN other["short"]
<1> DEFINE value == [ t \in both |-> Minus(macro["long"][t], macro["short"][t]) ]
<1> DEFINE shown == [ t \in seen |-> Minus(other["long"][t], other["short"][t]) ]
<1> DEFINE from == [ t \in both |-> Max({ t + Lag[s] : s \in Series }) ]
<1> DEFINE since == [ t \in seen |-> Max({ t + Lag[s] : s \in Series }) ]
<1>1. "long" \in Series /\ "short" \in Series
  BY DEF Series
<1>2. other["long"] = Public(macro["long"], "long", d) /\ other["short"] = Public(macro["short"], "short", d)
  BY <1>1 DEF PublicMacro
<1>3. /\ DOMAIN other["long"] = { t \in DOMAIN macro["long"] : t + Lag["long"] <= d }
      /\ DOMAIN other["short"] = { t \in DOMAIN macro["short"] : t + Lag["short"] <= d }
      /\ \A t \in DOMAIN other["long"] : other["long"][t] = macro["long"][t]
      /\ \A t \in DOMAIN other["short"] : other["short"][t] = macro["short"][t]
  <2>1. ASSUME NEW s \in Series
        PROVE  /\ DOMAIN Public(macro[s], s, d) = { t \in DOMAIN macro[s] : t + Lag[s] <= d }
               /\ \A t \in DOMAIN Public(macro[s], s, d) : Public(macro[s], s, d)[t] = macro[s][t]
    BY PublicRows
  <2> HIDE DEF other
  <2>2. /\ DOMAIN other["long"] = { t \in DOMAIN macro["long"] : t + Lag["long"] <= d }
        /\ \A t \in DOMAIN other["long"] : other["long"][t] = macro["long"][t]
    BY <1>1, <1>2, <2>1
  <2>3. /\ DOMAIN other["short"] = { t \in DOMAIN macro["short"] : t + Lag["short"] <= d }
        /\ \A t \in DOMAIN other["short"] : other["short"][t] = macro["short"][t]
    BY <1>1, <1>2, <2>1
  <2>4. QED
    BY <2>2, <2>3
<1> HIDE DEF other
<1>4. both \subseteq Days /\ \A t \in both : t \in Int
  BY <1>1 DEF Days
<1>5. seen = { t \in both : t + Lag["long"] <= d /\ t + Lag["short"] <= d }
  BY <1>3
<1>6. Lag["long"] \in Nat /\ Lag["short"] \in Nat
  BY <1>1, BoundsAssumption
<1>7. ASSUME NEW t \in both
      PROVE  /\ from[t] <= e <=> t + Lag["long"] <= e /\ t + Lag["short"] <= e
             /\ t \in seen => since[t] = from[t]
             /\ from[t] <= e => t \in seen
  <2>1. t \in Int
    BY <1>4
  <2>2. from[t] <= e <=> t + Lag["long"] <= e /\ t + Lag["short"] <= e
    BY <2>1, LaterLeg
  <2>3. t + Lag["long"] <= e /\ t + Lag["short"] <= e => t + Lag["long"] <= d /\ t + Lag["short"] <= d
    BY <1>6, <2>1
  <2>4. from[t] <= e => t \in seen
    BY <1>5, <2>2, <2>3
  <2>5. QED
    BY <2>2, <2>4
<1>8. \A t \in seen : t \in both /\ value[t] = shown[t]
  BY <1>3, <1>5
<1>9. DOMAIN value = both /\ DOMAIN shown = seen
  OBVIOUS
<1> HIDE DEF value, shown, from, since, both, seen
<1>10. { t \in DOMAIN value : from[t] <= e } = { t \in DOMAIN shown : since[t] <= e }
  BY <1>7, <1>8, <1>9
<1>11. \A t \in DOMAIN value : from[t] <= e => value[t] = shown[t]
  BY <1>7, <1>8, <1>9
<1>12. AlignAvailability(value, from, e) = AlignAvailability(shown, since, e)
  BY <1>4, <1>9, <1>10, <1>11, SameAlignment
<1>13. QED
  BY <1>12, Zenon DEF CurveSlope, value, shown, from, since, both, seen, other

LEMMA FieldLooksBack ==
    ASSUME NEW snaps, DOMAIN snaps \subseteq Days, NEW d
    PROVE  FundamentalField(snaps, d)
             = FundamentalField(Restrict(snaps, { t \in DOMAIN snaps : t <= d }), d)
<1> DEFINE other == Restrict(snaps, { t \in DOMAIN snaps : t <= d })
<1> DEFINE known == { t \in DOMAIN snaps : t <= d /\ snaps[t] # Null }
<1>1. /\ DOMAIN other = { t \in DOMAIN snaps : t <= d }
      /\ \A t \in DOMAIN other : other[t] = snaps[t]
  BY DEF Restrict
<1> HIDE DEF other
<1>2. { t \in DOMAIN other : t <= d /\ other[t] # Null } = known
  BY <1>1
<1>3. CASE known = {}
  BY <1>2, <1>3 DEF FundamentalField, other
<1>4. CASE known # {}
  <2>1. Max(known) \in known
    BY <1>4, LastOfDays
  <2>2. other[Max(known)] = snaps[Max(known)]
    BY <1>1, <2>1
  <2>3. FundamentalField(other, d) = other[Max(known)]
    BY <1>2, <1>4 DEF FundamentalField
  <2>4. QED
    BY <1>4, <2>2, <2>3 DEF FundamentalField, other
<1>5. QED
  BY <1>3, <1>4

LEMMA EarningsLookBack ==
    ASSUME NEW announced, NEW d
    PROVE  DaysUntilEarnings(announced, d)
             = DaysUntilEarnings({ a \in announced : a.known <= d }, d)
<1>1. { b \in { a \in announced : a.known <= d } : b.known <= d /\ b.event > d }
        = { b \in announced : b.known <= d /\ b.event > d }
  OBVIOUS
<1>2. QED
  BY <1>1 DEF DaysUntilEarnings

-----------------------------------------------------------------------------
\* What a day's features are computed from was public on that day.
LEMMA FeaturesLookBack ==
    ASSUME StoredOK, NEW feature \in Features, NEW d \in Int
    PROVE  Compute(feature, stored, d, 1) = Compute(feature, PublicOn(d), d, 1)
<1>1. /\ PublicOn(d).macro = PublicMacro(stored.macro, d)
      /\ PublicOn(d).snaps = Restrict(stored.snaps, { t \in DOMAIN stored.snaps : t <= d })
      /\ PublicOn(d).announced = { a \in stored.announced : a.known <= d }
  BY DEF PublicOn, PublicMacro, Public
<1>2. /\ "long" \in Series
      /\ \A s \in Series : DOMAIN stored.macro[s] \subseteq Days
      /\ DOMAIN stored.snaps \subseteq Days
  BY DEF StoredOK, Series
<1>3. PublicOn(d).macro["long"] = Public(stored.macro["long"], "long", d)
  BY <1>1, <1>2 DEF PublicMacro
<1>4. CASE feature = "level"
  <2>1. MacroLevel(stored.macro["long"], "long", d)
          = MacroLevel(Public(stored.macro["long"], "long", d), "long", d)
    BY <1>2, LevelLooksBack
  <2>2. QED
    BY <1>3, <1>4, <2>1 DEF Compute
<1>5. CASE feature = "change"
  <2>1. MacroChange(stored.macro["long"], "long", d)
          = MacroChange(Public(stored.macro["long"], "long", d), "long", d)
    BY <1>2, ChangeLooksBack
  <2>2. QED
    BY <1>3, <1>5, <2>1 DEF Compute
<1>6. CASE feature = "slope"
  <2>1. CurveSlope(stored.macro, d) = CurveSlope(PublicMacro(stored.macro, d), d)
    BY <1>2, SlopeLooksBack
  <2>2. QED
    BY <1>1, <1>6, <2>1 DEF Compute
<1>7. CASE feature = "slope_change"
  <2>1. /\ CurveSlope(stored.macro, d) = CurveSlope(PublicMacro(stored.macro, d), d)
        /\ CurveSlope(stored.macro, d - 1) = CurveSlope(PublicMacro(stored.macro, d), d - 1)
    BY <1>2, SlopeLooksBack
  <2>2. MarketFeatureChange(stored.macro, d, 1) = MarketFeatureChange(PublicMacro(stored.macro, d), d, 1)
    BY <2>1 DEF MarketFeatureChange
  <2>3. QED
    BY <1>1, <1>7, <2>2 DEF Compute
<1>8. CASE feature = "pe"
  <2>1. FundamentalField(stored.snaps, d) = FundamentalField(PublicOn(d).snaps, d)
    BY <1>1, <1>2, FieldLooksBack
  <2>2. QED
    BY <1>8, <2>1 DEF Compute
<1>9. CASE feature = "days_until"
  <2>1. DaysUntilEarnings(stored.announced, d) = DaysUntilEarnings(PublicOn(d).announced, d)
    BY <1>1, EarningsLookBack
  <2>2. QED
    BY <1>9, <2>1 DEF Compute
<1>10. QED
  BY <1>4, <1>5, <1>6, <1>7, <1>8, <1>9 DEF Features, Market, Instrument

-----------------------------------------------------------------------------
LEMMA InitSources == Init => SourcesInv
<1> SUFFICES ASSUME Init PROVE SourcesInv
  OBVIOUS
<1>1. today \in Days
  BY BoundsAssumption DEF Init, Days
<1>2. DOMAIN NoRows = {}
  BY DEF NoRows
<1>3. (\A s \in Series : stored.macro[s] = NoRows) /\ stored.snaps = NoRows
  BY DEF Init
<1>4. ingest.pc # "fetched"
  BY DEF Init, Idle
<1>5. QED
  BY <1>1, <1>2, <1>3, <1>4 DEF SourcesInv, StoredOK

LEMMA FetchKeeps ==
    ASSUME SourcesInv, NEW kind \in Kinds, Fetch(kind)
    PROVE  SourcesInv'
<1>1. PICK failed \in SUBSET Items(kind) :
          ingest' = [ pc |-> "fetched", on |-> today,
                      macro |-> [ s \in Series \intersect (Items(kind) \ failed) |-> FetchSeries(s) ],
                      snaps |-> IF "fundamentals" \in Items(kind) \ failed
                                THEN [ t \in {today} |-> world.pe ] ELSE NoRows,
                      announced |-> IF "earnings" \in Items(kind) \ failed /\ world.next > today
                                    THEN {world.next} ELSE {} ]
  BY DEF Fetch
<1>2. today' = today /\ stored' = stored /\ today \in Days
  BY DEF Fetch, SourcesInv
<1>3. \A s \in Series : DOMAIN FetchSeries(s) \subseteq Days
  BY <1>2, BoundsAssumption DEF FetchSeries, Days
<1>4. DOMAIN ingest'.snaps \subseteq Days
  BY <1>1, <1>2 DEF NoRows
<1>5. \A s \in Series : s \in DOMAIN ingest'.macro => DOMAIN ingest'.macro[s] \subseteq Days
  BY <1>1, <1>3
<1>6. QED
  BY <1>2, <1>4, <1>5 DEF SourcesInv, StoredOK, IngestOK

LEMMA UpsertedRows ==
    ASSUME NEW rows, NEW table, DOMAIN rows \subseteq Days, DOMAIN table \subseteq Days
    PROVE  DOMAIN Upserted(rows, table) \subseteq Days
  BY DEF Upserted

LEMMA CommitIngestKeeps ==
    ASSUME SourcesInv, CommitIngest
    PROVE  SourcesInv'
<1>1. IngestOK /\ StoredOK
  BY DEF SourcesInv, CommitIngest
<1>2. ASSUME NEW s \in Series PROVE DOMAIN InsertObservations(s) \subseteq Days
  <2>1. CASE s \in DOMAIN ingest.macro
    <3>1. DOMAIN ValidRows(ingest.macro[s]) \subseteq Days
      BY <1>1, <2>1 DEF ValidRows, Restrict, IngestOK
    <3>2. QED
      BY <1>1, <2>1, <3>1, UpsertedRows DEF InsertObservations, StoredOK
  <2>2. CASE s \notin DOMAIN ingest.macro
    BY <1>1, <2>2 DEF InsertObservations, StoredOK
  <2>3. QED
    BY <2>1, <2>2
<1>3. DOMAIN InsertSnapshot \subseteq Days
  BY <1>1, UpsertedRows DEF InsertSnapshot, IngestOK, StoredOK
<1>4. (\A s \in Series : stored'.macro[s] = InsertObservations(s)) /\ stored'.snaps = InsertSnapshot
  BY DEF CommitIngest
<1>5. today' = today /\ ingest'.pc # "fetched"
  BY DEF CommitIngest, Idle
<1>6. QED
  BY <1>2, <1>3, <1>4, <1>5 DEF SourcesInv, StoredOK

LEMMA OthersKeepSources ==
    ASSUME SourcesInv, today' \in Days, stored' = stored,
           ingest' = ingest \/ ingest' = Idle
    PROVE  SourcesInv'
  BY DEF SourcesInv, StoredOK, IngestOK, Idle

LEMMA NextSources == SourcesInv /\ [Next]_vars => SourcesInv'
<1> SUFFICES ASSUME SourcesInv, [Next]_vars PROVE SourcesInv'
  OBVIOUS
<1>1. today \in Days
  BY DEF SourcesInv
<1>2. CASE NextDay
  BY <1>1, <1>2, OthersKeepSources, BoundsAssumption DEF NextDay, Days
<1>3. CASE Revise \/ Deploy \/ CrashIngest
  BY <1>1, <1>3, OthersKeepSources DEF Revise, Deploy, CrashIngest
<1>4. ASSUME NEW kind \in Kinds, Fetch(kind) PROVE SourcesInv'
  BY <1>4, FetchKeeps
<1>5. CASE CommitIngest
  BY <1>5, CommitIngestKeeps
<1>6. CASE BeginBuild \/ CommitBuild \/ CrashBuild
  BY <1>1, <1>6, OthersKeepSources DEF BeginBuild, CommitBuild, CrashBuild
<1>7. CASE UNCHANGED vars
  BY <1>1, <1>7, OthersKeepSources DEF vars
<1>8. QED
  BY <1>2, <1>3, <1>4, <1>5, <1>6, <1>7 DEF Next

\* No feature of a day depends on anything published after it, for any lags
\* and however observations are revised, withdrawn or never fetched
\* (features/base.py:1-8).
THEOREM FeaturesNeverLookAhead == Spec => []NoLookAhead
<1>1. SourcesInv => NoLookAhead
  BY FeaturesLookBack DEF SourcesInv, NoLookAhead, Days
<1>2. QED
  BY <1>1, InitSources, NextSources, PTL DEF Spec

-----------------------------------------------------------------------------
(* Migrations: a list of statements is run one by one.                     *)


\* g is the recursive function behind the fold over the positions in S.
IsRun(g, d, s, S) ==
    g = [ T \in SUBSET S |-> IF T = {} THEN d ELSE Run(g[T \ {Max(T)}], s[Max(T)]) ]

\* What the statements at the positions in S make of d.
RunAt(d, s, S) == (CHOOSE g : IsRun(g, d, s, S))[S]

LEMMA FoldRuns ==
    ASSUME NEW d, NEW s
    PROVE  Execute(d, s) = RunAt(d, s, DOMAIN s)
  BY DEF Execute, FoldLeft, MapThenFoldSet, RunAt, IsRun

\* Sets of positions in a list of n statements.
Positions(n) == SUBSET (1 .. n)

LEMMA LastPosition ==
    ASSUME NEW n \in Nat, NEW T \in SUBSET (1 .. n), T # {}
    PROVE  Max(T) \in T /\ \A x \in T : x <= Max(T)
<1>1. IsFiniteSet(1 .. n)
  BY FS_Interval
<1>2. IsFiniteSet(T)
  BY <1>1, FS_Subset
<1>3. T \subseteq Int
  OBVIOUS
<1>4. QED
  BY <1>2, <1>3, HasMax

LEMMA RunUnique ==
    ASSUME NEW d, NEW s, NEW n \in Nat, NEW S \in SUBSET (1 .. n),
           NEW g, NEW h, IsRun(g, d, s, S), IsRun(h, d, s, S)
    PROVE  g = h
<1> DEFINE Wrong == { T \in SUBSET S : g[T] # h[T] }
<1>1. ASSUME NEW T \in Wrong PROVE \E U \in Wrong : U \subseteq T /\ U # T
  <2> DEFINE x == Max(T)
  <2>1. T # {}
    BY DEF IsRun
  <2>2. x \in T
    BY <2>1, LastPosition
  <2>3. /\ g[T] = Run(g[T \ {x}], s[x])
        /\ h[T] = Run(h[T \ {x}], s[x])
    BY <2>1 DEF IsRun
  <2>4. T \ {x} \in Wrong
    BY <2>3
  <2>5. QED
    BY <2>2, <2>4
<1>2. Wrong = {}
  <2>1. Wrong \in SUBSET SUBSET S
    OBVIOUS
  <2>2. IsFiniteSet(S)
    <3>1. IsFiniteSet(1 .. n)
      BY FS_Interval
    <3>2. QED
      BY <3>1, FS_Subset
  <2> HIDE DEF Wrong
  <2>3. QED
    BY <1>1, <2>1, <2>2, SubsetDescent
<1>3. g = [ T \in SUBSET S |-> g[T] ] /\ h = [ T \in SUBSET S |-> h[T] ]
  BY DEF IsRun
<1>4. QED
  BY <1>2, <1>3

LEMMA RunEquation ==
    ASSUME NEW d, NEW s, NEW n \in Nat, NEW S \in Positions(n)
    PROVE  RunAt(d, s, S) = IF S = {} THEN d ELSE Run(RunAt(d, s, S \ {Max(S)}), s[Max(S)])
<1> DEFINE Right(T) == IF T = {} THEN d ELSE Run(RunAt(d, s, T \ {Max(T)}), s[Max(T)])
           Wrong == { T \in SUBSET S : RunAt(d, s, T) # Right(T) }
<1>0. S \in SUBSET (1 .. n)
  BY DEF Positions
<1>1. ASSUME NEW T \in Wrong, \A U \in Wrong : U \subseteq T => U = T PROVE FALSE
  <2> DEFINE h == [ U \in SUBSET T |-> Right(U) ]
  <2>1. ASSUME NEW U \in SUBSET T
        PROVE  h[U] = IF U = {} THEN d ELSE Run(h[U \ {Max(U)}], s[Max(U)])
    <3>1. CASE U = {}
      BY <3>1
    <3>2. CASE U # {}
      <4>1. Max(U) \in U
        BY <1>0, <3>2, LastPosition
      <4>2. U \ {Max(U)} \in SUBSET T /\ U \ {Max(U)} # T
        BY <4>1
      <4>3. U \ {Max(U)} \notin Wrong
        BY <1>1, <4>2
      <4>4. h[U \ {Max(U)}] = RunAt(d, s, U \ {Max(U)})
        BY <4>2, <4>3
      <4>5. QED
        BY <3>2, <4>4
    <3>3. QED
      BY <3>1, <3>2
  <2>2. IsRun(h, d, s, T)
    <3>1. h = [ U \in SUBSET T |-> IF U = {} THEN d ELSE Run(h[U \ {Max(U)}], s[Max(U)]) ]
      <4> DEFINE k == [ U \in SUBSET T |-> IF U = {} THEN d ELSE Run(h[U \ {Max(U)}], s[Max(U)]) ]
      <4>1. \A U \in SUBSET T : h[U] = k[U]
        BY <2>1
      <4>2. h = [ U \in SUBSET T |-> h[U] ] /\ k = [ U \in SUBSET T |-> k[U] ]
        OBVIOUS
      <4> HIDE DEF h, k
      <4>3. h = k
        BY <4>1, <4>2
      <4>4. QED
        BY <4>3 DEF k
    <3>2. QED
      BY <3>1 DEF IsRun
  <2>3. T \in SUBSET (1 .. n)
    BY <1>0
  <2> DEFINE c == CHOOSE g : IsRun(g, d, s, T)
  <2> HIDE DEF h
  <2>4. IsRun(c, d, s, T)
    BY <2>2
  <2>5. c = h
    BY <2>2, <2>3, <2>4, RunUnique
  <2>6. RunAt(d, s, T) = h[T]
    BY <2>5 DEF RunAt
  <2>7. QED
    BY <2>6 DEF h
<1>2. Wrong = {}
  <2>1. Wrong \in SUBSET SUBSET S
    OBVIOUS
  <2>2. IsFiniteSet(S)
    <3>1. IsFiniteSet(1 .. n)
      BY FS_Interval
    <3>2. QED
      BY <1>0, <3>1, FS_Subset
  <2>3. \A T \in Wrong : \E U \in Wrong : U \subseteq T /\ U # T
    BY <1>1
  <2> HIDE DEF Wrong
  <2>4. QED
    BY <2>1, <2>2, <2>3, SubsetDescent
<1>3. QED
  BY <1>2

\* The database after the first k statements.
Reached(d, s, k) == RunAt(d, s, 1 .. k)

LEMMA ReachedNone ==
    ASSUME NEW d, NEW s
    PROVE  Reached(d, s, 0) = d
<1>1. 1 .. 0 = {} /\ 1 .. 0 \in Positions(0)
  BY DEF Positions
<1>2. QED
  BY <1>1, RunEquation DEF Reached

LEMMA ReachedNext ==
    ASSUME NEW d, NEW s, NEW k \in Nat, k # 0
    PROVE  Reached(d, s, k) = Run(Reached(d, s, k - 1), s[k])
<1> DEFINE S == 1 .. k
<1>1. S \in Positions(k) /\ S # {}
  BY DEF Positions
<1>2. Max(S) \in S /\ \A x \in S : x <= Max(S)
  BY <1>1, LastPosition DEF Positions
<1>3. Max(S) = k
  BY <1>1, <1>2
<1>4. S \ {k} = 1 .. (k - 1)
  OBVIOUS
<1> HIDE DEF S
<1>5. RunAt(d, s, S) = Run(RunAt(d, s, S \ {Max(S)}), s[Max(S)])
  BY <1>1, RunEquation
<1>6. QED
  BY <1>3, <1>4, <1>5 DEF Reached, S

LEMMA ExecuteIsReached ==
    ASSUME NEW d, NEW s, NEW n \in Nat, DOMAIN s = 1 .. n
    PROVE  Execute(d, s) = Reached(d, s, n)
  BY FoldRuns DEF Reached

\* The statements of s, then those of t.
LEMMA ExecuteBoth ==
    ASSUME NEW d, NEW S, NEW s \in Seq(S), NEW t \in Seq(S)
    PROVE  Execute(d, s \o t) = Execute(Execute(d, s), t)
<1> DEFINE m == Len(s)
           n == Len(t)
           e == Execute(d, s)
<1>1. /\ m \in Nat /\ n \in Nat /\ DOMAIN s = 1 .. m /\ DOMAIN t = 1 .. n
      /\ DOMAIN (s \o t) = 1 .. (m + n)
      /\ \A i \in 1 .. m + n : (s \o t)[i] = IF i <= m THEN s[i] ELSE t[i - m]
  <2>1. s \o t \in Seq(S) /\ Len(s \o t) = m + n
    BY ConcatProperties
  <2>2. QED
    BY <2>1, LenProperties, ConcatProperties
<1> HIDE DEF m, n
<1>2. \A k \in Nat : k <= m => Reached(d, s \o t, k) = Reached(d, s, k)
  <2> DEFINE Wrong == { k \in Nat : k <= m /\ Reached(d, s \o t, k) # Reached(d, s, k) }
  <2>1. ASSUME NEW k \in Wrong PROVE \E j \in Wrong : j < k
    <3>1. k # 0
      BY ReachedNone
    <3>2. k - 1 \in Nat /\ k \in Nat /\ k \in 1 .. m + n /\ k - 1 < k /\ k - 1 <= m
      BY <1>1, <3>1
    <3>3. /\ Reached(d, s \o t, k) = Run(Reached(d, s \o t, k - 1), (s \o t)[k])
          /\ Reached(d, s, k) = Run(Reached(d, s, k - 1), s[k])
      BY <3>1, <3>2, ReachedNext
    <3>4. (s \o t)[k] = s[k]
      BY <1>1, <3>2
    <3>5. QED
      BY <3>2, <3>3, <3>4
  <2>2. Wrong \in SUBSET Nat
    OBVIOUS
  <2>3. Wrong = {}
    <3> HIDE DEF Wrong
    <3>1. QED
      BY <2>1, <2>2, NumberDescent
  <2>4. QED
    BY <2>3
<1>3. e = Reached(d, s \o t, m)
  BY <1>1, <1>2, ExecuteIsReached
<1> HIDE DEF e
<1>4. \A k \in Nat : k <= n => Reached(d, s \o t, m + k) = Reached(e, t, k)
  <2> DEFINE Wrong == { k \in Nat : k <= n /\ Reached(d, s \o t, m + k) # Reached(e, t, k) }
  <2>1. ASSUME NEW k \in Wrong PROVE \E j \in Wrong : j < k
    <3>1. k # 0
      <4>1. m + 0 = m /\ Reached(e, t, 0) = e
        BY <1>1, ReachedNone
      <4>2. QED
        BY <1>3, <4>1
    <3>2. k \in Nat /\ k - 1 \in Nat /\ m + k \in Nat /\ m + k # 0 /\ m + k \in 1 .. m + n
          /\ (m + k) - 1 = m + (k - 1) /\ ~ (m + k <= m) /\ (m + k) - m = k /\ k - 1 < k /\ k - 1 <= n
      BY <1>1, <3>1
    <3>3. /\ Reached(d, s \o t, m + k) = Run(Reached(d, s \o t, m + (k - 1)), (s \o t)[m + k])
          /\ Reached(e, t, k) = Run(Reached(e, t, k - 1), t[k])
      BY <3>1, <3>2, ReachedNext
    <3>4. (s \o t)[m + k] = t[k]
      BY <1>1, <3>2
    <3>5. QED
      BY <3>2, <3>3, <3>4
  <2>2. Wrong \in SUBSET Nat
    OBVIOUS
  <2>3. Wrong = {}
    <3> HIDE DEF Wrong
    <3>1. QED
      BY <2>1, <2>2, NumberDescent
  <2>4. QED
    BY <2>3
<1>5. Reached(d, s \o t, m + n) = Reached(e, t, n)
  BY <1>1, <1>4
<1>6. Execute(d, s \o t) = Reached(d, s \o t, m + n) /\ Execute(e, t) = Reached(e, t, n)
  <2>1. m + n \in Nat
    BY <1>1
  <2>2. Execute(d, s \o t) = Reached(d, s \o t, m + n)
    BY <1>1, <2>1, ExecuteIsReached, Zenon
  <2>3. QED
    BY <1>1, <2>2, ExecuteIsReached, Zenon
<1>7. QED
  BY <1>5, <1>6 DEF e

-----------------------------------------------------------------------------
(* What single statements, and lists of creations and of drops, do to a    *)
(* database in which every statement succeeded so far.                     *)

Database(T, Y, R, W, ok) == [ tables |-> T, types |-> Y, runs |-> R, rows |-> W, ok |-> ok ]
Db(T, Y, R, W) == Database(T, Y, R, W, TRUE)

LEMMA Fields ==
    ASSUME NEW T, NEW Y, NEW R, NEW W
    PROVE  LET d == Db(T, Y, R, W)
           IN  d.tables = T /\ d.types = Y /\ d.runs = R /\ d.rows = W /\ d.ok
  BY DEF Db, Database

LEMMA TablesChange ==
    \A T, Y, R, W, X : [ Db(T, Y, R, W) EXCEPT !.tables = X ] = Db(X, Y, R, W)
<1> TAKE T, Y, R, W, X
<1> DEFINE K == TRUE
<1>1. Db(T, Y, R, W) = Database(T, Y, R, W, K) /\ Db(X, Y, R, W) = Database(X, Y, R, W, K)
  BY DEF Db
<1> HIDE DEF K
<1>2. [ Database(T, Y, R, W, K) EXCEPT !.tables = X ] = Database(X, Y, R, W, K)
  BY DEF Database
<1>3. QED
  BY <1>1, <1>2, Zenon

LEMMA TypesChange ==
    \A T, Y, R, W, X : [ Db(T, Y, R, W) EXCEPT !.types = X ] = Db(T, X, R, W)
<1> TAKE T, Y, R, W, X
<1> DEFINE K == TRUE
<1>1. Db(T, Y, R, W) = Database(T, Y, R, W, K) /\ Db(T, X, R, W) = Database(T, X, R, W, K)
  BY DEF Db
<1> HIDE DEF K
<1>2. [ Database(T, Y, R, W, K) EXCEPT !.types = X ] = Database(T, X, R, W, K)
  BY DEF Database
<1>3. QED
  BY <1>1, <1>2, Zenon

LEMMA RunsChange ==
    \A T, Y, R, W, X : [ Db(T, Y, R, W) EXCEPT !.runs = X ] = Db(T, Y, X, W)
<1> TAKE T, Y, R, W, X
<1> DEFINE K == TRUE
<1>1. Db(T, Y, R, W) = Database(T, Y, R, W, K) /\ Db(T, Y, X, W) = Database(T, Y, X, W, K)
  BY DEF Db
<1> HIDE DEF K
<1>2. [ Database(T, Y, R, W, K) EXCEPT !.runs = X ] = Database(T, Y, X, W, K)
  BY DEF Database
<1>3. QED
  BY <1>1, <1>2, Zenon

LEMMA RowsChange ==
    \A T, Y, R, W, X : [ Db(T, Y, R, W) EXCEPT !.rows = X ] = Db(T, Y, R, X)
<1> TAKE T, Y, R, W, X
<1> DEFINE K == TRUE
<1>1. Db(T, Y, R, W) = Database(T, Y, R, W, K) /\ Db(T, Y, R, X) = Database(T, Y, R, X, K)
  BY DEF Db
<1> HIDE DEF K
<1>2. [ Database(T, Y, R, W, K) EXCEPT !.rows = X ] = Database(T, Y, R, X, K)
  BY DEF Database
<1>3. QED
  BY <1>1, <1>2, Zenon

LEMMA CreateRun ==
    ASSUME NEW T, NEW Y, NEW R, NEW W, NEW t, t.name \notin Names(T), t.refs \subseteq Names(T)
    PROVE  Run(Db(T, Y, R, W), [op |-> "create", table |-> t]) = Db(T \union {t}, Y, R, W)
<1> DEFINE s == [op |-> "create", table |-> t]
           d == Db(T, Y, R, W)
<1>1. s.op = "create" /\ s.table = t /\ d.ok /\ d.tables = T
  BY Fields
<1> HIDE DEF s, d
<1>2. Possible(d, s)
  BY <1>1 DEF Possible
<1>3. Effect(d, s) = [ d EXCEPT !.tables = T \union {t} ]
  BY <1>1 DEF Effect
<1>4. [ d EXCEPT !.tables = T \union {t} ] = Db(T \union {t}, Y, R, W)
  BY TablesChange DEF d
<1>5. QED
  BY <1>1, <1>2, <1>3, <1>4 DEF Run, s, d

\* The runs, and the rows, left once the tables of some names are dropped.
RunsWithout(R, names) == IF "ingestion_runs" \in names THEN {} ELSE R
RowsWithout(W, names) == { row \in W : row[1] \notin names }

LEMMA DropRun ==
    ASSUME NEW T, NEW Y, NEW R, NEW W, NEW name, name \in Names(T),
           \A t \in T : name \in t.refs => t.name = name
    PROVE  Run(Db(T, Y, R, W), Drop(name))
             = Db({ t \in T : t.name # name }, Y, RunsWithout(R, {name}), RowsWithout(W, {name}))
<1> DEFINE s == Drop(name)
           d == Db(T, Y, R, W)
<1>1. s.op = "drop" /\ s.name = name /\ d.ok /\ d.tables = T /\ d.rows = W /\ d.runs = R
  BY Fields DEF Drop
<1> HIDE DEF s, d
<1>2. Possible(d, s)
  BY <1>1 DEF Possible
<1>3. Effect(d, s) = Dropped(d, name)
  BY <1>1 DEF Effect
<1>4. { row \in W : row[1] # name } = RowsWithout(W, {name})
  BY DEF RowsWithout
<1>5. (IF name = "ingestion_runs" THEN {} ELSE R) = RunsWithout(R, {name})
  BY DEF RunsWithout
<1>6. Dropped(d, name) = Db({ t \in T : t.name # name }, Y, RunsWithout(R, {name}), RowsWithout(W, {name}))
  <2> DEFINE X == { t \in T : t.name # name }
  <2>1. Dropped(d, name) = [ d EXCEPT !.tables = X, !.rows = RowsWithout(W, {name}), !.runs = RunsWithout(R, {name}) ]
    BY <1>1, <1>4, <1>5 DEF Dropped
  <2>2. @ = [[[ d EXCEPT !.tables = X ] EXCEPT !.rows = RowsWithout(W, {name}) ] EXCEPT !.runs = RunsWithout(R, {name}) ]
    OBVIOUS
  <2> HIDE DEF X
  <2>3. [ d EXCEPT !.tables = X ] = Db(X, Y, R, W)
    BY TablesChange DEF d
  <2>4. [ Db(X, Y, R, W) EXCEPT !.rows = RowsWithout(W, {name}) ] = Db(X, Y, R, RowsWithout(W, {name}))
    BY RowsChange
  <2>5. [ Db(X, Y, R, RowsWithout(W, {name})) EXCEPT !.runs = RunsWithout(R, {name}) ]
          = Db(X, Y, RunsWithout(R, {name}), RowsWithout(W, {name}))
    <3> DEFINE V == RowsWithout(W, {name})
               U == RunsWithout(R, {name})
    <3> HIDE DEF U, V
    <3>1. [ Db(X, Y, R, V) EXCEPT !.runs = U ] = Db(X, Y, U, V)
      BY RunsChange
    <3>2. QED
      BY <3>1 DEF U, V
  <2>6. QED
    BY <2>1, <2>2, <2>3, <2>4, <2>5 DEF X
<1>7. QED
  BY <1>1, <1>2, <1>3, <1>6 DEF Run, s, d

LEMMA CheckRun ==
    ASSUME NEW T, NEW Y, NEW R, NEW W, NEW types, R \subseteq types
    PROVE  Run(Db(T, Y, R, W), Check(types)) = Db(T, types, R, W)
<1> DEFINE s == Check(types)
           d == Db(T, Y, R, W)
<1>1. s.op = "check" /\ s.types = types /\ d.ok /\ d.runs = R
  BY Fields DEF Check
<1> HIDE DEF s, d
<1>2. Possible(d, s)
  BY <1>1 DEF Possible
<1>3. Effect(d, s) = [ d EXCEPT !.types = types ]
  BY <1>1 DEF Effect
<1>4. [ d EXCEPT !.types = types ] = Db(T, types, R, W)
  BY TypesChange DEF d
<1>5. QED
  BY <1>1, <1>2, <1>3, <1>4 DEF Run, s, d

\* The rows left once the quarantine of runs of some types is forgotten.
RowsForgetting(W, types) == { row \in W : ~ (row[1] = "data_quality_issues" /\ row[2] \in types) }

LEMMA ForgetIssuesRun ==
    ASSUME NEW T, NEW Y, NEW R, NEW W, NEW types, "data_quality_issues" \in Names(T)
    PROVE  Run(Db(T, Y, R, W), ForgetIssues(types)) = Db(T, Y, R, RowsForgetting(W, types))
<1> DEFINE s == ForgetIssues(types)
           d == Db(T, Y, R, W)
<1>1. s.op = "forget_issues" /\ s.types = types /\ d.ok /\ d.tables = T /\ d.rows = W
  BY Fields DEF ForgetIssues
<1> HIDE DEF s, d
<1>2. Possible(d, s)
  BY <1>1 DEF Possible
<1>3. Effect(d, s) = [ d EXCEPT !.rows = RowsForgetting(W, types) ]
  BY <1>1 DEF Effect, RowsForgetting
<1>4. [ d EXCEPT !.rows = RowsForgetting(W, types) ] = Db(T, Y, R, RowsForgetting(W, types))
  BY RowsChange DEF d
<1>5. QED
  BY <1>1, <1>2, <1>3, <1>4 DEF Run, s, d

LEMMA ForgetRunsRun ==
    ASSUME NEW T, NEW Y, NEW R, NEW W, NEW types, \A row \in W : row[2] \notin types
    PROVE  Run(Db(T, Y, R, W), ForgetRuns(types)) = Db(T, Y, R \ types, W)
<1> DEFINE s == ForgetRuns(types)
           d == Db(T, Y, R, W)
<1>1. s.op = "forget_runs" /\ s.types = types /\ d.ok /\ d.rows = W /\ d.runs = R
  BY Fields DEF ForgetRuns
<1> HIDE DEF s, d
<1>2. Possible(d, s)
  BY <1>1 DEF Possible
<1>3. Effect(d, s) = [ d EXCEPT !.runs = R \ types ]
  BY <1>1 DEF Effect
<1>4. [ d EXCEPT !.runs = R \ types ] = Db(T, Y, R \ types, W)
  <2> DEFINE X == R \ types
  <2> HIDE DEF X
  <2>1. [ d EXCEPT !.runs = X ] = Db(T, Y, X, W)
    BY RunsChange DEF d
  <2>2. QED
    BY <2>1 DEF X
<1>5. QED
  BY <1>1, <1>2, <1>3, <1>4 DEF Run, s, d

\* A table whose references change.
\* d has the tables T and one more.
OneMore(d, T, name, refs, key) == name \notin Names(T) /\ d.tables = T \union {Table(name, refs, key)}

LEMMA RefsChange ==
    ASSUME NEW T, NEW d, NEW name, NEW refs, NEW key, OneMore(d, T, name, refs, key)
    PROVE  /\ RefsOf(d, name) = refs
           /\ \A more : WithRefs(d, name, more) = T \union {Table(name, more, key)}
<1> DEFINE u == Table(name, refs, key)
<1>1. u.name = name /\ u.refs = refs /\ \A more : [ u EXCEPT !.refs = more ] = Table(name, more, key)
  BY DEF Table
<1> HIDE DEF u
<1>2. \A t \in T : t.name # name
  BY DEF OneMore, Names
<1>3. d.tables = T \union {u}
  BY DEF OneMore, u
<1>4. { v \in d.tables : v.name = name } = {u}
  BY <1>1, <1>2, <1>3
<1>5. RefsOf(d, name) = refs
  <2>1. { v.refs : v \in {u} } = {refs}
    BY <1>1
  <2>2. UNION {refs} = refs
    OBVIOUS
  <2>3. RefsOf(d, name) = UNION { v.refs : v \in {u} }
    BY <1>4, Zenon DEF RefsOf
  <2>4. QED
    BY <2>1, <2>2, <2>3
<1>6. ASSUME NEW more PROVE WithRefs(d, name, more) = T \union {Table(name, more, key)}
  BY <1>1, <1>2, <1>3 DEF WithRefs
<1>7. QED
  BY <1>5, <1>6

LEMMA ReferRun ==
    ASSUME NEW T, NEW Y, NEW R, NEW W, NEW name, NEW refs, NEW key, NEW target,
           name \notin Names(T), target \in Names(T)
    PROVE  Run(Db(T \union {Table(name, refs, key)}, Y, R, W), Refer(name, target))
             = Db(T \union {Table(name, refs \union {target}, key)}, Y, R, W)
<1> DEFINE s == Refer(name, target)
           S == T \union {Table(name, refs, key)}
           d == Db(S, Y, R, W)
           more == refs \union {target}
           Z == T \union {Table(name, more, key)}
<1>1. s.op = "refer" /\ s.name = name /\ s.target = target /\ d.ok /\ d.tables = S
  BY Fields DEF Refer
<1>2. RefsOf(d, name) = refs /\ WithRefs(d, name, more) = Z
  <2>1. OneMore(d, T, name, refs, key)
    BY <1>1 DEF OneMore
  <2> HIDE DEF d, s
  <2>2. RefsOf(d, name) = refs /\ \A x : WithRefs(d, name, x) = T \union {Table(name, x, key)}
    BY <2>1, RefsChange
  <2>3. QED
    BY <2>2
<1>3. {name, target} \subseteq Names(S)
  <2>1. Table(name, refs, key).name = name /\ Table(name, refs, key) \in S /\ T \subseteq S
    BY DEF Table
  <2>2. QED
    BY <2>1 DEF Names
<1> HIDE DEF s, d, S, Z
<1>4. Possible(d, s)
  BY <1>1, <1>3 DEF Possible
<1>5. Effect(d, s) = [ d EXCEPT !.tables = Z ]
  BY <1>1, <1>2 DEF Effect
<1>6. [ d EXCEPT !.tables = Z ] = Db(Z, Y, R, W)
  BY TablesChange DEF d
<1>7. QED
  BY <1>1, <1>4, <1>5, <1>6 DEF Run, s, d, S, Z

LEMMA UnreferRun ==
    ASSUME NEW T, NEW Y, NEW R, NEW W, NEW name, NEW refs, NEW key, NEW target,
           name \notin Names(T), target \in refs
    PROVE  Run(Db(T \union {Table(name, refs, key)}, Y, R, W), Unrefer(name, target))
             = Db(T \union {Table(name, refs \ {target}, key)}, Y, R, W)
<1> DEFINE s == Unrefer(name, target)
           S == T \union {Table(name, refs, key)}
           d == Db(S, Y, R, W)
           less == refs \ {target}
           Z == T \union {Table(name, less, key)}
<1>1. s.op = "unrefer" /\ s.name = name /\ s.target = target /\ d.ok /\ d.tables = S
  BY Fields DEF Unrefer
<1>2. RefsOf(d, name) = refs /\ WithRefs(d, name, less) = Z
  <2>1. OneMore(d, T, name, refs, key)
    BY <1>1 DEF OneMore
  <2> HIDE DEF d, s
  <2>2. RefsOf(d, name) = refs /\ \A x : WithRefs(d, name, x) = T \union {Table(name, x, key)}
    BY <2>1, RefsChange
  <2>3. QED
    BY <2>2
<1> HIDE DEF s, d, S, Z
<1>4. Possible(d, s)
  BY <1>1, <1>2 DEF Possible
<1>5. Effect(d, s) = [ d EXCEPT !.tables = Z ]
  BY <1>1, <1>2 DEF Effect
<1>6. [ d EXCEPT !.tables = Z ] = Db(Z, Y, R, W)
  BY TablesChange DEF d
<1>7. QED
  BY <1>1, <1>4, <1>5, <1>6 DEF Run, s, d, S, Z

\* The tables that the first n statements of s create.
Made(s, n) == { s[j].table : j \in 1 .. n }

\* Every statement of s creates a table of a new name that refers to tables of the
\* names in N and to tables created before it.
Stack(N, s, n) ==
    /\ DOMAIN s = 1 .. n
    /\ \A k \in 1 .. n :
        /\ s[k] = [op |-> "create", table |-> s[k].table]
        /\ s[k].table.name \notin N
        /\ \A j \in 1 .. n : j < k => s[j].table.name # s[k].table.name
        /\ \A r \in s[k].table.refs : r \in N \/ \E j \in 1 .. n : j < k /\ s[j].table.name = r

LEMMA CreatesRun ==
    ASSUME NEW T, NEW Y, NEW R, NEW W, NEW s, NEW n \in Nat, Stack(Names(T), s, n)
    PROVE  Execute(Db(T, Y, R, W), s) = Db(T \union Made(s, n), Y, R, W)
<1> DEFINE d == Db(T, Y, R, W)
           Upto(k) == T \union { s[j].table : j \in 1 .. k }
           Wrong == { k \in Nat : k <= n /\ Reached(d, s, k) # Db(Upto(k), Y, R, W) }
<1>1. ASSUME NEW k \in Wrong PROVE \E j \in Wrong : j < k
  <2>1. Reached(d, s, 0) = d /\ Upto(0) = T
    BY ReachedNone
  <2>2. k # 0
    <3>1. ASSUME k = 0 PROVE FALSE
      BY <2>1, <3>1
    <3>2. QED
      BY <3>1
  <2>3. k \in Nat /\ k - 1 \in Nat /\ k \in 1 .. n /\ k - 1 < k /\ k - 1 <= n
    BY <2>2
  <2>4. ASSUME Reached(d, s, k - 1) = Db(Upto(k - 1), Y, R, W) PROVE FALSE
    <3> DEFINE t == s[k].table
    <3>1. Reached(d, s, k) = Run(Db(Upto(k - 1), Y, R, W), s[k])
      BY <2>2, <2>3, <2>4, ReachedNext
    <3>2. t.name \notin Names(Upto(k - 1)) /\ t.refs \subseteq Names(Upto(k - 1))
      BY <2>3 DEF Stack, Names
    <3>3. s[k] = [op |-> "create", table |-> t]
      BY <2>3 DEF Stack
    <3>4. Upto(k) = Upto(k - 1) \union {t}
      BY <2>3
    <3>5. k \in Wrong
      OBVIOUS
    <3>6. Reached(d, s, k) # Db(Upto(k), Y, R, W)
      OBVIOUS
    <3> HIDE DEF Upto, d, t, Wrong
    <3>7. Run(Db(Upto(k - 1), Y, R, W), s[k]) = Db(Upto(k - 1) \union {t}, Y, R, W)
      BY <3>2, <3>3, CreateRun
    <3>8. QED
      BY <3>1, <3>4, <3>6, <3>7
  <2>5. k - 1 \in Wrong
    BY <2>3, <2>4
  <2>6. QED
    BY <2>3, <2>5
<1>2. Wrong \in SUBSET Nat
  OBVIOUS
<1>3. Wrong = {}
  <2> HIDE DEF Wrong
  <2>1. QED
    BY <1>1, <1>2, NumberDescent
<1>4. Reached(d, s, n) = Db(Upto(n), Y, R, W)
  BY <1>3
<1>5. QED
  BY <1>4, ExecuteIsReached DEF Made, Stack

\* Every name is of a table in C that nothing refers to but itself and the tables
\* dropped before it, and the names are those of C.
Unstack(N, C, names, n) ==
    /\ DOMAIN names = 1 .. n
    /\ \A t \in C : \E j \in 1 .. n : t.name = names[j]
    /\ \A k \in 1 .. n :
        /\ names[k] \notin N /\ names[k] \in Names(C)
        /\ \A j \in 1 .. n : j < k => names[j] # names[k]
        /\ \A t \in C : names[k] \in t.refs => t.name = names[k] \/ \E j \in 1 .. n : j < k /\ t.name = names[j]

\* Every table refers to tables there are.
RefsClosed(T) == \A t \in T : t.refs \subseteq Names(T)

NamesUpto(names, k) == { names[j] : j \in 1 .. k }

LEMMA DropsRun ==
    ASSUME NEW T, NEW Y, NEW R, NEW W, NEW C, NEW names, NEW n \in Nat,
           RefsClosed(T), Unstack(Names(T), C, names, n)
    PROVE  Execute(Db(T \union C, Y, R, W), Drops(names))
             = Db(T, Y, RunsWithout(R, NamesUpto(names, n)), RowsWithout(W, NamesUpto(names, n)))
<1> DEFINE S == T \union C
           s == Drops(names)
           d == Db(S, Y, R, W)
           Left(k) == { t \in S : t.name \notin NamesUpto(names, k) }
           Runs(k) == RunsWithout(R, NamesUpto(names, k))
           RowsLeft(k) == RowsWithout(W, NamesUpto(names, k))
           Wrong == { k \in Nat : k <= n /\ Reached(d, s, k) # Db(Left(k), Y, Runs(k), RowsLeft(k)) }
<1>1. DOMAIN s = 1 .. n /\ \A k \in 1 .. n : s[k] = Drop(names[k])
  BY DEF Drops, Unstack
<1>2. ASSUME NEW k \in Wrong PROVE \E j \in Wrong : j < k
  <2>1. Reached(d, s, 0) = d
    BY ReachedNone
  <2>2. NamesUpto(names, 0) = {}
    BY DEF NamesUpto
  <2>3. Left(0) = S /\ Runs(0) = R /\ RowsLeft(0) = W
    BY <2>2 DEF RunsWithout, RowsWithout
  <2>4. k # 0
    <3>1. ASSUME k = 0 PROVE FALSE
      BY <2>1, <2>3, <3>1
    <3>2. QED
      BY <3>1
  <2>5. k \in Nat /\ k - 1 \in Nat /\ k \in 1 .. n /\ k - 1 < k /\ k - 1 <= n
    BY <2>4
  <2>6. ASSUME Reached(d, s, k - 1) = Db(Left(k - 1), Y, Runs(k - 1), RowsLeft(k - 1)) PROVE FALSE
    <3> DEFINE x == names[k]
    <3>1. NamesUpto(names, k) = NamesUpto(names, k - 1) \union {x}
      BY <2>5 DEF NamesUpto
    <3>2. x \in Names(Left(k - 1))
      <4>1. x \in Names(C) /\ x \notin NamesUpto(names, k - 1)
        BY <2>5 DEF Unstack, NamesUpto
      <4>2. PICK t \in C : t.name = x
        BY <4>1 DEF Names
      <4>3. t \in Left(k - 1)
        BY <4>1, <4>2
      <4>4. QED
        BY <4>2, <4>3 DEF Names
    <3>3. ASSUME NEW t \in Left(k - 1), x \in t.refs PROVE t.name = x
      <4>1. x \notin Names(T)
        BY <2>5 DEF Unstack
      <4>2. t \in C
        BY <3>3, <4>1 DEF RefsClosed
      <4>3. t.name = x \/ \E j \in 1 .. n : j < k /\ t.name = names[j]
        BY <2>5, <3>3, <4>2 DEF Unstack
      <4>4. ASSUME NEW j \in 1 .. n, j < k, t.name = names[j] PROVE FALSE
        BY <2>5, <4>4 DEF NamesUpto
      <4>5. QED
        BY <4>3, <4>4
    <3>4. /\ { t \in Left(k - 1) : t.name # x } = Left(k)
          /\ RunsWithout(Runs(k - 1), {x}) = Runs(k)
          /\ RowsWithout(RowsLeft(k - 1), {x}) = RowsLeft(k)
      BY <3>1 DEF RunsWithout, RowsWithout
    <3>5. Reached(d, s, k) = Run(Db(Left(k - 1), Y, Runs(k - 1), RowsLeft(k - 1)), Drop(x))
      BY <1>1, <2>4, <2>5, <2>6, ReachedNext
    <3>6. Reached(d, s, k) # Db(Left(k), Y, Runs(k), RowsLeft(k))
      OBVIOUS
    <3> DEFINE L == Left(k - 1)
               U == Runs(k - 1)
               V == RowsLeft(k - 1)
    <3>7. x \in Names(L) /\ \A t \in L : x \in t.refs => t.name = x
      BY <3>2, <3>3
    <3> HIDE DEF L, U, V, x, Wrong, Left, Runs, RowsLeft, d, s, S
    <3>8. Run(Db(L, Y, U, V), Drop(x)) = Db({ t \in L : t.name # x }, Y, RunsWithout(U, {x}), RowsWithout(V, {x}))
      BY <3>7, DropRun
    <3>9. QED
      BY <3>4, <3>5, <3>6, <3>8 DEF L, U, V
  <2>7. k - 1 \in Wrong
    BY <2>5, <2>6
  <2>8. QED
    BY <2>5, <2>7
<1>3. Wrong \in SUBSET Nat
  OBVIOUS
<1>4. Wrong = {}
  <2> HIDE DEF Wrong
  <2>1. QED
    BY <1>2, <1>3, NumberDescent
<1>5. Reached(d, s, n) = Db(Left(n), Y, Runs(n), RowsLeft(n))
  <2> HIDE DEF Left, Runs, RowsLeft, d, s, S
  <2>1. ASSUME Reached(d, s, n) # Db(Left(n), Y, Runs(n), RowsLeft(n)) PROVE n \in Wrong
    BY <2>1
  <2>2. QED
    BY <1>4, <2>1
<1>6. Left(n) = T
  <2>1. ASSUME NEW t \in C PROVE t.name \in NamesUpto(names, n)
    BY DEF Unstack, NamesUpto
  <2>2. ASSUME NEW t \in T PROVE t.name \notin NamesUpto(names, n)
    BY DEF Unstack, NamesUpto, Names
  <2>3. QED
    BY <2>1, <2>2
<1>7. Execute(d, s) = Reached(d, s, n)
  BY <1>1, ExecuteIsReached
<1>8. QED
  BY <1>5, <1>6, <1>7

-----------------------------------------------------------------------------
(* Lists of statements. *)

IsList(s) == \E S : s \in Seq(S)

LEMMA ExecuteCat ==
    ASSUME NEW d, NEW s, NEW t, IsList(s), IsList(t)
    PROVE  IsList(s \o t) /\ Execute(d, s \o t) = Execute(Execute(d, s), t)
<1>1. PICK A : s \in Seq(A)
  BY DEF IsList
<1>2. PICK B : t \in Seq(B)
  BY DEF IsList
<1> DEFINE S == A \union B
<1>3. s \in Seq(S) /\ t \in Seq(S)
  BY <1>1, <1>2, SeqMonotonic
<1>4. s \o t \in Seq(S)
  BY <1>3, ConcatProperties
<1>5. QED
  BY <1>3, <1>4, ExecuteBoth DEF IsList

LEMMA ExecuteOne ==
    ASSUME NEW d, NEW a
    PROVE  IsList(<< a >>) /\ Execute(d, << a >>) = Run(d, a)
<1>1. << a >> \in Seq({a})
  OBVIOUS
<1>2. Execute(d, << a >>) = Reached(d, << a >>, 1)
  <2>1. DOMAIN << a >> = 1 .. 1
    OBVIOUS
  <2>2. QED
    BY <2>1, ExecuteIsReached
<1>3. Reached(d, << a >>, 1) = Run(Reached(d, << a >>, 0), << a >>[1])
  <2>1. 1 - 1 = 0 /\ 1 \in Nat /\ 1 # 0
    OBVIOUS
  <2>2. QED
    BY <2>1, ReachedNext
<1>4. QED
  BY <1>1, <1>2, <1>3, ReachedNone DEF IsList

LEMMA ExecuteTwo ==
    ASSUME NEW d, NEW a, NEW b
    PROVE  IsList(<< a, b >>) /\ Execute(d, << a, b >>) = Run(Run(d, a), b)
<1> DEFINE s == << a, b >>
<1>1. s \in Seq({a, b}) /\ DOMAIN s = 1 .. 2 /\ s[1] = a /\ s[2] = b
  OBVIOUS
<1> HIDE DEF s
<1>2. Execute(d, s) = Reached(d, s, 2)
  BY <1>1, ExecuteIsReached
<1>3. Reached(d, s, 2) = Run(Reached(d, s, 1), b)
  <2>1. 2 - 1 = 1 /\ 2 \in Nat /\ 2 # 0
    OBVIOUS
  <2>2. QED
    BY <1>1, <2>1, ReachedNext
<1>4. Reached(d, s, 1) = Run(Reached(d, s, 0), a)
  <2>1. 1 - 1 = 0 /\ 1 \in Nat /\ 1 # 0
    OBVIOUS
  <2>2. QED
    BY <1>1, <2>1, ReachedNext
<1>5. QED
  BY <1>1, <1>2, <1>3, <1>4, ReachedNone DEF IsList, s

LEMMA ExecuteThree ==
    ASSUME NEW d, NEW a, NEW b, NEW c
    PROVE  IsList(<< a, b, c >>) /\ Execute(d, << a, b, c >>) = Run(Run(Run(d, a), b), c)
<1>1. << a, b, c >> = << a, b >> \o << c >>
  OBVIOUS
<1>2. Execute(d, << a, b >>) = Run(Run(d, a), b) /\ IsList(<< a, b >>)
  BY ExecuteTwo
<1>3. IsList(<< c >>) /\ Execute(Run(Run(d, a), b), << c >>) = Run(Run(Run(d, a), b), c)
  BY ExecuteOne
<1> DEFINE s == << a, b >>
           t == << c >>
<1>4. IsList(s) /\ IsList(t)
  BY <1>2, <1>3
<1> HIDE DEF s, t
<1>5. IsList(s \o t) /\ Execute(d, s \o t) = Execute(Execute(d, s), t)
  BY <1>4, ExecuteCat
<1>6. QED
  BY <1>1, <1>2, <1>3, <1>5 DEF s, t

LEMMA DropsAreList ==
    ASSUME NEW names, NEW n \in Nat, DOMAIN names = 1 .. n
    PROVE  IsList(Drops(names))
<1> DEFINE S == { Drop(names[k]) : k \in 1 .. n }
<1>1. Drops(names) \in [1 .. n -> S]
  BY DEF Drops
<1>2. Drops(names) \in Seq(S)
  BY <1>1, SeqDef
<1>3. QED
  BY <1>2 DEF IsList

-----------------------------------------------------------------------------
(* The tables that the revisions create, and what they refer to. *)

ReferenceNames == {"sectors", "trading_calendar", "industries", "instruments", "symbol_history"}

LEMMA ReferenceFacts ==
    LET s == ReferenceTables
    IN  /\ IsList(s) /\ DOMAIN s = 1 .. 5
        /\ \A k \in 1 .. 5 : s[k] = [op |-> "create", table |-> s[k].table]
        /\ s[1].table.name = "sectors" /\ s[1].table.refs = {}
        /\ s[2].table.name = "trading_calendar" /\ s[2].table.refs = {}
        /\ s[3].table.name = "industries" /\ s[3].table.refs = {"sectors"}
        /\ s[4].table.name = "instruments" /\ s[4].table.refs = {"industries", "sectors"}
        /\ s[5].table.name = "symbol_history" /\ s[5].table.refs = {"instruments"}
        /\ Names(Made(s, 5)) = ReferenceNames
        /\ \A t \in Made(s, 5) : t.refs \subseteq ReferenceNames \union {}
<1> DEFINE s == ReferenceTables
<1>1. 1 .. 5 = {1, 2, 3, 4, 5}
  OBVIOUS
<1>2. DOMAIN s = 1 .. 5
  BY DEF ReferenceTables
<1>3. IsList(s)
  <2>1. s \in Seq({ s[k] : k \in 1 .. 5 })
    BY <1>1 DEF ReferenceTables
  <2>2. QED
    BY <2>1 DEF IsList
<1>4. \A k \in {1, 2, 3, 4, 5} : s[k] = [op |-> "create", table |-> s[k].table]
  BY DEF ReferenceTables, Create
<1>5. /\ s[1].table.name = "sectors" /\ s[1].table.refs = {}
      /\ s[2].table.name = "trading_calendar" /\ s[2].table.refs = {}
      /\ s[3].table.name = "industries" /\ s[3].table.refs = {"sectors"}
      /\ s[4].table.name = "instruments" /\ s[4].table.refs = {"industries", "sectors"}
      /\ s[5].table.name = "symbol_history" /\ s[5].table.refs = {"instruments"}
  BY DEF ReferenceTables, Create, Table
<1> HIDE DEF s
<1>6. Names(Made(s, 5)) = ReferenceNames
  BY <1>1, <1>5 DEF Names, Made, ReferenceNames
<1>7. \A t \in Made(s, 5) : t.refs \subseteq ReferenceNames \union {}
  BY <1>1, <1>5 DEF Made, ReferenceNames
<1>8. QED
  BY <1>1, <1>2, <1>3, <1>4, <1>5, <1>6, <1>7 DEF s

LEMMA ReferenceCreated ==
    ASSUME NEW T, NEW Y, NEW R, NEW W, Names(T) \cap ReferenceNames = {}, {} \subseteq Names(T)
    PROVE  Execute(Db(T, Y, R, W), ReferenceTables) = Db(T \union Made(ReferenceTables, 5), Y, R, W)
<1> DEFINE s == ReferenceTables
           N == Names(T)
<1>1. 1 .. 5 = {1, 2, 3, 4, 5}
  OBVIOUS
<1>2. /\ s[1].table.name = "sectors" /\ s[1].table.refs = {}
      /\ s[2].table.name = "trading_calendar" /\ s[2].table.refs = {}
      /\ s[3].table.name = "industries" /\ s[3].table.refs = {"sectors"}
      /\ s[4].table.name = "instruments" /\ s[4].table.refs = {"industries", "sectors"}
      /\ s[5].table.name = "symbol_history" /\ s[5].table.refs = {"instruments"}
  BY ReferenceFacts
<1>3. DOMAIN s = 1 .. 5 /\ \A k \in 1 .. 5 : s[k] = [op |-> "create", table |-> s[k].table]
  BY ReferenceFacts
<1> HIDE DEF s, N
<1>4. Stack(N, s, 5)
  BY <1>1, <1>2, <1>3 DEF Stack, ReferenceNames, N
<1>5. QED
  BY <1>4, CreatesRun DEF s, N

IngestionNames == {"data_quality_issues", "data_revisions", "corporate_actions", "daily_prices"}

LEMMA IngestionFacts ==
    LET s == IngestionTables
    IN  /\ IsList(s) /\ DOMAIN s = 1 .. 4
        /\ \A k \in 1 .. 4 : s[k] = [op |-> "create", table |-> s[k].table]
        /\ s[1].table.name = "data_quality_issues" /\ s[1].table.refs = {"ingestion_runs"}
        /\ s[2].table.name = "data_revisions" /\ s[2].table.refs = {"ingestion_runs"}
        /\ s[3].table.name = "corporate_actions" /\ s[3].table.refs = {"ingestion_runs", "instruments"}
        /\ s[4].table.name = "daily_prices" /\ s[4].table.refs = {"ingestion_runs", "instruments"}
        /\ Names(Made(s, 4)) = IngestionNames
        /\ \A t \in Made(s, 4) : t.refs \subseteq IngestionNames \union {"ingestion_runs", "instruments"}
<1> DEFINE s == IngestionTables
<1>1. 1 .. 4 = {1, 2, 3, 4}
  OBVIOUS
<1>2. DOMAIN s = 1 .. 4
  BY DEF IngestionTables
<1>3. IsList(s)
  <2>1. s \in Seq({ s[k] : k \in 1 .. 4 })
    BY <1>1 DEF IngestionTables
  <2>2. QED
    BY <2>1 DEF IsList
<1>4. \A k \in {1, 2, 3, 4} : s[k] = [op |-> "create", table |-> s[k].table]
  BY DEF IngestionTables, Create
<1>5. /\ s[1].table.name = "data_quality_issues" /\ s[1].table.refs = {"ingestion_runs"}
      /\ s[2].table.name = "data_revisions" /\ s[2].table.refs = {"ingestion_runs"}
      /\ s[3].table.name = "corporate_actions" /\ s[3].table.refs = {"ingestion_runs", "instruments"}
      /\ s[4].table.name = "daily_prices" /\ s[4].table.refs = {"ingestion_runs", "instruments"}
  BY DEF IngestionTables, Create, Table
<1> HIDE DEF s
<1>6. Names(Made(s, 4)) = IngestionNames
  BY <1>1, <1>5 DEF Names, Made, IngestionNames
<1>7. \A t \in Made(s, 4) : t.refs \subseteq IngestionNames \union {"ingestion_runs", "instruments"}
  BY <1>1, <1>5 DEF Made, IngestionNames
<1>8. QED
  BY <1>1, <1>2, <1>3, <1>4, <1>5, <1>6, <1>7 DEF s

LEMMA IngestionCreated ==
    ASSUME NEW T, NEW Y, NEW R, NEW W, Names(T) \cap IngestionNames = {}, {"ingestion_runs", "instruments"} \subseteq Names(T)
    PROVE  Execute(Db(T, Y, R, W), IngestionTables) = Db(T \union Made(IngestionTables, 4), Y, R, W)
<1> DEFINE s == IngestionTables
           N == Names(T)
<1>1. 1 .. 4 = {1, 2, 3, 4}
  OBVIOUS
<1>2. /\ s[1].table.name = "data_quality_issues" /\ s[1].table.refs = {"ingestion_runs"}
      /\ s[2].table.name = "data_revisions" /\ s[2].table.refs = {"ingestion_runs"}
      /\ s[3].table.name = "corporate_actions" /\ s[3].table.refs = {"ingestion_runs", "instruments"}
      /\ s[4].table.name = "daily_prices" /\ s[4].table.refs = {"ingestion_runs", "instruments"}
  BY IngestionFacts
<1>3. DOMAIN s = 1 .. 4 /\ \A k \in 1 .. 4 : s[k] = [op |-> "create", table |-> s[k].table]
  BY IngestionFacts
<1> HIDE DEF s, N
<1>4. Stack(N, s, 4)
  BY <1>1, <1>2, <1>3 DEF Stack, IngestionNames, N
<1>5. QED
  BY <1>4, CreatesRun DEF s, N

MacroNames == {"macro_series", "macro_observations"}

LEMMA MacroFacts ==
    LET s == MacroLayer.up
    IN  /\ IsList(s) /\ DOMAIN s = 1 .. 2
        /\ \A k \in 1 .. 2 : s[k] = [op |-> "create", table |-> s[k].table]
        /\ s[1].table.name = "macro_series" /\ s[1].table.refs = {}
        /\ s[2].table.name = "macro_observations" /\ s[2].table.refs = {"ingestion_runs", "macro_series"}
        /\ Names(Made(s, 2)) = MacroNames
        /\ \A t \in Made(s, 2) : t.refs \subseteq MacroNames \union {"ingestion_runs"}
<1> DEFINE s == MacroLayer.up
<1>1. 1 .. 2 = {1, 2}
  OBVIOUS
<1>2. DOMAIN s = 1 .. 2
  BY DEF MacroLayer
<1>3. IsList(s)
  <2>1. s \in Seq({ s[k] : k \in 1 .. 2 })
    BY <1>1 DEF MacroLayer
  <2>2. QED
    BY <2>1 DEF IsList
<1>4. \A k \in {1, 2} : s[k] = [op |-> "create", table |-> s[k].table]
  BY DEF MacroLayer, Create
<1>5. /\ s[1].table.name = "macro_series" /\ s[1].table.refs = {}
      /\ s[2].table.name = "macro_observations" /\ s[2].table.refs = {"ingestion_runs", "macro_series"}
  BY DEF MacroLayer, Create, Table
<1> HIDE DEF s
<1>6. Names(Made(s, 2)) = MacroNames
  BY <1>1, <1>5 DEF Names, Made, MacroNames
<1>7. \A t \in Made(s, 2) : t.refs \subseteq MacroNames \union {"ingestion_runs"}
  BY <1>1, <1>5 DEF Made, MacroNames
<1>8. QED
  BY <1>1, <1>2, <1>3, <1>4, <1>5, <1>6, <1>7 DEF s

LEMMA MacroCreated ==
    ASSUME NEW T, NEW Y, NEW R, NEW W, Names(T) \cap MacroNames = {}, {"ingestion_runs"} \subseteq Names(T)
    PROVE  Execute(Db(T, Y, R, W), MacroLayer.up) = Db(T \union Made(MacroLayer.up, 2), Y, R, W)
<1> DEFINE s == MacroLayer.up
           N == Names(T)
<1>1. 1 .. 2 = {1, 2}
  OBVIOUS
<1>2. /\ s[1].table.name = "macro_series" /\ s[1].table.refs = {}
      /\ s[2].table.name = "macro_observations" /\ s[2].table.refs = {"ingestion_runs", "macro_series"}
  BY MacroFacts
<1>3. DOMAIN s = 1 .. 2 /\ \A k \in 1 .. 2 : s[k] = [op |-> "create", table |-> s[k].table]
  BY MacroFacts
<1> HIDE DEF s, N
<1>4. Stack(N, s, 2)
  BY <1>1, <1>2, <1>3 DEF Stack, MacroNames, N
<1>5. QED
  BY <1>4, CreatesRun DEF s, N

FundamentalsNames == {"company_fundamentals", "earnings_observations", "v_earnings_current"}

LEMMA FundamentalsFacts ==
    LET s == FundamentalsLayer.up
    IN  /\ IsList(s) /\ DOMAIN s = 1 .. 3
        /\ \A k \in 1 .. 3 : s[k] = [op |-> "create", table |-> s[k].table]
        /\ s[1].table.name = "company_fundamentals" /\ s[1].table.refs = {"ingestion_runs", "instruments"}
        /\ s[2].table.name = "earnings_observations" /\ s[2].table.refs = {"ingestion_runs", "instruments"}
        /\ s[3].table.name = "v_earnings_current" /\ s[3].table.refs = {"earnings_observations"}
        /\ Names(Made(s, 3)) = FundamentalsNames
        /\ \A t \in Made(s, 3) : t.refs \subseteq FundamentalsNames \union {"ingestion_runs", "instruments"}
<1> DEFINE s == FundamentalsLayer.up
<1>1. 1 .. 3 = {1, 2, 3}
  OBVIOUS
<1>2. DOMAIN s = 1 .. 3
  BY DEF FundamentalsLayer
<1>3. IsList(s)
  <2>1. s \in Seq({ s[k] : k \in 1 .. 3 })
    BY <1>1 DEF FundamentalsLayer
  <2>2. QED
    BY <2>1 DEF IsList
<1>4. \A k \in {1, 2, 3} : s[k] = [op |-> "create", table |-> s[k].table]
  BY DEF FundamentalsLayer, Create
<1>5. /\ s[1].table.name = "company_fundamentals" /\ s[1].table.refs = {"ingestion_runs", "instruments"}
      /\ s[2].table.name = "earnings_observations" /\ s[2].table.refs = {"ingestion_runs", "instruments"}
      /\ s[3].table.name = "v_earnings_current" /\ s[3].table.refs = {"earnings_observations"}
  BY DEF FundamentalsLayer, Create, Table
<1> HIDE DEF s
<1>6. Names(Made(s, 3)) = FundamentalsNames
  BY <1>1, <1>5 DEF Names, Made, FundamentalsNames
<1>7. \A t \in Made(s, 3) : t.refs \subseteq FundamentalsNames \union {"ingestion_runs", "instruments"}
  BY <1>1, <1>5 DEF Made, FundamentalsNames
<1>8. QED
  BY <1>1, <1>2, <1>3, <1>4, <1>5, <1>6, <1>7 DEF s

LEMMA FundamentalsCreated ==
    ASSUME NEW T, NEW Y, NEW R, NEW W, Names(T) \cap FundamentalsNames = {}, {"ingestion_runs", "instruments"} \subseteq Names(T)
    PROVE  Execute(Db(T, Y, R, W), FundamentalsLayer.up) = Db(T \union Made(FundamentalsLayer.up, 3), Y, R, W)
<1> DEFINE s == FundamentalsLayer.up
           N == Names(T)
<1>1. 1 .. 3 = {1, 2, 3}
  OBVIOUS
<1>2. /\ s[1].table.name = "company_fundamentals" /\ s[1].table.refs = {"ingestion_runs", "instruments"}
      /\ s[2].table.name = "earnings_observations" /\ s[2].table.refs = {"ingestion_runs", "instruments"}
      /\ s[3].table.name = "v_earnings_current" /\ s[3].table.refs = {"earnings_observations"}
  BY FundamentalsFacts
<1>3. DOMAIN s = 1 .. 3 /\ \A k \in 1 .. 3 : s[k] = [op |-> "create", table |-> s[k].table]
  BY FundamentalsFacts
<1> HIDE DEF s, N
<1>4. Stack(N, s, 3)
  BY <1>1, <1>2, <1>3 DEF Stack, FundamentalsNames, N
<1>5. QED
  BY <1>4, CreatesRun DEF s, N

FeatureNames == {"feature_definitions", "feature_store_daily", "feature_store_market_daily"}

LEMMA FeatureFacts ==
    LET s == FeatureLayer.up
    IN  /\ IsList(s) /\ DOMAIN s = 1 .. 3
        /\ \A k \in 1 .. 3 : s[k] = [op |-> "create", table |-> s[k].table]
        /\ s[1].table.name = "feature_definitions" /\ s[1].table.refs = {}
        /\ s[2].table.name = "feature_store_daily" /\ s[2].table.refs = {"instruments", "feature_definitions"}
        /\ s[3].table.name = "feature_store_market_daily" /\ s[3].table.refs = {"feature_definitions"}
        /\ Names(Made(s, 3)) = FeatureNames
        /\ \A t \in Made(s, 3) : t.refs \subseteq FeatureNames \union {"instruments"}
<1> DEFINE s == FeatureLayer.up
<1>1. 1 .. 3 = {1, 2, 3}
  OBVIOUS
<1>2. DOMAIN s = 1 .. 3
  BY DEF FeatureLayer
<1>3. IsList(s)
  <2>1. s \in Seq({ s[k] : k \in 1 .. 3 })
    BY <1>1 DEF FeatureLayer
  <2>2. QED
    BY <2>1 DEF IsList
<1>4. \A k \in {1, 2, 3} : s[k] = [op |-> "create", table |-> s[k].table]
  BY DEF FeatureLayer, Create
<1>5. /\ s[1].table.name = "feature_definitions" /\ s[1].table.refs = {}
      /\ s[2].table.name = "feature_store_daily" /\ s[2].table.refs = {"instruments", "feature_definitions"}
      /\ s[3].table.name = "feature_store_market_daily" /\ s[3].table.refs = {"feature_definitions"}
  BY DEF FeatureLayer, Create, Table
<1> HIDE DEF s
<1>6. Names(Made(s, 3)) = FeatureNames
  BY <1>1, <1>5 DEF Names, Made, FeatureNames
<1>7. \A t \in Made(s, 3) : t.refs \subseteq FeatureNames \union {"instruments"}
  BY <1>1, <1>5 DEF Made, FeatureNames
<1>8. QED
  BY <1>1, <1>2, <1>3, <1>4, <1>5, <1>6, <1>7 DEF s

LEMMA FeatureCreated ==
    ASSUME NEW T, NEW Y, NEW R, NEW W, Names(T) \cap FeatureNames = {}, {"instruments"} \subseteq Names(T)
    PROVE  Execute(Db(T, Y, R, W), FeatureLayer.up) = Db(T \union Made(FeatureLayer.up, 3), Y, R, W)
<1> DEFINE s == FeatureLayer.up
           N == Names(T)
<1>1. 1 .. 3 = {1, 2, 3}
  OBVIOUS
<1>2. /\ s[1].table.name = "feature_definitions" /\ s[1].table.refs = {}
      /\ s[2].table.name = "feature_store_daily" /\ s[2].table.refs = {"instruments", "feature_definitions"}
      /\ s[3].table.name = "feature_store_market_daily" /\ s[3].table.refs = {"feature_definitions"}
  BY FeatureFacts
<1>3. DOMAIN s = 1 .. 3 /\ \A k \in 1 .. 3 : s[k] = [op |-> "create", table |-> s[k].table]
  BY FeatureFacts
<1> HIDE DEF s, N
<1>4. Stack(N, s, 3)
  BY <1>1, <1>2, <1>3 DEF Stack, FeatureNames, N
<1>5. QED
  BY <1>4, CreatesRun DEF s, N

PortfolioNames == {"portfolios", "transactions", "lots", "lot_closures", "position_snapshots"}

LEMMA PortfolioFacts ==
    LET s == PortfolioTables
    IN  /\ IsList(s) /\ DOMAIN s = 1 .. 5
        /\ \A k \in 1 .. 5 : s[k] = [op |-> "create", table |-> s[k].table]
        /\ s[1].table.name = "portfolios" /\ s[1].table.refs = {}
        /\ s[2].table.name = "transactions" /\ s[2].table.refs = {"portfolios", "instruments", "ingestion_runs"}
        /\ s[3].table.name = "lots" /\ s[3].table.refs = {"portfolios", "instruments", "transactions"}
        /\ s[4].table.name = "lot_closures" /\ s[4].table.refs = {"lots", "transactions"}
        /\ s[5].table.name = "position_snapshots" /\ s[5].table.refs = {"portfolios", "instruments"}
        /\ Names(Made(s, 5)) = PortfolioNames
        /\ \A t \in Made(s, 5) : t.refs \subseteq PortfolioNames \union {"ingestion_runs", "instruments"}
<1> DEFINE s == PortfolioTables
<1>1. 1 .. 5 = {1, 2, 3, 4, 5}
  OBVIOUS
<1>2. DOMAIN s = 1 .. 5
  BY DEF PortfolioTables
<1>3. IsList(s)
  <2>1. s \in Seq({ s[k] : k \in 1 .. 5 })
    BY <1>1 DEF PortfolioTables
  <2>2. QED
    BY <2>1 DEF IsList
<1>4. \A k \in {1, 2, 3, 4, 5} : s[k] = [op |-> "create", table |-> s[k].table]
  BY DEF PortfolioTables, Create
<1>5. /\ s[1].table.name = "portfolios" /\ s[1].table.refs = {}
      /\ s[2].table.name = "transactions" /\ s[2].table.refs = {"portfolios", "instruments", "ingestion_runs"}
      /\ s[3].table.name = "lots" /\ s[3].table.refs = {"portfolios", "instruments", "transactions"}
      /\ s[4].table.name = "lot_closures" /\ s[4].table.refs = {"lots", "transactions"}
      /\ s[5].table.name = "position_snapshots" /\ s[5].table.refs = {"portfolios", "instruments"}
  BY DEF PortfolioTables, Create, Table
<1> HIDE DEF s
<1>6. Names(Made(s, 5)) = PortfolioNames
  BY <1>1, <1>5 DEF Names, Made, PortfolioNames
<1>7. \A t \in Made(s, 5) : t.refs \subseteq PortfolioNames \union {"ingestion_runs", "instruments"}
  BY <1>1, <1>5 DEF Made, PortfolioNames
<1>8. QED
  BY <1>1, <1>2, <1>3, <1>4, <1>5, <1>6, <1>7 DEF s

LEMMA PortfolioCreated ==
    ASSUME NEW T, NEW Y, NEW R, NEW W, Names(T) \cap PortfolioNames = {}, {"ingestion_runs", "instruments"} \subseteq Names(T)
    PROVE  Execute(Db(T, Y, R, W), PortfolioTables) = Db(T \union Made(PortfolioTables, 5), Y, R, W)
<1> DEFINE s == PortfolioTables
           N == Names(T)
<1>1. 1 .. 5 = {1, 2, 3, 4, 5}
  OBVIOUS
<1>2. /\ s[1].table.name = "portfolios" /\ s[1].table.refs = {}
      /\ s[2].table.name = "transactions" /\ s[2].table.refs = {"portfolios", "instruments", "ingestion_runs"}
      /\ s[3].table.name = "lots" /\ s[3].table.refs = {"portfolios", "instruments", "transactions"}
      /\ s[4].table.name = "lot_closures" /\ s[4].table.refs = {"lots", "transactions"}
      /\ s[5].table.name = "position_snapshots" /\ s[5].table.refs = {"portfolios", "instruments"}
  BY PortfolioFacts
<1>3. DOMAIN s = 1 .. 5 /\ \A k \in 1 .. 5 : s[k] = [op |-> "create", table |-> s[k].table]
  BY PortfolioFacts
<1> HIDE DEF s, N
<1>4. Stack(N, s, 5)
  BY <1>1, <1>2, <1>3 DEF Stack, PortfolioNames, N
<1>5. QED
  BY <1>4, CreatesRun DEF s, N

ArchiveNames == {"predictions", "prediction_outcomes"}

LEMMA ArchiveFacts ==
    LET s == ArchiveLayer.up
    IN  /\ IsList(s) /\ DOMAIN s = 1 .. 2
        /\ \A k \in 1 .. 2 : s[k] = [op |-> "create", table |-> s[k].table]
        /\ s[1].table.name = "predictions" /\ s[1].table.refs = {"instruments"}
        /\ s[2].table.name = "prediction_outcomes" /\ s[2].table.refs = {"predictions"}
        /\ Names(Made(s, 2)) = ArchiveNames
        /\ \A t \in Made(s, 2) : t.refs \subseteq ArchiveNames \union {"instruments"}
<1> DEFINE s == ArchiveLayer.up
<1>1. 1 .. 2 = {1, 2}
  OBVIOUS
<1>2. DOMAIN s = 1 .. 2
  BY DEF ArchiveLayer
<1>3. IsList(s)
  <2>1. s \in Seq({ s[k] : k \in 1 .. 2 })
    BY <1>1 DEF ArchiveLayer
  <2>2. QED
    BY <2>1 DEF IsList
<1>4. \A k \in {1, 2} : s[k] = [op |-> "create", table |-> s[k].table]
  BY DEF ArchiveLayer, Create
<1>5. /\ s[1].table.name = "predictions" /\ s[1].table.refs = {"instruments"}
      /\ s[2].table.name = "prediction_outcomes" /\ s[2].table.refs = {"predictions"}
  BY DEF ArchiveLayer, Create, Table
<1> HIDE DEF s
<1>6. Names(Made(s, 2)) = ArchiveNames
  BY <1>1, <1>5 DEF Names, Made, ArchiveNames
<1>7. \A t \in Made(s, 2) : t.refs \subseteq ArchiveNames \union {"instruments"}
  BY <1>1, <1>5 DEF Made, ArchiveNames
<1>8. QED
  BY <1>1, <1>2, <1>3, <1>4, <1>5, <1>6, <1>7 DEF s

LEMMA ArchiveCreated ==
    ASSUME NEW T, NEW Y, NEW R, NEW W, Names(T) \cap ArchiveNames = {}, {"instruments"} \subseteq Names(T)
    PROVE  Execute(Db(T, Y, R, W), ArchiveLayer.up) = Db(T \union Made(ArchiveLayer.up, 2), Y, R, W)
<1> DEFINE s == ArchiveLayer.up
           N == Names(T)
<1>1. 1 .. 2 = {1, 2}
  OBVIOUS
<1>2. /\ s[1].table.name = "predictions" /\ s[1].table.refs = {"instruments"}
      /\ s[2].table.name = "prediction_outcomes" /\ s[2].table.refs = {"predictions"}
  BY ArchiveFacts
<1>3. DOMAIN s = 1 .. 2 /\ \A k \in 1 .. 2 : s[k] = [op |-> "create", table |-> s[k].table]
  BY ArchiveFacts
<1> HIDE DEF s, N
<1>4. Stack(N, s, 2)
  BY <1>1, <1>2, <1>3 DEF Stack, ArchiveNames, N
<1>5. QED
  BY <1>4, CreatesRun DEF s, N

SecurityNames == {"universe_definition", "security_master", "delisting_event", "historical_classification"}

LEMMA SecurityFacts ==
    LET s == SecurityTables
    IN  /\ IsList(s) /\ DOMAIN s = 1 .. 4
        /\ \A k \in 1 .. 4 : s[k] = [op |-> "create", table |-> s[k].table]
        /\ s[1].table.name = "universe_definition" /\ s[1].table.refs = {}
        /\ s[2].table.name = "security_master" /\ s[2].table.refs = {"ingestion_runs"}
        /\ s[3].table.name = "delisting_event" /\ s[3].table.refs = {"ingestion_runs", "security_master"}
        /\ s[4].table.name = "historical_classification" /\ s[4].table.refs = {"ingestion_runs", "security_master"}
        /\ Names(Made(s, 4)) = SecurityNames
        /\ \A t \in Made(s, 4) : t.refs \subseteq SecurityNames \union {"ingestion_runs"}
<1> DEFINE s == SecurityTables
<1>1. 1 .. 4 = {1, 2, 3, 4}
  OBVIOUS
<1>2. DOMAIN s = 1 .. 4
  BY DEF SecurityTables
<1>3. IsList(s)
  <2>1. s \in Seq({ s[k] : k \in 1 .. 4 })
    BY <1>1 DEF SecurityTables
  <2>2. QED
    BY <2>1 DEF IsList
<1>4. \A k \in {1, 2, 3, 4} : s[k] = [op |-> "create", table |-> s[k].table]
  BY DEF SecurityTables, Create
<1>5. /\ s[1].table.name = "universe_definition" /\ s[1].table.refs = {}
      /\ s[2].table.name = "security_master" /\ s[2].table.refs = {"ingestion_runs"}
      /\ s[3].table.name = "delisting_event" /\ s[3].table.refs = {"ingestion_runs", "security_master"}
      /\ s[4].table.name = "historical_classification" /\ s[4].table.refs = {"ingestion_runs", "security_master"}
  BY DEF SecurityTables, Create, Table
<1> HIDE DEF s
<1>6. Names(Made(s, 4)) = SecurityNames
  BY <1>1, <1>5 DEF Names, Made, SecurityNames
<1>7. \A t \in Made(s, 4) : t.refs \subseteq SecurityNames \union {"ingestion_runs"}
  BY <1>1, <1>5 DEF Made, SecurityNames
<1>8. QED
  BY <1>1, <1>2, <1>3, <1>4, <1>5, <1>6, <1>7 DEF s

LEMMA SecurityCreated ==
    ASSUME NEW T, NEW Y, NEW R, NEW W, Names(T) \cap SecurityNames = {}, {"ingestion_runs"} \subseteq Names(T)
    PROVE  Execute(Db(T, Y, R, W), SecurityTables) = Db(T \union Made(SecurityTables, 4), Y, R, W)
<1> DEFINE s == SecurityTables
           N == Names(T)
<1>1. 1 .. 4 = {1, 2, 3, 4}
  OBVIOUS
<1>2. /\ s[1].table.name = "universe_definition" /\ s[1].table.refs = {}
      /\ s[2].table.name = "security_master" /\ s[2].table.refs = {"ingestion_runs"}
      /\ s[3].table.name = "delisting_event" /\ s[3].table.refs = {"ingestion_runs", "security_master"}
      /\ s[4].table.name = "historical_classification" /\ s[4].table.refs = {"ingestion_runs", "security_master"}
  BY SecurityFacts
<1>3. DOMAIN s = 1 .. 4 /\ \A k \in 1 .. 4 : s[k] = [op |-> "create", table |-> s[k].table]
  BY SecurityFacts
<1> HIDE DEF s, N
<1>4. Stack(N, s, 4)
  BY <1>1, <1>2, <1>3 DEF Stack, SecurityNames, N
<1>5. QED
  BY <1>4, CreatesRun DEF s, N

MembershipNames == {"security_identifier_history", "security_lifecycle_event", "universe_membership"}

LEMMA MembershipFacts ==
    LET s == MembershipTables
    IN  /\ IsList(s) /\ DOMAIN s = 1 .. 3
        /\ \A k \in 1 .. 3 : s[k] = [op |-> "create", table |-> s[k].table]
        /\ s[1].table.name = "security_identifier_history" /\ s[1].table.refs = {"ingestion_runs", "security_master"}
        /\ s[2].table.name = "security_lifecycle_event" /\ s[2].table.refs = {"ingestion_runs", "security_master"}
        /\ s[3].table.name = "universe_membership" /\ s[3].table.refs = {"ingestion_runs", "security_master", "universe_definition"}
        /\ Names(Made(s, 3)) = MembershipNames
        /\ \A t \in Made(s, 3) : t.refs \subseteq MembershipNames \union {"ingestion_runs", "security_master", "universe_definition"}
<1> DEFINE s == MembershipTables
<1>1. 1 .. 3 = {1, 2, 3}
  OBVIOUS
<1>2. DOMAIN s = 1 .. 3
  BY DEF MembershipTables
<1>3. IsList(s)
  <2>1. s \in Seq({ s[k] : k \in 1 .. 3 })
    BY <1>1 DEF MembershipTables
  <2>2. QED
    BY <2>1 DEF IsList
<1>4. \A k \in {1, 2, 3} : s[k] = [op |-> "create", table |-> s[k].table]
  BY DEF MembershipTables, Create
<1>5. /\ s[1].table.name = "security_identifier_history" /\ s[1].table.refs = {"ingestion_runs", "security_master"}
      /\ s[2].table.name = "security_lifecycle_event" /\ s[2].table.refs = {"ingestion_runs", "security_master"}
      /\ s[3].table.name = "universe_membership" /\ s[3].table.refs = {"ingestion_runs", "security_master", "universe_definition"}
  BY DEF MembershipTables, Create, Table
<1> HIDE DEF s
<1>6. Names(Made(s, 3)) = MembershipNames
  BY <1>1, <1>5 DEF Names, Made, MembershipNames
<1>7. \A t \in Made(s, 3) : t.refs \subseteq MembershipNames \union {"ingestion_runs", "security_master", "universe_definition"}
  BY <1>1, <1>5 DEF Made, MembershipNames
<1>8. QED
  BY <1>1, <1>2, <1>3, <1>4, <1>5, <1>6, <1>7 DEF s

LEMMA MembershipCreated ==
    ASSUME NEW T, NEW Y, NEW R, NEW W, Names(T) \cap MembershipNames = {}, {"ingestion_runs", "security_master", "universe_definition"} \subseteq Names(T)
    PROVE  Execute(Db(T, Y, R, W), MembershipTables) = Db(T \union Made(MembershipTables, 3), Y, R, W)
<1> DEFINE s == MembershipTables
           N == Names(T)
<1>1. 1 .. 3 = {1, 2, 3}
  OBVIOUS
<1>2. /\ s[1].table.name = "security_identifier_history" /\ s[1].table.refs = {"ingestion_runs", "security_master"}
      /\ s[2].table.name = "security_lifecycle_event" /\ s[2].table.refs = {"ingestion_runs", "security_master"}
      /\ s[3].table.name = "universe_membership" /\ s[3].table.refs = {"ingestion_runs", "security_master", "universe_definition"}
  BY MembershipFacts
<1>3. DOMAIN s = 1 .. 3 /\ \A k \in 1 .. 3 : s[k] = [op |-> "create", table |-> s[k].table]
  BY MembershipFacts
<1> HIDE DEF s, N
<1>4. Stack(N, s, 3)
  BY <1>1, <1>2, <1>3 DEF Stack, MembershipNames, N
<1>5. QED
  BY <1>4, CreatesRun DEF s, N

MarketNames == {"instrument_security_map", "security_price_daily"}

LEMMA MarketFacts ==
    LET s == MarketTables
    IN  /\ IsList(s) /\ DOMAIN s = 1 .. 2
        /\ \A k \in 1 .. 2 : s[k] = [op |-> "create", table |-> s[k].table]
        /\ s[1].table.name = "instrument_security_map" /\ s[1].table.refs = {"ingestion_runs", "instruments", "security_master"}
        /\ s[2].table.name = "security_price_daily" /\ s[2].table.refs = {"ingestion_runs", "security_master"}
        /\ Names(Made(s, 2)) = MarketNames
        /\ \A t \in Made(s, 2) : t.refs \subseteq MarketNames \union {"ingestion_runs", "instruments", "security_master"}
<1> DEFINE s == MarketTables
<1>1. 1 .. 2 = {1, 2}
  OBVIOUS
<1>2. DOMAIN s = 1 .. 2
  BY DEF MarketTables
<1>3. IsList(s)
  <2>1. s \in Seq({ s[k] : k \in 1 .. 2 })
    BY <1>1 DEF MarketTables
  <2>2. QED
    BY <2>1 DEF IsList
<1>4. \A k \in {1, 2} : s[k] = [op |-> "create", table |-> s[k].table]
  BY DEF MarketTables, Create
<1>5. /\ s[1].table.name = "instrument_security_map" /\ s[1].table.refs = {"ingestion_runs", "instruments", "security_master"}
      /\ s[2].table.name = "security_price_daily" /\ s[2].table.refs = {"ingestion_runs", "security_master"}
  BY DEF MarketTables, Create, Table
<1> HIDE DEF s
<1>6. Names(Made(s, 2)) = MarketNames
  BY <1>1, <1>5 DEF Names, Made, MarketNames
<1>7. \A t \in Made(s, 2) : t.refs \subseteq MarketNames \union {"ingestion_runs", "instruments", "security_master"}
  BY <1>1, <1>5 DEF Made, MarketNames
<1>8. QED
  BY <1>1, <1>2, <1>3, <1>4, <1>5, <1>6, <1>7 DEF s

LEMMA MarketCreated ==
    ASSUME NEW T, NEW Y, NEW R, NEW W, Names(T) \cap MarketNames = {}, {"ingestion_runs", "instruments", "security_master"} \subseteq Names(T)
    PROVE  Execute(Db(T, Y, R, W), MarketTables) = Db(T \union Made(MarketTables, 2), Y, R, W)
<1> DEFINE s == MarketTables
           N == Names(T)
<1>1. 1 .. 2 = {1, 2}
  OBVIOUS
<1>2. /\ s[1].table.name = "instrument_security_map" /\ s[1].table.refs = {"ingestion_runs", "instruments", "security_master"}
      /\ s[2].table.name = "security_price_daily" /\ s[2].table.refs = {"ingestion_runs", "security_master"}
  BY MarketFacts
<1>3. DOMAIN s = 1 .. 2 /\ \A k \in 1 .. 2 : s[k] = [op |-> "create", table |-> s[k].table]
  BY MarketFacts
<1> HIDE DEF s, N
<1>4. Stack(N, s, 2)
  BY <1>1, <1>2, <1>3 DEF Stack, MarketNames, N
<1>5. QED
  BY <1>4, CreatesRun DEF s, N

ReturnNames == {"security_market_snapshot", "benchmark_return_daily", "security_return_daily"}

LEMMA ReturnFacts ==
    LET s == ReturnTables
    IN  /\ IsList(s) /\ DOMAIN s = 1 .. 3
        /\ \A k \in 1 .. 3 : s[k] = [op |-> "create", table |-> s[k].table]
        /\ s[1].table.name = "security_market_snapshot" /\ s[1].table.refs = {"ingestion_runs", "security_master"}
        /\ s[2].table.name = "benchmark_return_daily" /\ s[2].table.refs = {"ingestion_runs"}
        /\ s[3].table.name = "security_return_daily" /\ s[3].table.refs = {"ingestion_runs", "security_master"}
        /\ Names(Made(s, 3)) = ReturnNames
        /\ \A t \in Made(s, 3) : t.refs \subseteq ReturnNames \union {"ingestion_runs", "security_master"}
<1> DEFINE s == ReturnTables
<1>1. 1 .. 3 = {1, 2, 3}
  OBVIOUS
<1>2. DOMAIN s = 1 .. 3
  BY DEF ReturnTables
<1>3. IsList(s)
  <2>1. s \in Seq({ s[k] : k \in 1 .. 3 })
    BY <1>1 DEF ReturnTables
  <2>2. QED
    BY <2>1 DEF IsList
<1>4. \A k \in {1, 2, 3} : s[k] = [op |-> "create", table |-> s[k].table]
  BY DEF ReturnTables, Create
<1>5. /\ s[1].table.name = "security_market_snapshot" /\ s[1].table.refs = {"ingestion_runs", "security_master"}
      /\ s[2].table.name = "benchmark_return_daily" /\ s[2].table.refs = {"ingestion_runs"}
      /\ s[3].table.name = "security_return_daily" /\ s[3].table.refs = {"ingestion_runs", "security_master"}
  BY DEF ReturnTables, Create, Table
<1> HIDE DEF s
<1>6. Names(Made(s, 3)) = ReturnNames
  BY <1>1, <1>5 DEF Names, Made, ReturnNames
<1>7. \A t \in Made(s, 3) : t.refs \subseteq ReturnNames \union {"ingestion_runs", "security_master"}
  BY <1>1, <1>5 DEF Made, ReturnNames
<1>8. QED
  BY <1>1, <1>2, <1>3, <1>4, <1>5, <1>6, <1>7 DEF s

LEMMA ReturnCreated ==
    ASSUME NEW T, NEW Y, NEW R, NEW W, Names(T) \cap ReturnNames = {}, {"ingestion_runs", "security_master"} \subseteq Names(T)
    PROVE  Execute(Db(T, Y, R, W), ReturnTables) = Db(T \union Made(ReturnTables, 3), Y, R, W)
<1> DEFINE s == ReturnTables
           N == Names(T)
<1>1. 1 .. 3 = {1, 2, 3}
  OBVIOUS
<1>2. /\ s[1].table.name = "security_market_snapshot" /\ s[1].table.refs = {"ingestion_runs", "security_master"}
      /\ s[2].table.name = "benchmark_return_daily" /\ s[2].table.refs = {"ingestion_runs"}
      /\ s[3].table.name = "security_return_daily" /\ s[3].table.refs = {"ingestion_runs", "security_master"}
  BY ReturnFacts
<1>3. DOMAIN s = 1 .. 3 /\ \A k \in 1 .. 3 : s[k] = [op |-> "create", table |-> s[k].table]
  BY ReturnFacts
<1> HIDE DEF s, N
<1>4. Stack(N, s, 3)
  BY <1>1, <1>2, <1>3 DEF Stack, ReturnNames, N
<1>5. QED
  BY <1>4, CreatesRun DEF s, N

OutcomeNames == {"terminal_outcome", "research_dataset_snapshot"}

LEMMA OutcomeFacts ==
    LET s == OutcomeTables
    IN  /\ IsList(s) /\ DOMAIN s = 1 .. 2
        /\ \A k \in 1 .. 2 : s[k] = [op |-> "create", table |-> s[k].table]
        /\ s[1].table.name = "terminal_outcome" /\ s[1].table.refs = {"ingestion_runs", "security_master"}
        /\ s[2].table.name = "research_dataset_snapshot" /\ s[2].table.refs = {"universe_definition"}
        /\ Names(Made(s, 2)) = OutcomeNames
        /\ \A t \in Made(s, 2) : t.refs \subseteq OutcomeNames \union {"ingestion_runs", "security_master", "universe_definition"}
<1> DEFINE s == OutcomeTables
<1>1. 1 .. 2 = {1, 2}
  OBVIOUS
<1>2. DOMAIN s = 1 .. 2
  BY DEF OutcomeTables
<1>3. IsList(s)
  <2>1. s \in Seq({ s[k] : k \in 1 .. 2 })
    BY <1>1 DEF OutcomeTables
  <2>2. QED
    BY <2>1 DEF IsList
<1>4. \A k \in {1, 2} : s[k] = [op |-> "create", table |-> s[k].table]
  BY DEF OutcomeTables, Create
<1>5. /\ s[1].table.name = "terminal_outcome" /\ s[1].table.refs = {"ingestion_runs", "security_master"}
      /\ s[2].table.name = "research_dataset_snapshot" /\ s[2].table.refs = {"universe_definition"}
  BY DEF OutcomeTables, Create, Table
<1> HIDE DEF s
<1>6. Names(Made(s, 2)) = OutcomeNames
  BY <1>1, <1>5 DEF Names, Made, OutcomeNames
<1>7. \A t \in Made(s, 2) : t.refs \subseteq OutcomeNames \union {"ingestion_runs", "security_master", "universe_definition"}
  BY <1>1, <1>5 DEF Made, OutcomeNames
<1>8. QED
  BY <1>1, <1>2, <1>3, <1>4, <1>5, <1>6, <1>7 DEF s

LEMMA OutcomeCreated ==
    ASSUME NEW T, NEW Y, NEW R, NEW W, Names(T) \cap OutcomeNames = {}, {"ingestion_runs", "security_master", "universe_definition"} \subseteq Names(T)
    PROVE  Execute(Db(T, Y, R, W), OutcomeTables) = Db(T \union Made(OutcomeTables, 2), Y, R, W)
<1> DEFINE s == OutcomeTables
           N == Names(T)
<1>1. 1 .. 2 = {1, 2}
  OBVIOUS
<1>2. /\ s[1].table.name = "terminal_outcome" /\ s[1].table.refs = {"ingestion_runs", "security_master"}
      /\ s[2].table.name = "research_dataset_snapshot" /\ s[2].table.refs = {"universe_definition"}
  BY OutcomeFacts
<1>3. DOMAIN s = 1 .. 2 /\ \A k \in 1 .. 2 : s[k] = [op |-> "create", table |-> s[k].table]
  BY OutcomeFacts
<1> HIDE DEF s, N
<1>4. Stack(N, s, 2)
  BY <1>1, <1>2, <1>3 DEF Stack, OutcomeNames, N
<1>5. QED
  BY <1>4, CreatesRun DEF s, N

ExperimentNames == {"forward_return", "experiment_run", "experiment_run_metric"}

LEMMA ExperimentFacts ==
    LET s == ExperimentTables
    IN  /\ IsList(s) /\ DOMAIN s = 1 .. 3
        /\ \A k \in 1 .. 3 : s[k] = [op |-> "create", table |-> s[k].table]
        /\ s[1].table.name = "forward_return" /\ s[1].table.refs = {"ingestion_runs", "security_master"}
        /\ s[2].table.name = "experiment_run" /\ s[2].table.refs = {"research_dataset_snapshot"}
        /\ s[3].table.name = "experiment_run_metric" /\ s[3].table.refs = {"experiment_run"}
        /\ Names(Made(s, 3)) = ExperimentNames
        /\ \A t \in Made(s, 3) : t.refs \subseteq ExperimentNames \union {"ingestion_runs", "research_dataset_snapshot", "security_master"}
<1> DEFINE s == ExperimentTables
<1>1. 1 .. 3 = {1, 2, 3}
  OBVIOUS
<1>2. DOMAIN s = 1 .. 3
  BY DEF ExperimentTables
<1>3. IsList(s)
  <2>1. s \in Seq({ s[k] : k \in 1 .. 3 })
    BY <1>1 DEF ExperimentTables
  <2>2. QED
    BY <2>1 DEF IsList
<1>4. \A k \in {1, 2, 3} : s[k] = [op |-> "create", table |-> s[k].table]
  BY DEF ExperimentTables, Create
<1>5. /\ s[1].table.name = "forward_return" /\ s[1].table.refs = {"ingestion_runs", "security_master"}
      /\ s[2].table.name = "experiment_run" /\ s[2].table.refs = {"research_dataset_snapshot"}
      /\ s[3].table.name = "experiment_run_metric" /\ s[3].table.refs = {"experiment_run"}
  BY DEF ExperimentTables, Create, Table
<1> HIDE DEF s
<1>6. Names(Made(s, 3)) = ExperimentNames
  BY <1>1, <1>5 DEF Names, Made, ExperimentNames
<1>7. \A t \in Made(s, 3) : t.refs \subseteq ExperimentNames \union {"ingestion_runs", "research_dataset_snapshot", "security_master"}
  BY <1>1, <1>5 DEF Made, ExperimentNames
<1>8. QED
  BY <1>1, <1>2, <1>3, <1>4, <1>5, <1>6, <1>7 DEF s

LEMMA ExperimentCreated ==
    ASSUME NEW T, NEW Y, NEW R, NEW W, Names(T) \cap ExperimentNames = {}, {"ingestion_runs", "research_dataset_snapshot", "security_master"} \subseteq Names(T)
    PROVE  Execute(Db(T, Y, R, W), ExperimentTables) = Db(T \union Made(ExperimentTables, 3), Y, R, W)
<1> DEFINE s == ExperimentTables
           N == Names(T)
<1>1. 1 .. 3 = {1, 2, 3}
  OBVIOUS
<1>2. /\ s[1].table.name = "forward_return" /\ s[1].table.refs = {"ingestion_runs", "security_master"}
      /\ s[2].table.name = "experiment_run" /\ s[2].table.refs = {"research_dataset_snapshot"}
      /\ s[3].table.name = "experiment_run_metric" /\ s[3].table.refs = {"experiment_run"}
  BY ExperimentFacts
<1>3. DOMAIN s = 1 .. 3 /\ \A k \in 1 .. 3 : s[k] = [op |-> "create", table |-> s[k].table]
  BY ExperimentFacts
<1> HIDE DEF s, N
<1>4. Stack(N, s, 3)
  BY <1>1, <1>2, <1>3 DEF Stack, ExperimentNames, N
<1>5. QED
  BY <1>4, CreatesRun DEF s, N

RecordNames == {"experiment_run_decision", "feature_parity_record", "data_divergence_record"}

LEMMA RecordFacts ==
    LET s == RecordTables
    IN  /\ IsList(s) /\ DOMAIN s = 1 .. 3
        /\ \A k \in 1 .. 3 : s[k] = [op |-> "create", table |-> s[k].table]
        /\ s[1].table.name = "experiment_run_decision" /\ s[1].table.refs = {"experiment_run"}
        /\ s[2].table.name = "feature_parity_record" /\ s[2].table.refs = {}
        /\ s[3].table.name = "data_divergence_record" /\ s[3].table.refs = {"security_master"}
        /\ Names(Made(s, 3)) = RecordNames
        /\ \A t \in Made(s, 3) : t.refs \subseteq RecordNames \union {"experiment_run", "security_master"}
<1> DEFINE s == RecordTables
<1>1. 1 .. 3 = {1, 2, 3}
  OBVIOUS
<1>2. DOMAIN s = 1 .. 3
  BY DEF RecordTables
<1>3. IsList(s)
  <2>1. s \in Seq({ s[k] : k \in 1 .. 3 })
    BY <1>1 DEF RecordTables
  <2>2. QED
    BY <2>1 DEF IsList
<1>4. \A k \in {1, 2, 3} : s[k] = [op |-> "create", table |-> s[k].table]
  BY DEF RecordTables, Create
<1>5. /\ s[1].table.name = "experiment_run_decision" /\ s[1].table.refs = {"experiment_run"}
      /\ s[2].table.name = "feature_parity_record" /\ s[2].table.refs = {}
      /\ s[3].table.name = "data_divergence_record" /\ s[3].table.refs = {"security_master"}
  BY DEF RecordTables, Create, Table
<1> HIDE DEF s
<1>6. Names(Made(s, 3)) = RecordNames
  BY <1>1, <1>5 DEF Names, Made, RecordNames
<1>7. \A t \in Made(s, 3) : t.refs \subseteq RecordNames \union {"experiment_run", "security_master"}
  BY <1>1, <1>5 DEF Made, RecordNames
<1>8. QED
  BY <1>1, <1>2, <1>3, <1>4, <1>5, <1>6, <1>7 DEF s

LEMMA RecordCreated ==
    ASSUME NEW T, NEW Y, NEW R, NEW W, Names(T) \cap RecordNames = {}, {"experiment_run", "security_master"} \subseteq Names(T)
    PROVE  Execute(Db(T, Y, R, W), RecordTables) = Db(T \union Made(RecordTables, 3), Y, R, W)
<1> DEFINE s == RecordTables
           N == Names(T)
<1>1. 1 .. 3 = {1, 2, 3}
  OBVIOUS
<1>2. /\ s[1].table.name = "experiment_run_decision" /\ s[1].table.refs = {"experiment_run"}
      /\ s[2].table.name = "feature_parity_record" /\ s[2].table.refs = {}
      /\ s[3].table.name = "data_divergence_record" /\ s[3].table.refs = {"security_master"}
  BY RecordFacts
<1>3. DOMAIN s = 1 .. 3 /\ \A k \in 1 .. 3 : s[k] = [op |-> "create", table |-> s[k].table]
  BY RecordFacts
<1> HIDE DEF s, N
<1>4. Stack(N, s, 3)
  BY <1>1, <1>2, <1>3 DEF Stack, RecordNames, N
<1>5. QED
  BY <1>4, CreatesRun DEF s, N

-----------------------------------------------------------------------------
(* The layers: what each revision adds, and takes away again. *)

ReferenceCreation == Made(ReferenceTables, 5)
ReferenceLayerNames == ReferenceNames
ReferenceDropOrder == << "symbol_history", "instruments", "industries", "trading_calendar", "sectors" >>

LEMMA ReferenceDropped ==
    ASSUME NEW T, NEW Y, NEW R, NEW W, RefsClosed(T), Names(T) \cap ReferenceLayerNames = {}
    PROVE  /\ IsList(Drops(ReferenceDropOrder))
           /\ Execute(Db(T \union ReferenceCreation, Y, R, W), Drops(ReferenceDropOrder))
                = Db(T, Y, RunsWithout(R, ReferenceLayerNames), RowsWithout(W, ReferenceLayerNames))
<1> DEFINE names == ReferenceDropOrder
           C == ReferenceCreation
           N == Names(T)
<1>1. 1 .. 5 = {1, 2, 3, 4, 5}
  OBVIOUS
<1>2. DOMAIN names = 1 .. 5
  BY DEF ReferenceDropOrder
<1>3. /\ names[1] = "symbol_history"
      /\ names[2] = "instruments"
      /\ names[3] = "industries"
      /\ names[4] = "trading_calendar"
      /\ names[5] = "sectors"
  BY DEF ReferenceDropOrder
<1>4. ASSUME NEW t \in C PROVE
          \/ t.name = "sectors" /\ t.refs = {}
          \/ t.name = "trading_calendar" /\ t.refs = {}
          \/ t.name = "industries" /\ t.refs = {"sectors"}
          \/ t.name = "instruments" /\ t.refs = {"industries", "sectors"}
          \/ t.name = "symbol_history" /\ t.refs = {"instruments"}
  <2>1. ASSUME NEW u \in Made(ReferenceTables, 5) PROVE
          \/ u.name = "sectors" /\ u.refs = {}
          \/ u.name = "trading_calendar" /\ u.refs = {}
          \/ u.name = "industries" /\ u.refs = {"sectors"}
          \/ u.name = "instruments" /\ u.refs = {"industries", "sectors"}
          \/ u.name = "symbol_history" /\ u.refs = {"instruments"}
    <3>1. 1 .. 5 = {1, 2, 3, 4, 5}
      OBVIOUS
    <3>2. QED
      BY <3>1, ReferenceFacts DEF Made
  <2>2. QED
    BY <2>1 DEF ReferenceCreation
<1>5. Names(C) = ReferenceLayerNames
  BY ReferenceFacts DEF Names, ReferenceCreation, ReferenceLayerNames
<1>6. NamesUpto(names, 5) = ReferenceLayerNames
  BY <1>1, <1>3 DEF NamesUpto, ReferenceLayerNames, ReferenceNames
<1>7. /\ "symbol_history" \in Names(C)
      /\ "instruments" \in Names(C)
      /\ "industries" \in Names(C)
      /\ "trading_calendar" \in Names(C)
      /\ "sectors" \in Names(C)
  BY <1>5 DEF ReferenceLayerNames, ReferenceNames
<1>8. N \cap ReferenceLayerNames = {}
  OBVIOUS
<1> HIDE DEF names, C, N
<1>9. \A t \in C : \E j \in {1, 2, 3, 4, 5} : t.name = names[j]
  BY <1>3, <1>4
<1>10. \A k \in {1, 2, 3, 4, 5} : names[k] \notin N /\ names[k] \in Names(C)
  BY <1>3, <1>7, <1>8 DEF ReferenceLayerNames, ReferenceNames
<1>11. \A k, j \in {1, 2, 3, 4, 5} : j < k => names[j] # names[k]
  BY <1>3
<1>12. \A k \in {1, 2, 3, 4, 5} : \A t \in C : names[k] \in t.refs => t.name = names[k] \/ \E j \in {1, 2, 3, 4, 5} : j < k /\ t.name = names[j]
  BY <1>3, <1>4
<1>13. Unstack(N, C, names, 5)
  BY <1>1, <1>2, <1>9, <1>10, <1>11, <1>12 DEF Unstack
<1>14. IsList(Drops(names))
  BY <1>2, DropsAreList
<1>15. Execute(Db(T \union C, Y, R, W), Drops(names))
         = Db(T, Y, RunsWithout(R, NamesUpto(names, 5)), RowsWithout(W, NamesUpto(names, 5)))
  BY <1>13, DropsRun DEF N
<1>16. QED
  BY <1>6, <1>14, <1>15 DEF names, C

IngestionCreation == {Table("ingestion_runs", {}, {})} \union Made(IngestionTables, 4)
IngestionLayerNames == {"ingestion_runs"} \union IngestionNames
IngestionDropOrder == << "daily_prices", "corporate_actions", "data_revisions", "data_quality_issues", "ingestion_runs" >>

LEMMA IngestionDropped ==
    ASSUME NEW T, NEW Y, NEW R, NEW W, RefsClosed(T), Names(T) \cap IngestionLayerNames = {}
    PROVE  /\ IsList(Drops(IngestionDropOrder))
           /\ Execute(Db(T \union IngestionCreation, Y, R, W), Drops(IngestionDropOrder))
                = Db(T, Y, RunsWithout(R, IngestionLayerNames), RowsWithout(W, IngestionLayerNames))
<1> DEFINE names == IngestionDropOrder
           C == IngestionCreation
           N == Names(T)
<1>1. 1 .. 5 = {1, 2, 3, 4, 5}
  OBVIOUS
<1>2. DOMAIN names = 1 .. 5
  BY DEF IngestionDropOrder
<1>3. /\ names[1] = "daily_prices"
      /\ names[2] = "corporate_actions"
      /\ names[3] = "data_revisions"
      /\ names[4] = "data_quality_issues"
      /\ names[5] = "ingestion_runs"
  BY DEF IngestionDropOrder
<1>4. ASSUME NEW t \in C PROVE
          \/ t.name = "ingestion_runs" /\ t.refs = {}
          \/ t.name = "data_quality_issues" /\ t.refs = {"ingestion_runs"}
          \/ t.name = "data_revisions" /\ t.refs = {"ingestion_runs"}
          \/ t.name = "corporate_actions" /\ t.refs = {"ingestion_runs", "instruments"}
          \/ t.name = "daily_prices" /\ t.refs = {"ingestion_runs", "instruments"}
  <2>1. ASSUME NEW u \in Made(IngestionTables, 4) PROVE
          \/ u.name = "data_quality_issues" /\ u.refs = {"ingestion_runs"}
          \/ u.name = "data_revisions" /\ u.refs = {"ingestion_runs"}
          \/ u.name = "corporate_actions" /\ u.refs = {"ingestion_runs", "instruments"}
          \/ u.name = "daily_prices" /\ u.refs = {"ingestion_runs", "instruments"}
    <3>1. 1 .. 4 = {1, 2, 3, 4}
      OBVIOUS
    <3>2. QED
      BY <3>1, IngestionFacts DEF Made
  <2>2. QED
    BY <2>1 DEF IngestionCreation, Table
<1>5. Names(C) = IngestionLayerNames
  <2>1. Table("ingestion_runs", {}, {}).name = "ingestion_runs"
    BY DEF Table
  <2>2. Names(Made(IngestionTables, 4)) = IngestionNames
    BY IngestionFacts
  <2>3. Names(C) = {"ingestion_runs"} \union Names(Made(IngestionTables, 4))
    BY <2>1 DEF Names, IngestionCreation
  <2>4. QED
    BY <2>2, <2>3 DEF IngestionLayerNames
<1>6. NamesUpto(names, 5) = IngestionLayerNames
  BY <1>1, <1>3 DEF NamesUpto, IngestionLayerNames, IngestionNames
<1>7. /\ "daily_prices" \in Names(C)
      /\ "corporate_actions" \in Names(C)
      /\ "data_revisions" \in Names(C)
      /\ "data_quality_issues" \in Names(C)
      /\ "ingestion_runs" \in Names(C)
  BY <1>5 DEF IngestionLayerNames, IngestionNames
<1>8. N \cap IngestionLayerNames = {}
  OBVIOUS
<1> HIDE DEF names, C, N
<1>9. \A t \in C : \E j \in {1, 2, 3, 4, 5} : t.name = names[j]
  BY <1>3, <1>4
<1>10. \A k \in {1, 2, 3, 4, 5} : names[k] \notin N /\ names[k] \in Names(C)
  BY <1>3, <1>7, <1>8 DEF IngestionLayerNames, IngestionNames
<1>11. \A k, j \in {1, 2, 3, 4, 5} : j < k => names[j] # names[k]
  BY <1>3
<1>12. \A k \in {1, 2, 3, 4, 5} : \A t \in C : names[k] \in t.refs => t.name = names[k] \/ \E j \in {1, 2, 3, 4, 5} : j < k /\ t.name = names[j]
  BY <1>3, <1>4
<1>13. Unstack(N, C, names, 5)
  BY <1>1, <1>2, <1>9, <1>10, <1>11, <1>12 DEF Unstack
<1>14. IsList(Drops(names))
  BY <1>2, DropsAreList
<1>15. Execute(Db(T \union C, Y, R, W), Drops(names))
         = Db(T, Y, RunsWithout(R, NamesUpto(names, 5)), RowsWithout(W, NamesUpto(names, 5)))
  BY <1>13, DropsRun DEF N
<1>16. QED
  BY <1>6, <1>14, <1>15 DEF names, C

MacroCreation == Made(MacroLayer.up, 2)
MacroLayerNames == MacroNames
MacroDropOrder == << "macro_observations", "macro_series" >>

LEMMA MacroDropped ==
    ASSUME NEW T, NEW Y, NEW R, NEW W, RefsClosed(T), Names(T) \cap MacroLayerNames = {}
    PROVE  /\ IsList(Drops(MacroDropOrder))
           /\ Execute(Db(T \union MacroCreation, Y, R, W), Drops(MacroDropOrder))
                = Db(T, Y, RunsWithout(R, MacroLayerNames), RowsWithout(W, MacroLayerNames))
<1> DEFINE names == MacroDropOrder
           C == MacroCreation
           N == Names(T)
<1>1. 1 .. 2 = {1, 2}
  OBVIOUS
<1>2. DOMAIN names = 1 .. 2
  BY DEF MacroDropOrder
<1>3. /\ names[1] = "macro_observations"
      /\ names[2] = "macro_series"
  BY DEF MacroDropOrder
<1>4. ASSUME NEW t \in C PROVE
          \/ t.name = "macro_series" /\ t.refs = {}
          \/ t.name = "macro_observations" /\ t.refs = {"ingestion_runs", "macro_series"}
  <2>1. ASSUME NEW u \in Made(MacroLayer.up, 2) PROVE
          \/ u.name = "macro_series" /\ u.refs = {}
          \/ u.name = "macro_observations" /\ u.refs = {"ingestion_runs", "macro_series"}
    <3>1. 1 .. 2 = {1, 2}
      OBVIOUS
    <3>2. QED
      BY <3>1, MacroFacts DEF Made
  <2>2. QED
    BY <2>1 DEF MacroCreation
<1>5. Names(C) = MacroLayerNames
  BY MacroFacts DEF Names, MacroCreation, MacroLayerNames
<1>6. NamesUpto(names, 2) = MacroLayerNames
  BY <1>1, <1>3 DEF NamesUpto, MacroLayerNames, MacroNames
<1>7. /\ "macro_observations" \in Names(C)
      /\ "macro_series" \in Names(C)
  BY <1>5 DEF MacroLayerNames, MacroNames
<1>8. N \cap MacroLayerNames = {}
  OBVIOUS
<1> HIDE DEF names, C, N
<1>9. \A t \in C : \E j \in {1, 2} : t.name = names[j]
  BY <1>3, <1>4
<1>10. \A k \in {1, 2} : names[k] \notin N /\ names[k] \in Names(C)
  BY <1>3, <1>7, <1>8 DEF MacroLayerNames, MacroNames
<1>11. \A k, j \in {1, 2} : j < k => names[j] # names[k]
  BY <1>3
<1>12. \A k \in {1, 2} : \A t \in C : names[k] \in t.refs => t.name = names[k] \/ \E j \in {1, 2} : j < k /\ t.name = names[j]
  BY <1>3, <1>4
<1>13. Unstack(N, C, names, 2)
  BY <1>1, <1>2, <1>9, <1>10, <1>11, <1>12 DEF Unstack
<1>14. IsList(Drops(names))
  BY <1>2, DropsAreList
<1>15. Execute(Db(T \union C, Y, R, W), Drops(names))
         = Db(T, Y, RunsWithout(R, NamesUpto(names, 2)), RowsWithout(W, NamesUpto(names, 2)))
  BY <1>13, DropsRun DEF N
<1>16. QED
  BY <1>6, <1>14, <1>15 DEF names, C

FundamentalsCreation == Made(FundamentalsLayer.up, 3)
FundamentalsLayerNames == FundamentalsNames
FundamentalsDropOrder == << "v_earnings_current", "earnings_observations", "company_fundamentals" >>

LEMMA FundamentalsDropped ==
    ASSUME NEW T, NEW Y, NEW R, NEW W, RefsClosed(T), Names(T) \cap FundamentalsLayerNames = {}
    PROVE  /\ IsList(Drops(FundamentalsDropOrder))
           /\ Execute(Db(T \union FundamentalsCreation, Y, R, W), Drops(FundamentalsDropOrder))
                = Db(T, Y, RunsWithout(R, FundamentalsLayerNames), RowsWithout(W, FundamentalsLayerNames))
<1> DEFINE names == FundamentalsDropOrder
           C == FundamentalsCreation
           N == Names(T)
<1>1. 1 .. 3 = {1, 2, 3}
  OBVIOUS
<1>2. DOMAIN names = 1 .. 3
  BY DEF FundamentalsDropOrder
<1>3. /\ names[1] = "v_earnings_current"
      /\ names[2] = "earnings_observations"
      /\ names[3] = "company_fundamentals"
  BY DEF FundamentalsDropOrder
<1>4. ASSUME NEW t \in C PROVE
          \/ t.name = "company_fundamentals" /\ t.refs = {"ingestion_runs", "instruments"}
          \/ t.name = "earnings_observations" /\ t.refs = {"ingestion_runs", "instruments"}
          \/ t.name = "v_earnings_current" /\ t.refs = {"earnings_observations"}
  <2>1. ASSUME NEW u \in Made(FundamentalsLayer.up, 3) PROVE
          \/ u.name = "company_fundamentals" /\ u.refs = {"ingestion_runs", "instruments"}
          \/ u.name = "earnings_observations" /\ u.refs = {"ingestion_runs", "instruments"}
          \/ u.name = "v_earnings_current" /\ u.refs = {"earnings_observations"}
    <3>1. 1 .. 3 = {1, 2, 3}
      OBVIOUS
    <3>2. QED
      BY <3>1, FundamentalsFacts DEF Made
  <2>2. QED
    BY <2>1 DEF FundamentalsCreation
<1>5. Names(C) = FundamentalsLayerNames
  BY FundamentalsFacts DEF Names, FundamentalsCreation, FundamentalsLayerNames
<1>6. NamesUpto(names, 3) = FundamentalsLayerNames
  BY <1>1, <1>3 DEF NamesUpto, FundamentalsLayerNames, FundamentalsNames
<1>7. /\ "v_earnings_current" \in Names(C)
      /\ "earnings_observations" \in Names(C)
      /\ "company_fundamentals" \in Names(C)
  BY <1>5 DEF FundamentalsLayerNames, FundamentalsNames
<1>8. N \cap FundamentalsLayerNames = {}
  OBVIOUS
<1> HIDE DEF names, C, N
<1>9. \A t \in C : \E j \in {1, 2, 3} : t.name = names[j]
  BY <1>3, <1>4
<1>10. \A k \in {1, 2, 3} : names[k] \notin N /\ names[k] \in Names(C)
  BY <1>3, <1>7, <1>8 DEF FundamentalsLayerNames, FundamentalsNames
<1>11. \A k, j \in {1, 2, 3} : j < k => names[j] # names[k]
  BY <1>3
<1>12. \A k \in {1, 2, 3} : \A t \in C : names[k] \in t.refs => t.name = names[k] \/ \E j \in {1, 2, 3} : j < k /\ t.name = names[j]
  BY <1>3, <1>4
<1>13. Unstack(N, C, names, 3)
  BY <1>1, <1>2, <1>9, <1>10, <1>11, <1>12 DEF Unstack
<1>14. IsList(Drops(names))
  BY <1>2, DropsAreList
<1>15. Execute(Db(T \union C, Y, R, W), Drops(names))
         = Db(T, Y, RunsWithout(R, NamesUpto(names, 3)), RowsWithout(W, NamesUpto(names, 3)))
  BY <1>13, DropsRun DEF N
<1>16. QED
  BY <1>6, <1>14, <1>15 DEF names, C

FeatureCreation == Made(FeatureLayer.up, 3)
FeatureLayerNames == FeatureNames
FeatureDropOrder == << "feature_store_market_daily", "feature_store_daily", "feature_definitions" >>

LEMMA FeatureDropped ==
    ASSUME NEW T, NEW Y, NEW R, NEW W, RefsClosed(T), Names(T) \cap FeatureLayerNames = {}
    PROVE  /\ IsList(Drops(FeatureDropOrder))
           /\ Execute(Db(T \union FeatureCreation, Y, R, W), Drops(FeatureDropOrder))
                = Db(T, Y, RunsWithout(R, FeatureLayerNames), RowsWithout(W, FeatureLayerNames))
<1> DEFINE names == FeatureDropOrder
           C == FeatureCreation
           N == Names(T)
<1>1. 1 .. 3 = {1, 2, 3}
  OBVIOUS
<1>2. DOMAIN names = 1 .. 3
  BY DEF FeatureDropOrder
<1>3. /\ names[1] = "feature_store_market_daily"
      /\ names[2] = "feature_store_daily"
      /\ names[3] = "feature_definitions"
  BY DEF FeatureDropOrder
<1>4. ASSUME NEW t \in C PROVE
          \/ t.name = "feature_definitions" /\ t.refs = {}
          \/ t.name = "feature_store_daily" /\ t.refs = {"instruments", "feature_definitions"}
          \/ t.name = "feature_store_market_daily" /\ t.refs = {"feature_definitions"}
  <2>1. ASSUME NEW u \in Made(FeatureLayer.up, 3) PROVE
          \/ u.name = "feature_definitions" /\ u.refs = {}
          \/ u.name = "feature_store_daily" /\ u.refs = {"instruments", "feature_definitions"}
          \/ u.name = "feature_store_market_daily" /\ u.refs = {"feature_definitions"}
    <3>1. 1 .. 3 = {1, 2, 3}
      OBVIOUS
    <3>2. QED
      BY <3>1, FeatureFacts DEF Made
  <2>2. QED
    BY <2>1 DEF FeatureCreation
<1>5. Names(C) = FeatureLayerNames
  BY FeatureFacts DEF Names, FeatureCreation, FeatureLayerNames
<1>6. NamesUpto(names, 3) = FeatureLayerNames
  BY <1>1, <1>3 DEF NamesUpto, FeatureLayerNames, FeatureNames
<1>7. /\ "feature_store_market_daily" \in Names(C)
      /\ "feature_store_daily" \in Names(C)
      /\ "feature_definitions" \in Names(C)
  BY <1>5 DEF FeatureLayerNames, FeatureNames
<1>8. N \cap FeatureLayerNames = {}
  OBVIOUS
<1> HIDE DEF names, C, N
<1>9. \A t \in C : \E j \in {1, 2, 3} : t.name = names[j]
  BY <1>3, <1>4
<1>10. \A k \in {1, 2, 3} : names[k] \notin N /\ names[k] \in Names(C)
  BY <1>3, <1>7, <1>8 DEF FeatureLayerNames, FeatureNames
<1>11. \A k, j \in {1, 2, 3} : j < k => names[j] # names[k]
  BY <1>3
<1>12. \A k \in {1, 2, 3} : \A t \in C : names[k] \in t.refs => t.name = names[k] \/ \E j \in {1, 2, 3} : j < k /\ t.name = names[j]
  BY <1>3, <1>4
<1>13. Unstack(N, C, names, 3)
  BY <1>1, <1>2, <1>9, <1>10, <1>11, <1>12 DEF Unstack
<1>14. IsList(Drops(names))
  BY <1>2, DropsAreList
<1>15. Execute(Db(T \union C, Y, R, W), Drops(names))
         = Db(T, Y, RunsWithout(R, NamesUpto(names, 3)), RowsWithout(W, NamesUpto(names, 3)))
  BY <1>13, DropsRun DEF N
<1>16. QED
  BY <1>6, <1>14, <1>15 DEF names, C

PortfolioCreation == Made(PortfolioTables, 5)
PortfolioLayerNames == PortfolioNames
PortfolioDropOrder == << "position_snapshots", "lot_closures", "lots", "transactions", "portfolios" >>

LEMMA PortfolioDropped ==
    ASSUME NEW T, NEW Y, NEW R, NEW W, RefsClosed(T), Names(T) \cap PortfolioLayerNames = {}
    PROVE  /\ IsList(Drops(PortfolioDropOrder))
           /\ Execute(Db(T \union PortfolioCreation, Y, R, W), Drops(PortfolioDropOrder))
                = Db(T, Y, RunsWithout(R, PortfolioLayerNames), RowsWithout(W, PortfolioLayerNames))
<1> DEFINE names == PortfolioDropOrder
           C == PortfolioCreation
           N == Names(T)
<1>1. 1 .. 5 = {1, 2, 3, 4, 5}
  OBVIOUS
<1>2. DOMAIN names = 1 .. 5
  BY DEF PortfolioDropOrder
<1>3. /\ names[1] = "position_snapshots"
      /\ names[2] = "lot_closures"
      /\ names[3] = "lots"
      /\ names[4] = "transactions"
      /\ names[5] = "portfolios"
  BY DEF PortfolioDropOrder
<1>4. ASSUME NEW t \in C PROVE
          \/ t.name = "portfolios" /\ t.refs = {}
          \/ t.name = "transactions" /\ t.refs = {"portfolios", "instruments", "ingestion_runs"}
          \/ t.name = "lots" /\ t.refs = {"portfolios", "instruments", "transactions"}
          \/ t.name = "lot_closures" /\ t.refs = {"lots", "transactions"}
          \/ t.name = "position_snapshots" /\ t.refs = {"portfolios", "instruments"}
  <2>1. ASSUME NEW u \in Made(PortfolioTables, 5) PROVE
          \/ u.name = "portfolios" /\ u.refs = {}
          \/ u.name = "transactions" /\ u.refs = {"portfolios", "instruments", "ingestion_runs"}
          \/ u.name = "lots" /\ u.refs = {"portfolios", "instruments", "transactions"}
          \/ u.name = "lot_closures" /\ u.refs = {"lots", "transactions"}
          \/ u.name = "position_snapshots" /\ u.refs = {"portfolios", "instruments"}
    <3>1. 1 .. 5 = {1, 2, 3, 4, 5}
      OBVIOUS
    <3>2. QED
      BY <3>1, PortfolioFacts DEF Made
  <2>2. QED
    BY <2>1 DEF PortfolioCreation
<1>5. Names(C) = PortfolioLayerNames
  BY PortfolioFacts DEF Names, PortfolioCreation, PortfolioLayerNames
<1>6. NamesUpto(names, 5) = PortfolioLayerNames
  BY <1>1, <1>3 DEF NamesUpto, PortfolioLayerNames, PortfolioNames
<1>7. /\ "position_snapshots" \in Names(C)
      /\ "lot_closures" \in Names(C)
      /\ "lots" \in Names(C)
      /\ "transactions" \in Names(C)
      /\ "portfolios" \in Names(C)
  BY <1>5 DEF PortfolioLayerNames, PortfolioNames
<1>8. N \cap PortfolioLayerNames = {}
  OBVIOUS
<1> HIDE DEF names, C, N
<1>9. \A t \in C : \E j \in {1, 2, 3, 4, 5} : t.name = names[j]
  BY <1>3, <1>4
<1>10. \A k \in {1, 2, 3, 4, 5} : names[k] \notin N /\ names[k] \in Names(C)
  BY <1>3, <1>7, <1>8 DEF PortfolioLayerNames, PortfolioNames
<1>11. \A k, j \in {1, 2, 3, 4, 5} : j < k => names[j] # names[k]
  BY <1>3
<1>12. \A k \in {1, 2, 3, 4, 5} : \A t \in C : names[k] \in t.refs => t.name = names[k] \/ \E j \in {1, 2, 3, 4, 5} : j < k /\ t.name = names[j]
  BY <1>3, <1>4
<1>13. Unstack(N, C, names, 5)
  BY <1>1, <1>2, <1>9, <1>10, <1>11, <1>12 DEF Unstack
<1>14. IsList(Drops(names))
  BY <1>2, DropsAreList
<1>15. Execute(Db(T \union C, Y, R, W), Drops(names))
         = Db(T, Y, RunsWithout(R, NamesUpto(names, 5)), RowsWithout(W, NamesUpto(names, 5)))
  BY <1>13, DropsRun DEF N
<1>16. QED
  BY <1>6, <1>14, <1>15 DEF names, C

ArchiveCreation == Made(ArchiveLayer.up, 2)
ArchiveLayerNames == ArchiveNames
ArchiveDropOrder == << "prediction_outcomes", "predictions" >>

LEMMA ArchiveDropped ==
    ASSUME NEW T, NEW Y, NEW R, NEW W, RefsClosed(T), Names(T) \cap ArchiveLayerNames = {}
    PROVE  /\ IsList(Drops(ArchiveDropOrder))
           /\ Execute(Db(T \union ArchiveCreation, Y, R, W), Drops(ArchiveDropOrder))
                = Db(T, Y, RunsWithout(R, ArchiveLayerNames), RowsWithout(W, ArchiveLayerNames))
<1> DEFINE names == ArchiveDropOrder
           C == ArchiveCreation
           N == Names(T)
<1>1. 1 .. 2 = {1, 2}
  OBVIOUS
<1>2. DOMAIN names = 1 .. 2
  BY DEF ArchiveDropOrder
<1>3. /\ names[1] = "prediction_outcomes"
      /\ names[2] = "predictions"
  BY DEF ArchiveDropOrder
<1>4. ASSUME NEW t \in C PROVE
          \/ t.name = "predictions" /\ t.refs = {"instruments"}
          \/ t.name = "prediction_outcomes" /\ t.refs = {"predictions"}
  <2>1. ASSUME NEW u \in Made(ArchiveLayer.up, 2) PROVE
          \/ u.name = "predictions" /\ u.refs = {"instruments"}
          \/ u.name = "prediction_outcomes" /\ u.refs = {"predictions"}
    <3>1. 1 .. 2 = {1, 2}
      OBVIOUS
    <3>2. QED
      BY <3>1, ArchiveFacts DEF Made
  <2>2. QED
    BY <2>1 DEF ArchiveCreation
<1>5. Names(C) = ArchiveLayerNames
  BY ArchiveFacts DEF Names, ArchiveCreation, ArchiveLayerNames
<1>6. NamesUpto(names, 2) = ArchiveLayerNames
  BY <1>1, <1>3 DEF NamesUpto, ArchiveLayerNames, ArchiveNames
<1>7. /\ "prediction_outcomes" \in Names(C)
      /\ "predictions" \in Names(C)
  BY <1>5 DEF ArchiveLayerNames, ArchiveNames
<1>8. N \cap ArchiveLayerNames = {}
  OBVIOUS
<1> HIDE DEF names, C, N
<1>9. \A t \in C : \E j \in {1, 2} : t.name = names[j]
  BY <1>3, <1>4
<1>10. \A k \in {1, 2} : names[k] \notin N /\ names[k] \in Names(C)
  BY <1>3, <1>7, <1>8 DEF ArchiveLayerNames, ArchiveNames
<1>11. \A k, j \in {1, 2} : j < k => names[j] # names[k]
  BY <1>3
<1>12. \A k \in {1, 2} : \A t \in C : names[k] \in t.refs => t.name = names[k] \/ \E j \in {1, 2} : j < k /\ t.name = names[j]
  BY <1>3, <1>4
<1>13. Unstack(N, C, names, 2)
  BY <1>1, <1>2, <1>9, <1>10, <1>11, <1>12 DEF Unstack
<1>14. IsList(Drops(names))
  BY <1>2, DropsAreList
<1>15. Execute(Db(T \union C, Y, R, W), Drops(names))
         = Db(T, Y, RunsWithout(R, NamesUpto(names, 2)), RowsWithout(W, NamesUpto(names, 2)))
  BY <1>13, DropsRun DEF N
<1>16. QED
  BY <1>6, <1>14, <1>15 DEF names, C

SecurityCreation == Made(SecurityTables, 4) \union Made(MembershipTables, 3)
SecurityLayerNames == SecurityNames \union MembershipNames
SecurityDropOrder == << "universe_membership", "security_lifecycle_event", "security_identifier_history", "historical_classification", "delisting_event", "security_master", "universe_definition" >>

LEMMA SecurityDropped ==
    ASSUME NEW T, NEW Y, NEW R, NEW W, RefsClosed(T), Names(T) \cap SecurityLayerNames = {}
    PROVE  /\ IsList(Drops(SecurityDropOrder))
           /\ Execute(Db(T \union SecurityCreation, Y, R, W), Drops(SecurityDropOrder))
                = Db(T, Y, RunsWithout(R, SecurityLayerNames), RowsWithout(W, SecurityLayerNames))
<1> DEFINE names == SecurityDropOrder
           C == SecurityCreation
           N == Names(T)
<1>1. 1 .. 7 = {1, 2, 3, 4, 5, 6, 7}
  OBVIOUS
<1>2. DOMAIN names = 1 .. 7
  BY DEF SecurityDropOrder
<1>3. /\ names[1] = "universe_membership"
      /\ names[2] = "security_lifecycle_event"
      /\ names[3] = "security_identifier_history"
      /\ names[4] = "historical_classification"
      /\ names[5] = "delisting_event"
      /\ names[6] = "security_master"
      /\ names[7] = "universe_definition"
  BY DEF SecurityDropOrder
<1>4. ASSUME NEW t \in C PROVE
          \/ t.name = "universe_definition" /\ t.refs = {}
          \/ t.name = "security_master" /\ t.refs = {"ingestion_runs"}
          \/ t.name = "delisting_event" /\ t.refs = {"ingestion_runs", "security_master"}
          \/ t.name = "historical_classification" /\ t.refs = {"ingestion_runs", "security_master"}
          \/ t.name = "security_identifier_history" /\ t.refs = {"ingestion_runs", "security_master"}
          \/ t.name = "security_lifecycle_event" /\ t.refs = {"ingestion_runs", "security_master"}
          \/ t.name = "universe_membership" /\ t.refs = {"ingestion_runs", "security_master", "universe_definition"}
  <2>1. ASSUME NEW u \in Made(SecurityTables, 4) PROVE
          \/ u.name = "universe_definition" /\ u.refs = {}
          \/ u.name = "security_master" /\ u.refs = {"ingestion_runs"}
          \/ u.name = "delisting_event" /\ u.refs = {"ingestion_runs", "security_master"}
          \/ u.name = "historical_classification" /\ u.refs = {"ingestion_runs", "security_master"}
    <3>1. 1 .. 4 = {1, 2, 3, 4}
      OBVIOUS
    <3>2. QED
      BY <3>1, SecurityFacts DEF Made
  <2>2. ASSUME NEW u \in Made(MembershipTables, 3) PROVE
          \/ u.name = "security_identifier_history" /\ u.refs = {"ingestion_runs", "security_master"}
          \/ u.name = "security_lifecycle_event" /\ u.refs = {"ingestion_runs", "security_master"}
          \/ u.name = "universe_membership" /\ u.refs = {"ingestion_runs", "security_master", "universe_definition"}
    <3>1. 1 .. 3 = {1, 2, 3}
      OBVIOUS
    <3>2. QED
      BY <3>1, MembershipFacts DEF Made
  <2>3. QED
    BY <2>1, <2>2 DEF SecurityCreation
<1>5. Names(C) = SecurityLayerNames
  BY SecurityFacts, MembershipFacts DEF Names, SecurityCreation, SecurityLayerNames
<1>6. NamesUpto(names, 7) = SecurityLayerNames
  BY <1>1, <1>3 DEF NamesUpto, SecurityLayerNames, SecurityNames, MembershipNames
<1>7. /\ "universe_membership" \in Names(C)
      /\ "security_lifecycle_event" \in Names(C)
      /\ "security_identifier_history" \in Names(C)
      /\ "historical_classification" \in Names(C)
      /\ "delisting_event" \in Names(C)
      /\ "security_master" \in Names(C)
      /\ "universe_definition" \in Names(C)
  BY <1>5 DEF SecurityLayerNames, SecurityNames, MembershipNames
<1>8. N \cap SecurityLayerNames = {}
  OBVIOUS
<1> HIDE DEF names, C, N
<1>9. \A t \in C : \E j \in {1, 2, 3, 4, 5, 6, 7} : t.name = names[j]
  BY <1>3, <1>4
<1>10. \A k \in {1, 2, 3, 4, 5, 6, 7} : names[k] \notin N /\ names[k] \in Names(C)
  BY <1>3, <1>7, <1>8 DEF SecurityLayerNames, SecurityNames, MembershipNames
<1>11. \A k, j \in {1, 2, 3, 4, 5, 6, 7} : j < k => names[j] # names[k]
  BY <1>3
<1>12. \A k \in {1, 2, 3, 4, 5, 6, 7} : \A t \in C : names[k] \in t.refs => t.name = names[k] \/ \E j \in {1, 2, 3, 4, 5, 6, 7} : j < k /\ t.name = names[j]
  BY <1>3, <1>4
<1>13. Unstack(N, C, names, 7)
  BY <1>1, <1>2, <1>9, <1>10, <1>11, <1>12 DEF Unstack
<1>14. IsList(Drops(names))
  BY <1>2, DropsAreList
<1>15. Execute(Db(T \union C, Y, R, W), Drops(names))
         = Db(T, Y, RunsWithout(R, NamesUpto(names, 7)), RowsWithout(W, NamesUpto(names, 7)))
  BY <1>13, DropsRun DEF N
<1>16. QED
  BY <1>6, <1>14, <1>15 DEF names, C

ResearchCreation == Made(MarketTables, 2) \union Made(ReturnTables, 3) \union Made(OutcomeTables, 2) \union Made(ExperimentTables, 3) \union Made(RecordTables, 3)
ResearchLayerNames == MarketNames \union ReturnNames \union OutcomeNames \union ExperimentNames \union RecordNames
ResearchDropOrder == << "experiment_run_decision", "experiment_run_metric", "experiment_run", "data_divergence_record", "feature_parity_record", "forward_return", "research_dataset_snapshot", "terminal_outcome", "security_return_daily", "benchmark_return_daily", "security_market_snapshot", "security_price_daily", "instrument_security_map" >>

LEMMA ResearchDropped ==
    ASSUME NEW T, NEW Y, NEW R, NEW W, RefsClosed(T), Names(T) \cap ResearchLayerNames = {}
    PROVE  /\ IsList(Drops(ResearchDropOrder))
           /\ Execute(Db(T \union ResearchCreation, Y, R, W), Drops(ResearchDropOrder))
                = Db(T, Y, RunsWithout(R, ResearchLayerNames), RowsWithout(W, ResearchLayerNames))
<1> DEFINE names == ResearchDropOrder
           C == ResearchCreation
           N == Names(T)
<1>1. 1 .. 13 = {1, 2, 3, 4, 5, 6, 7, 8, 9, 10, 11, 12, 13}
  OBVIOUS
<1>2. DOMAIN names = 1 .. 13
  BY DEF ResearchDropOrder
<1>3. /\ names[1] = "experiment_run_decision"
      /\ names[2] = "experiment_run_metric"
      /\ names[3] = "experiment_run"
      /\ names[4] = "data_divergence_record"
      /\ names[5] = "feature_parity_record"
      /\ names[6] = "forward_return"
      /\ names[7] = "research_dataset_snapshot"
      /\ names[8] = "terminal_outcome"
      /\ names[9] = "security_return_daily"
      /\ names[10] = "benchmark_return_daily"
      /\ names[11] = "security_market_snapshot"
      /\ names[12] = "security_price_daily"
      /\ names[13] = "instrument_security_map"
  BY DEF ResearchDropOrder
<1>4. ASSUME NEW t \in C PROVE
          \/ t.name = "instrument_security_map" /\ t.refs = {"ingestion_runs", "instruments", "security_master"}
          \/ t.name = "security_price_daily" /\ t.refs = {"ingestion_runs", "security_master"}
          \/ t.name = "security_market_snapshot" /\ t.refs = {"ingestion_runs", "security_master"}
          \/ t.name = "benchmark_return_daily" /\ t.refs = {"ingestion_runs"}
          \/ t.name = "security_return_daily" /\ t.refs = {"ingestion_runs", "security_master"}
          \/ t.name = "terminal_outcome" /\ t.refs = {"ingestion_runs", "security_master"}
          \/ t.name = "research_dataset_snapshot" /\ t.refs = {"universe_definition"}
          \/ t.name = "forward_return" /\ t.refs = {"ingestion_runs", "security_master"}
          \/ t.name = "experiment_run" /\ t.refs = {"research_dataset_snapshot"}
          \/ t.name = "experiment_run_metric" /\ t.refs = {"experiment_run"}
          \/ t.name = "experiment_run_decision" /\ t.refs = {"experiment_run"}
          \/ t.name = "feature_parity_record" /\ t.refs = {}
          \/ t.name = "data_divergence_record" /\ t.refs = {"security_master"}
  <2>1. ASSUME NEW u \in Made(MarketTables, 2) PROVE
          \/ u.name = "instrument_security_map" /\ u.refs = {"ingestion_runs", "instruments", "security_master"}
          \/ u.name = "security_price_daily" /\ u.refs = {"ingestion_runs", "security_master"}
    <3>1. 1 .. 2 = {1, 2}
      OBVIOUS
    <3>2. QED
      BY <3>1, MarketFacts DEF Made
  <2>2. ASSUME NEW u \in Made(ReturnTables, 3) PROVE
          \/ u.name = "security_market_snapshot" /\ u.refs = {"ingestion_runs", "security_master"}
          \/ u.name = "benchmark_return_daily" /\ u.refs = {"ingestion_runs"}
          \/ u.name = "security_return_daily" /\ u.refs = {"ingestion_runs", "security_master"}
    <3>1. 1 .. 3 = {1, 2, 3}
      OBVIOUS
    <3>2. QED
      BY <3>1, ReturnFacts DEF Made
  <2>3. ASSUME NEW u \in Made(OutcomeTables, 2) PROVE
          \/ u.name = "terminal_outcome" /\ u.refs = {"ingestion_runs", "security_master"}
          \/ u.name = "research_dataset_snapshot" /\ u.refs = {"universe_definition"}
    <3>1. 1 .. 2 = {1, 2}
      OBVIOUS
    <3>2. QED
      BY <3>1, OutcomeFacts DEF Made
  <2>4. ASSUME NEW u \in Made(ExperimentTables, 3) PROVE
          \/ u.name = "forward_return" /\ u.refs = {"ingestion_runs", "security_master"}
          \/ u.name = "experiment_run" /\ u.refs = {"research_dataset_snapshot"}
          \/ u.name = "experiment_run_metric" /\ u.refs = {"experiment_run"}
    <3>1. 1 .. 3 = {1, 2, 3}
      OBVIOUS
    <3>2. QED
      BY <3>1, ExperimentFacts DEF Made
  <2>5. ASSUME NEW u \in Made(RecordTables, 3) PROVE
          \/ u.name = "experiment_run_decision" /\ u.refs = {"experiment_run"}
          \/ u.name = "feature_parity_record" /\ u.refs = {}
          \/ u.name = "data_divergence_record" /\ u.refs = {"security_master"}
    <3>1. 1 .. 3 = {1, 2, 3}
      OBVIOUS
    <3>2. QED
      BY <3>1, RecordFacts DEF Made
  <2>6. QED
    BY <2>1, <2>2, <2>3, <2>4, <2>5 DEF ResearchCreation
<1>5. Names(C) = ResearchLayerNames
  BY MarketFacts, ReturnFacts, OutcomeFacts, ExperimentFacts, RecordFacts DEF Names, ResearchCreation, ResearchLayerNames
<1>6. NamesUpto(names, 13) = ResearchLayerNames
  BY <1>1, <1>3 DEF NamesUpto, ResearchLayerNames, MarketNames, ReturnNames, OutcomeNames, ExperimentNames, RecordNames
<1>7. /\ "experiment_run_decision" \in Names(C)
      /\ "experiment_run_metric" \in Names(C)
      /\ "experiment_run" \in Names(C)
      /\ "data_divergence_record" \in Names(C)
      /\ "feature_parity_record" \in Names(C)
      /\ "forward_return" \in Names(C)
      /\ "research_dataset_snapshot" \in Names(C)
      /\ "terminal_outcome" \in Names(C)
      /\ "security_return_daily" \in Names(C)
      /\ "benchmark_return_daily" \in Names(C)
      /\ "security_market_snapshot" \in Names(C)
      /\ "security_price_daily" \in Names(C)
      /\ "instrument_security_map" \in Names(C)
  BY <1>5 DEF ResearchLayerNames, MarketNames, ReturnNames, OutcomeNames, ExperimentNames, RecordNames
<1>8. N \cap ResearchLayerNames = {}
  OBVIOUS
<1> HIDE DEF names, C, N
<1>9. \A t \in C : \E j \in {1, 2, 3, 4, 5, 6, 7, 8, 9, 10, 11, 12, 13} : t.name = names[j]
  BY <1>3, <1>4
<1>10. \A k \in {1, 2, 3, 4, 5, 6, 7, 8, 9, 10, 11, 12, 13} : names[k] \notin N /\ names[k] \in Names(C)
  BY <1>3, <1>7, <1>8 DEF ResearchLayerNames, MarketNames, ReturnNames, OutcomeNames, ExperimentNames, RecordNames
<1>11. \A k, j \in {1, 2, 3, 4, 5, 6, 7, 8, 9, 10, 11, 12, 13} : j < k => names[j] # names[k]
  BY <1>3
<1>12. \A k \in {1, 2, 3, 4, 5, 6, 7, 8, 9, 10, 11, 12, 13} : \A t \in C : names[k] \in t.refs => t.name = names[k] \/ \E j \in {1, 2, 3, 4, 5, 6, 7, 8, 9, 10, 11, 12, 13} : j < k /\ t.name = names[j]
  BY <1>3, <1>4
<1>13. Unstack(N, C, names, 13)
  BY <1>1, <1>2, <1>9, <1>10, <1>11, <1>12 DEF Unstack
<1>14. IsList(Drops(names))
  BY <1>2, DropsAreList
<1>15. Execute(Db(T \union C, Y, R, W), Drops(names))
         = Db(T, Y, RunsWithout(R, NamesUpto(names, 13)), RowsWithout(W, NamesUpto(names, 13)))
  BY <1>13, DropsRun DEF N
<1>16. QED
  BY <1>6, <1>14, <1>15 DEF names, C

-----------------------------------------------------------------------------
(* The tables, names and run types after the n first revisions. *)

\* The tables of the reference layer but sectors, which is referred last.
ReferenceRest == { ReferenceTables[j].table : j \in 2 .. 5 }
Sectors(refs) == Table("sectors", refs, {"name"})

Layers == << {}, ReferenceRest \union {Sectors({"instruments"})}, IngestionCreation, MacroCreation,
             FundamentalsCreation, FeatureCreation, PortfolioCreation, ArchiveCreation, {},
             SecurityCreation, ResearchCreation >>

LayerNames == << {}, ReferenceLayerNames, IngestionLayerNames, MacroLayerNames,
                 FundamentalsLayerNames, FeatureLayerNames, PortfolioLayerNames, ArchiveLayerNames, {},
                 SecurityLayerNames, ResearchLayerNames >>

TablesAt(n) == UNION { Layers[k] : k \in 1 .. n }
NamesAt(n) == UNION { LayerNames[k] : k \in 1 .. n }

\* Names of older layers that the tables of a layer refer to.
Outside == << {}, {}, {"instruments"}, {"ingestion_runs", "instruments"}, {"ingestion_runs", "instruments"},
              {"ingestion_runs", "instruments"}, {"ingestion_runs", "instruments"}, {"ingestion_runs", "instruments"},
              {}, {"ingestion_runs"}, {"ingestion_runs", "instruments", "security_master", "universe_definition"} >>

TypesAt(n) ==
    CASE n \in 0 .. 2 -> {}
      [] n \in 3 .. 6 -> FirstTypes
      [] n \in 7 .. 8 -> FirstTypes \union {"portfolio_import"}
      [] n = 9 -> TypesWithUpdate
      [] n = 10 -> TypesWithUpdate \union SecurityTypes
      [] n = 11 -> TypesWithUpdate \union SecurityTypes \union ResearchTypes

LEMMA ElevenRevisions ==
    /\ Newest = 11
    /\ Chain[1] = Baseline /\ Chain[2] = ReferenceLayer /\ Chain[3] = IngestionLayer /\ Chain[4] = MacroLayer
    /\ Chain[5] = FundamentalsLayer /\ Chain[6] = FeatureLayer /\ Chain[7] = PortfolioLayer
    /\ Chain[8] = ArchiveLayer /\ Chain[9] = UpdateRunType /\ Chain[10] = SecurityLayer /\ Chain[11] = ResearchLayer
  BY DEF Newest, Chain

LEMMA SectorsApart ==
    /\ ReferenceCreation = ReferenceRest \union {Sectors({})}
    /\ Names(ReferenceRest) = ReferenceLayerNames \ {"sectors"}
    /\ \A t \in ReferenceRest : t.refs \subseteq ReferenceLayerNames
<1> DEFINE s == ReferenceTables
<1>1. 1 .. 5 = {1, 2, 3, 4, 5} /\ 2 .. 5 = {2, 3, 4, 5}
  OBVIOUS
<1>2. s[1].table = Sectors({})
  BY DEF ReferenceTables, Create, Sectors
<1>3. /\ s[2].table.name = "trading_calendar" /\ s[2].table.refs = {}
      /\ s[3].table.name = "industries" /\ s[3].table.refs = {"sectors"}
      /\ s[4].table.name = "instruments" /\ s[4].table.refs = {"industries", "sectors"}
      /\ s[5].table.name = "symbol_history" /\ s[5].table.refs = {"instruments"}
  BY ReferenceFacts
<1> HIDE DEF s
<1>4. ReferenceCreation = ReferenceRest \union {Sectors({})}
  BY <1>1, <1>2 DEF ReferenceCreation, ReferenceRest, Made, s
<1>5. Names(ReferenceRest) = ReferenceLayerNames \ {"sectors"}
  BY <1>1, <1>3 DEF Names, ReferenceRest, ReferenceLayerNames, ReferenceNames, s
<1>6. \A t \in ReferenceRest : t.refs \subseteq ReferenceLayerNames
  BY <1>1, <1>3 DEF ReferenceRest, ReferenceLayerNames, ReferenceNames, s
<1>7. QED
  BY <1>4, <1>5, <1>6

LEMMA NamesUnion == \A A, B : Names(A \union B) = Names(A) \union Names(B)
  BY DEF Names

LEMMA LayerFacts ==
    /\ \A k \in 1 .. 11 : Names(Layers[k]) = LayerNames[k]
    /\ \A k \in 1 .. 11 : \A t \in Layers[k] : t.refs \subseteq LayerNames[k] \union Outside[k]
<1>1. 1 .. 11 = {1, 2, 3, 4, 5, 6, 7, 8, 9, 10, 11}
  OBVIOUS
<1>2. Names({}) = {}
  BY DEF Names
<1>3. /\ Names(ReferenceRest \union {Sectors({"instruments"})}) = ReferenceLayerNames
      /\ \A t \in ReferenceRest \union {Sectors({"instruments"})} : t.refs \subseteq ReferenceLayerNames \union Outside[2]
  <2>1. Sectors({"instruments"}).name = "sectors" /\ Sectors({"instruments"}).refs = {"instruments"}
    BY DEF Sectors, Table
  <2>2. Names(ReferenceRest \union {Sectors({"instruments"})}) = Names(ReferenceRest) \union {"sectors"}
    BY <2>1 DEF Names
  <2>3. {"sectors", "instruments"} \subseteq ReferenceLayerNames
    BY DEF ReferenceLayerNames, ReferenceNames
  <2>4. QED
    BY <2>1, <2>2, <2>3, SectorsApart
<1>4. /\ Names(IngestionCreation) = IngestionLayerNames
      /\ \A t \in IngestionCreation : t.refs \subseteq IngestionLayerNames \union Outside[3]
  <2>1. Table("ingestion_runs", {}, {}).name = "ingestion_runs" /\ Table("ingestion_runs", {}, {}).refs = {}
    BY DEF Table
  <2>2. Names({Table("ingestion_runs", {}, {})}) = {"ingestion_runs"}
    BY <2>1 DEF Names
  <2>3. QED
    BY <2>1, <2>2, NamesUnion, IngestionFacts DEF IngestionCreation, IngestionLayerNames, Outside
<1>5. /\ Names(MacroCreation) = MacroLayerNames
      /\ \A t \in MacroCreation : t.refs \subseteq MacroLayerNames \union Outside[4]
  BY MacroFacts DEF MacroCreation, MacroLayerNames, Outside
<1>6. /\ Names(FundamentalsCreation) = FundamentalsLayerNames
      /\ \A t \in FundamentalsCreation : t.refs \subseteq FundamentalsLayerNames \union Outside[5]
  BY FundamentalsFacts DEF FundamentalsCreation, FundamentalsLayerNames, Outside
<1>7. /\ Names(FeatureCreation) = FeatureLayerNames
      /\ \A t \in FeatureCreation : t.refs \subseteq FeatureLayerNames \union Outside[6]
  BY FeatureFacts DEF FeatureCreation, FeatureLayerNames, Outside
<1>8. /\ Names(PortfolioCreation) = PortfolioLayerNames
      /\ \A t \in PortfolioCreation : t.refs \subseteq PortfolioLayerNames \union Outside[7]
  BY PortfolioFacts DEF PortfolioCreation, PortfolioLayerNames, Outside
<1>9. /\ Names(ArchiveCreation) = ArchiveLayerNames
      /\ \A t \in ArchiveCreation : t.refs \subseteq ArchiveLayerNames \union Outside[8]
  BY ArchiveFacts DEF ArchiveCreation, ArchiveLayerNames, Outside
<1>10. /\ Names(SecurityCreation) = SecurityLayerNames
       /\ \A t \in SecurityCreation : t.refs \subseteq SecurityLayerNames \union Outside[10]
  <2>1. Names(SecurityCreation) = SecurityLayerNames
    BY NamesUnion, SecurityFacts, MembershipFacts DEF SecurityCreation, SecurityLayerNames
  <2>2. {"security_master", "universe_definition"} \subseteq SecurityLayerNames
    BY DEF SecurityLayerNames, SecurityNames
  <2>3. \A t \in SecurityCreation : t.refs \subseteq SecurityLayerNames \union Outside[10]
    BY <2>2, SecurityFacts, MembershipFacts DEF SecurityCreation, SecurityLayerNames, Outside
  <2>4. QED
    BY <2>1, <2>3
<1>11. /\ Names(ResearchCreation) = ResearchLayerNames
       /\ \A t \in ResearchCreation : t.refs \subseteq ResearchLayerNames \union Outside[11]
  <2>1. Names(ResearchCreation) = ResearchLayerNames
    BY MarketFacts, ReturnFacts, OutcomeFacts, ExperimentFacts, RecordFacts
    DEF Names, ResearchCreation, ResearchLayerNames
  <2>2. \A t \in ResearchCreation : t.refs \subseteq ResearchLayerNames \union Outside[11]
    BY MarketFacts, ReturnFacts, OutcomeFacts, ExperimentFacts, RecordFacts
    DEF ResearchCreation, ResearchLayerNames, ExperimentNames, OutcomeNames, Outside
  <2>3. QED
    BY <2>1, <2>2
<1>12. /\ Layers[1] = {} /\ Layers[2] = ReferenceRest \union {Sectors({"instruments"})}
       /\ Layers[3] = IngestionCreation /\ Layers[4] = MacroCreation /\ Layers[5] = FundamentalsCreation
       /\ Layers[6] = FeatureCreation /\ Layers[7] = PortfolioCreation /\ Layers[8] = ArchiveCreation
       /\ Layers[9] = {} /\ Layers[10] = SecurityCreation /\ Layers[11] = ResearchCreation
  BY DEF Layers
<1>13. /\ LayerNames[1] = {} /\ LayerNames[2] = ReferenceLayerNames
       /\ LayerNames[3] = IngestionLayerNames /\ LayerNames[4] = MacroLayerNames
       /\ LayerNames[5] = FundamentalsLayerNames /\ LayerNames[6] = FeatureLayerNames
       /\ LayerNames[7] = PortfolioLayerNames /\ LayerNames[8] = ArchiveLayerNames
       /\ LayerNames[9] = {} /\ LayerNames[10] = SecurityLayerNames /\ LayerNames[11] = ResearchLayerNames
  BY DEF LayerNames
<1>14. \A k \in 1 .. 11 : Names(Layers[k]) = LayerNames[k]
  <2>1. /\ Names(Layers[1]) = LayerNames[1] /\ Names(Layers[2]) = LayerNames[2] /\ Names(Layers[3]) = LayerNames[3]
        /\ Names(Layers[4]) = LayerNames[4] /\ Names(Layers[5]) = LayerNames[5] /\ Names(Layers[6]) = LayerNames[6]
        /\ Names(Layers[7]) = LayerNames[7] /\ Names(Layers[8]) = LayerNames[8] /\ Names(Layers[9]) = LayerNames[9]
        /\ Names(Layers[10]) = LayerNames[10] /\ Names(Layers[11]) = LayerNames[11]
    BY <1>2, <1>3, <1>4, <1>5, <1>6, <1>7, <1>8, <1>9, <1>10, <1>11, <1>12, <1>13, Zenon
  <2>2. QED
    BY <1>1, <2>1
<1>15. \A k \in 1 .. 11 : \A t \in Layers[k] : t.refs \subseteq LayerNames[k] \union Outside[k]
  <2> DEFINE RefsKnown(k) == \A t \in Layers[k] : t.refs \subseteq LayerNames[k] \union Outside[k]
  <2>1. RefsKnown(1) /\ RefsKnown(2) /\ RefsKnown(3) /\ RefsKnown(4)
    BY <1>3, <1>4, <1>5, <1>12, <1>13
  <2>2. RefsKnown(5) /\ RefsKnown(6) /\ RefsKnown(7) /\ RefsKnown(8)
    BY <1>6, <1>7, <1>8, <1>9, <1>12, <1>13
  <2>3. RefsKnown(9) /\ RefsKnown(10) /\ RefsKnown(11)
    BY <1>10, <1>11, <1>12, <1>13
  <2>4. ASSUME NEW k \in 1 .. 11 PROVE RefsKnown(k)
    <3> HIDE DEF RefsKnown
    <3>1. QED
      BY <1>1, <2>1, <2>2, <2>3
  <2>5. QED
    BY <2>4
<1>16. QED
  BY <1>14, <1>15

LEMMA AtZero == TablesAt(0) = {} /\ NamesAt(0) = {} /\ TypesAt(0) = {}
  BY DEF TablesAt, NamesAt, TypesAt

LEMMA AtNext ==
    ASSUME NEW n \in 1 .. 11
    PROVE  TablesAt(n) = TablesAt(n - 1) \union Layers[n] /\ NamesAt(n) = NamesAt(n - 1) \union LayerNames[n]
<1>1. 1 .. n = (1 .. (n - 1)) \union {n}
  OBVIOUS
<1>2. QED
  BY <1>1 DEF TablesAt, NamesAt

LEMMA NamesOfTables ==
    ASSUME NEW n \in 0 .. 11
    PROVE  Names(TablesAt(n)) = NamesAt(n)
<1>1. \A k \in 1 .. n : k \in 1 .. 11
  OBVIOUS
<1>2. \A k \in 1 .. n : Names(Layers[k]) = LayerNames[k]
  BY <1>1, LayerFacts
<1>3. ASSUME NEW x \in Names(TablesAt(n)) PROVE x \in NamesAt(n)
  <2>1. PICK t \in TablesAt(n) : x = t.name
    BY <1>3 DEF Names
  <2>2. PICK k \in 1 .. n : t \in Layers[k]
    BY DEF TablesAt
  <2>3. x \in LayerNames[k]
    BY <1>2, <2>1, <2>2 DEF Names
  <2>4. QED
    BY <2>3 DEF NamesAt
<1>4. ASSUME NEW x \in NamesAt(n) PROVE x \in Names(TablesAt(n))
  <2>1. PICK k \in 1 .. n : x \in LayerNames[k]
    BY DEF NamesAt
  <2>2. PICK t \in Layers[k] : x = t.name
    BY <1>2, <2>1 DEF Names
  <2>3. t \in TablesAt(n)
    BY DEF TablesAt
  <2>4. QED
    BY <2>2, <2>3 DEF Names
<1>5. QED
  BY <1>3, <1>4

\* What the tables of the layers are called, and where other layers look for them.
LEMMA LayersApart ==
    \A k \in 1 .. 11 : \A j \in 1 .. 11 : j < k => LayerNames[j] \cap LayerNames[k] = {}
<1>1. 1 .. 11 = {1, 2, 3, 4, 5, 6, 7, 8, 9, 10, 11}
  OBVIOUS
<1>2. /\ LayerNames[1] = {}
      /\ LayerNames[2] = {"sectors", "trading_calendar", "industries", "instruments", "symbol_history"}
      /\ LayerNames[3] = {"ingestion_runs", "data_quality_issues", "data_revisions", "corporate_actions", "daily_prices"}
      /\ LayerNames[4] = {"macro_series", "macro_observations"}
      /\ LayerNames[5] = {"company_fundamentals", "earnings_observations", "v_earnings_current"}
      /\ LayerNames[6] = {"feature_definitions", "feature_store_daily", "feature_store_market_daily"}
      /\ LayerNames[7] = {"portfolios", "transactions", "lots", "lot_closures", "position_snapshots"}
      /\ LayerNames[8] = {"predictions", "prediction_outcomes"}
      /\ LayerNames[9] = {}
      /\ LayerNames[10] = {"universe_definition", "security_master", "delisting_event", "historical_classification",
                           "security_identifier_history", "security_lifecycle_event", "universe_membership"}
      /\ LayerNames[11] = {"instrument_security_map", "security_price_daily", "security_market_snapshot",
                           "benchmark_return_daily", "security_return_daily", "terminal_outcome",
                           "research_dataset_snapshot", "forward_return", "experiment_run", "experiment_run_metric",
                           "experiment_run_decision", "feature_parity_record", "data_divergence_record"}
  BY DEF LayerNames, ReferenceLayerNames, ReferenceNames, IngestionLayerNames, IngestionNames, MacroLayerNames, MacroNames,
         FundamentalsLayerNames, FundamentalsNames, FeatureLayerNames, FeatureNames, PortfolioLayerNames, PortfolioNames,
         ArchiveLayerNames, ArchiveNames, SecurityLayerNames, SecurityNames, MembershipNames,
         ResearchLayerNames, MarketNames, ReturnNames, OutcomeNames, ExperimentNames, RecordNames
<1>3. \A j \in 1 .. 11 : j < 2 => LayerNames[j] \cap LayerNames[2] = {}
  BY <1>1, <1>2
<1>4. \A j \in 1 .. 11 : j < 3 => LayerNames[j] \cap LayerNames[3] = {}
  BY <1>1, <1>2
<1>5. \A j \in 1 .. 11 : j < 4 => LayerNames[j] \cap LayerNames[4] = {}
  BY <1>1, <1>2
<1>6. \A j \in 1 .. 11 : j < 5 => LayerNames[j] \cap LayerNames[5] = {}
  BY <1>1, <1>2
<1>7. \A j \in 1 .. 11 : j < 6 => LayerNames[j] \cap LayerNames[6] = {}
  BY <1>1, <1>2
<1>8. \A j \in 1 .. 11 : j < 7 => LayerNames[j] \cap LayerNames[7] = {}
  BY <1>1, <1>2
<1>9. \A j \in 1 .. 11 : j < 8 => LayerNames[j] \cap LayerNames[8] = {}
  BY <1>1, <1>2
<1>10. \A j \in 1 .. 11 : j < 10 => LayerNames[j] \cap LayerNames[10] = {}
  BY <1>1, <1>2
<1>11. \A j \in 1 .. 11 : j < 11 => LayerNames[j] \cap LayerNames[11] = {}
  BY <1>1, <1>2
<1>12. \A j \in 1 .. 11 : LayerNames[j] \cap LayerNames[1] = {} /\ LayerNames[j] \cap LayerNames[9] = {}
  BY <1>2
<1>13. QED
  BY <1>1, <1>3, <1>4, <1>5, <1>6, <1>7, <1>8, <1>9, <1>10, <1>11, <1>12

LEMMA NextNamesAreNew ==
    ASSUME NEW n \in 1 .. 11
    PROVE  NamesAt(n - 1) \cap LayerNames[n] = {}
<1>1. \A j \in 1 .. (n - 1) : j \in 1 .. 11 /\ j < n
  OBVIOUS
<1>2. \A j \in 1 .. (n - 1) : LayerNames[j] \cap LayerNames[n] = {}
  BY <1>1, LayersApart
<1>3. QED
  BY <1>2 DEF NamesAt

LEMMA NamesReferred ==
    ASSUME NEW n \in 0 .. 11
    PROVE  /\ n >= 2 => "instruments" \in NamesAt(n)
           /\ n >= 3 => {"ingestion_runs", "data_quality_issues"} \subseteq NamesAt(n)
           /\ n >= 10 => {"security_master", "universe_definition"} \subseteq NamesAt(n)
<1>1. "instruments" \in LayerNames[2]
  BY DEF LayerNames, ReferenceLayerNames, ReferenceNames
<1>2. {"ingestion_runs", "data_quality_issues"} \subseteq LayerNames[3]
  BY DEF LayerNames, IngestionLayerNames, IngestionNames
<1>3. {"security_master", "universe_definition"} \subseteq LayerNames[10]
  BY DEF LayerNames, SecurityLayerNames, SecurityNames
<1>4. /\ n >= 2 => 2 \in 1 .. n
      /\ n >= 3 => 3 \in 1 .. n
      /\ n >= 10 => 10 \in 1 .. n
  OBVIOUS
<1>5. QED
  BY <1>1, <1>2, <1>3, <1>4 DEF NamesAt

LEMMA OutsideIsOlder ==
    ASSUME NEW k \in 1 .. 11
    PROVE  Outside[k] \subseteq NamesAt(k)
<1>1. 1 .. 11 = {1, 2, 3, 4, 5, 6, 7, 8, 9, 10, 11}
  OBVIOUS
<1>2. /\ k >= 2 => "instruments" \in NamesAt(k)
      /\ k >= 3 => {"ingestion_runs", "data_quality_issues"} \subseteq NamesAt(k)
      /\ k >= 10 => {"security_master", "universe_definition"} \subseteq NamesAt(k)
  <2>1. k \in 0 .. 11
    OBVIOUS
  <2>2. QED
    BY <2>1, NamesReferred
<1>3. /\ Outside[1] = {} /\ Outside[2] = {} /\ Outside[3] = {"instruments"} /\ Outside[9] = {}
      /\ \A j \in {4, 5, 6, 7, 8} : Outside[j] = {"ingestion_runs", "instruments"}
      /\ Outside[10] = {"ingestion_runs"}
      /\ Outside[11] = {"ingestion_runs", "instruments", "security_master", "universe_definition"}
  BY DEF Outside
<1>4. QED
  BY <1>1, <1>2, <1>3

LEMMA TablesClosed ==
    ASSUME NEW n \in 0 .. 11
    PROVE  RefsClosed(TablesAt(n))
<1> SUFFICES ASSUME NEW t \in TablesAt(n), NEW r \in t.refs PROVE r \in NamesAt(n)
  BY NamesOfTables DEF RefsClosed
<1>1. PICK k \in 1 .. n : t \in Layers[k]
  BY DEF TablesAt
<1>2. k \in 1 .. 11
  OBVIOUS
<1>3. r \in LayerNames[k] \/ r \in Outside[k]
  BY <1>1, <1>2, LayerFacts
<1>4. NamesAt(k) \subseteq NamesAt(n)
  <2>1. 1 .. k \subseteq 1 .. n
    OBVIOUS
  <2>2. QED
    BY <2>1 DEF NamesAt
<1>5. LayerNames[k] \subseteq NamesAt(n)
  BY DEF NamesAt
<1>6. Outside[k] \subseteq NamesAt(k)
  BY <1>2, OutsideIsOlder
<1>7. QED
  BY <1>3, <1>4, <1>5, <1>6

\* What the lemmas about a layer assume of the tables before it.
LEMMA Before ==
    ASSUME NEW n \in 1 .. 11
    PROVE  LET T == TablesAt(n - 1)
           IN  /\ TablesAt(n) = T \union Layers[n]
               /\ Names(T) = NamesAt(n - 1)
               /\ RefsClosed(T)
               /\ Names(T) \cap LayerNames[n] = {}
               /\ n >= 3 => "instruments" \in Names(T)
               /\ n >= 4 => {"ingestion_runs", "data_quality_issues"} \subseteq Names(T)
               /\ n = 11 => {"security_master", "universe_definition"} \subseteq Names(T)
<1>1. n - 1 \in 0 .. 11
  OBVIOUS
<1>2. /\ Names(TablesAt(n - 1)) = NamesAt(n - 1)
      /\ RefsClosed(TablesAt(n - 1))
      /\ n - 1 >= 2 => "instruments" \in NamesAt(n - 1)
      /\ n - 1 >= 3 => {"ingestion_runs", "data_quality_issues"} \subseteq NamesAt(n - 1)
      /\ n - 1 >= 10 => {"security_master", "universe_definition"} \subseteq NamesAt(n - 1)
  BY <1>1, NamesOfTables, TablesClosed, NamesReferred
<1>3. NamesAt(n - 1) \cap LayerNames[n] = {}
  BY NextNamesAreNew
<1>4. TablesAt(n) = TablesAt(n - 1) \union Layers[n]
  BY AtNext
<1>5. n >= 3 => n - 1 >= 2
  OBVIOUS
<1>6. n >= 4 => n - 1 >= 3
  OBVIOUS
<1>7. n = 11 => n - 1 >= 10
  OBVIOUS
<1>8. QED
  BY <1>2, <1>3, <1>4, <1>5, <1>6, <1>7

-----------------------------------------------------------------------------
(* Every revision leads from the tables of the one before to its own, with *)
(* whatever runs and rows there are.                                       *)

LEMMA ExecuteNone == \A d : Execute(d, << >>) = d
<1> TAKE d
<1>1. DOMAIN << >> = 1 .. 0 /\ 0 \in Nat
  OBVIOUS
<1>2. QED
  BY <1>1, ExecuteIsReached, ReachedNone

\* The upgrade to revision n.
UpgradeWorks(n) ==
    \A R, W : R \subseteq TypesAt(n - 1) =>
        Execute(Db(TablesAt(n - 1), TypesAt(n - 1), R, W), Chain[n].up) = Db(TablesAt(n), TypesAt(n), R, W)

LEMMA UpgradeToBaseline == UpgradeWorks(1)
<1>1. TablesAt(1) = TablesAt(0)
  <2>1. 1 \in 1 .. 11 /\ 1 - 1 = 0
    OBVIOUS
  <2>2. Layers[1] = {}
    BY DEF Layers
  <2>3. QED
    BY <2>1, <2>2, AtNext
<1>2. TypesAt(1) = TypesAt(0) /\ 1 - 1 = 0
  BY DEF TypesAt
<1>3. Chain[1].up = << >>
  BY ElevenRevisions DEF Baseline
<1>4. QED
  BY <1>1, <1>2, <1>3, ExecuteNone DEF UpgradeWorks

LEMMA UpgradeToReference == UpgradeWorks(2)
<1> SUFFICES ASSUME NEW R, NEW W, R \subseteq TypesAt(2 - 1)
             PROVE  Execute(Db(TablesAt(2 - 1), TypesAt(2 - 1), R, W), Chain[2].up)
                      = Db(TablesAt(2), TypesAt(2), R, W)
  BY DEF UpgradeWorks
<1> DEFINE T == TablesAt(1)
           Y == TypesAt(1)
           N == ReferenceRest
           A == {Sectors({})}
           B == {Sectors({"instruments"})}
<1>1. T = {} /\ TablesAt(2) = B \union N
  <2>1. 1 \in 1 .. 11 /\ 1 - 1 = 0 /\ 2 \in 1 .. 11 /\ 2 - 1 = 1
    OBVIOUS
  <2>2. Layers[1] = {} /\ Layers[2] = N \union B
    BY DEF Layers
  <2>3. QED
    BY <2>1, <2>2, AtNext, AtZero
<1>2. Y = {} /\ TypesAt(2) = {}
  BY DEF TypesAt
<1>3. Execute(Db(T, Y, R, W), ReferenceTables) = Db(N \union A, Y, R, W)
  <2>1. Names(T) \cap ReferenceNames = {} /\ {} \subseteq Names(T)
    BY <1>1 DEF Names
  <2>2. Execute(Db(T, Y, R, W), ReferenceTables) = Db(T \union Made(ReferenceTables, 5), Y, R, W)
    BY <2>1, ReferenceCreated
  <2>3. Made(ReferenceTables, 5) = N \union A
    BY SectorsApart DEF ReferenceCreation
  <2>4. T \union (N \union A) = N \union A
    BY <1>1
  <2>5. QED
    BY <2>2, <2>3, <2>4
<1>4. Run(Db(N \union A, Y, R, W), Refer("sectors", "instruments")) = Db(N \union B, Y, R, W)
  <2>1. "sectors" \notin Names(N) /\ "instruments" \in Names(N)
    BY SectorsApart DEF ReferenceLayerNames, ReferenceNames
  <2>2. {} \union {"instruments"} = {"instruments"}
    OBVIOUS
  <2> HIDE DEF N, Y
  <2>3. Run(Db(N \union {Table("sectors", {}, {"name"})}, Y, R, W), Refer("sectors", "instruments"))
          = Db(N \union {Table("sectors", {} \union {"instruments"}, {"name"})}, Y, R, W)
    BY <2>1, ReferRun
  <2>4. QED
    BY <2>2, <2>3 DEF Sectors
<1>5. Chain[2].up = ReferenceTables \o << Refer("sectors", "instruments") >>
  BY ElevenRevisions DEF ReferenceLayer
<1>6. IsList(ReferenceTables) /\ IsList(<< Refer("sectors", "instruments") >>)
  BY ReferenceFacts, ExecuteOne
<1>7. Execute(Db(T, Y, R, W), Chain[2].up) = Db(N \union B, Y, R, W)
  BY <1>3, <1>4, <1>5, <1>6, ExecuteCat, ExecuteOne
<1>8. N \union B = TablesAt(2) /\ 2 - 1 = 1
  BY <1>1
<1>9. QED
  BY <1>2, <1>7, <1>8

LEMMA UpgradeToIngestion == UpgradeWorks(3)
<1> SUFFICES ASSUME NEW R, NEW W, R \subseteq TypesAt(3 - 1)
             PROVE  Execute(Db(TablesAt(3 - 1), TypesAt(3 - 1), R, W), Chain[3].up)
                      = Db(TablesAt(3), TypesAt(3), R, W)
  BY DEF UpgradeWorks
<1> DEFINE T == TablesAt(2)
           u == Table("ingestion_runs", {}, {})
           U == T \union {u}
<1>1. 3 \in 1 .. 11 /\ 3 - 1 = 2 /\ 3 >= 3
  OBVIOUS
<1>2. Layers[3] = {u} \union Made(IngestionTables, 4) /\ LayerNames[3] = {"ingestion_runs"} \union IngestionNames
  BY DEF Layers, LayerNames, IngestionCreation, IngestionLayerNames
<1>3. /\ TablesAt(3) = T \union Layers[3]
      /\ Names(T) \cap LayerNames[3] = {}
      /\ "instruments" \in Names(T)
  BY <1>1, Before
<1>4. R = {} /\ TypesAt(2) = {} /\ TypesAt(3) = FirstTypes
  BY <1>1 DEF TypesAt
<1>5. u.name = "ingestion_runs" /\ u.refs = {}
  BY DEF Table
<1>6. Create("ingestion_runs", {}, {}) = [op |-> "create", table |-> u]
  BY DEF Create
<1> HIDE DEF u, T
<1>7. Run(Db(T, {}, R, W), Create("ingestion_runs", {}, {})) = Db(U, {}, R, W)
  <2>1. u.name \notin Names(T) /\ u.refs \subseteq Names(T)
    BY <1>2, <1>3, <1>5
  <2>2. QED
    BY <1>6, <2>1, CreateRun
<1>8. Run(Db(U, {}, R, W), Check(FirstTypes)) = Db(U, FirstTypes, R, W)
  <2>1. R \subseteq FirstTypes
    BY <1>4
  <2> HIDE DEF U
  <2>2. QED
    BY <2>1, CheckRun
<1>9. Execute(Db(U, FirstTypes, R, W), IngestionTables) = Db(U \union Made(IngestionTables, 4), FirstTypes, R, W)
  <2>1. Names(U) = Names(T) \union {"ingestion_runs"}
    BY <1>5 DEF Names
  <2>2. "ingestion_runs" \notin IngestionNames
    BY DEF IngestionNames
  <2>3. Names(U) \cap IngestionNames = {} /\ {"ingestion_runs", "instruments"} \subseteq Names(U)
    BY <1>2, <1>3, <2>1, <2>2
  <2> HIDE DEF U
  <2>4. QED
    BY <2>3, IngestionCreated
<1>10. U \union Made(IngestionTables, 4) = TablesAt(3)
  BY <1>2, <1>3
<1>11. Chain[3].up = << Create("ingestion_runs", {}, {}), Check(FirstTypes) >> \o IngestionTables
  BY ElevenRevisions DEF IngestionLayer
<1> DEFINE a == Create("ingestion_runs", {}, {})
           b == Check(FirstTypes)
           d == Db(T, {}, R, W)
<1> HIDE DEF a, b, d, U
<1>12. IsList(<< a, b >>) /\ Execute(d, << a, b >>) = Run(Run(d, a), b)
  BY ExecuteTwo
<1>13. IsList(IngestionTables)
  BY IngestionFacts
<1>14. Execute(d, << a, b >> \o IngestionTables) = Execute(Execute(d, << a, b >>), IngestionTables)
  <2> DEFINE s == << a, b >>
  <2>1. IsList(s)
    BY <1>12
  <2> HIDE DEF s
  <2>2. Execute(d, s \o IngestionTables) = Execute(Execute(d, s), IngestionTables)
    BY <1>13, <2>1, ExecuteCat
  <2>3. QED
    BY <2>2 DEF s
<1>15. Execute(d, Chain[3].up) = Db(TablesAt(3), FirstTypes, R, W)
  BY <1>7, <1>8, <1>9, <1>10, <1>11, <1>12, <1>14 DEF a, b, d
<1>16. QED
  BY <1>1, <1>4, <1>15 DEF d, T

LEMMA UpgradeToMacro == UpgradeWorks(4)
<1> SUFFICES ASSUME NEW R, NEW W, R \subseteq TypesAt(4 - 1)
             PROVE  Execute(Db(TablesAt(4 - 1), TypesAt(4 - 1), R, W), Chain[4].up)
                      = Db(TablesAt(4), TypesAt(4), R, W)
  BY DEF UpgradeWorks
<1> DEFINE T == TablesAt(3)
           Y == TypesAt(3)
<1>1. 4 \in 1 .. 11 /\ 4 - 1 = 3 /\ 4 >= 3 /\ 4 >= 4
  OBVIOUS
<1>2. Layers[4] = Made(MacroLayer.up, 2) /\ LayerNames[4] = MacroNames
  BY DEF Layers, LayerNames, MacroCreation, MacroLayerNames
<1>3. /\ TablesAt(4) = T \union Layers[4]
      /\ Names(T) \cap LayerNames[4] = {}
      /\ {"ingestion_runs", "instruments"} \subseteq Names(T)
  BY <1>1, Before
<1>4. TypesAt(4) = Y
  BY DEF TypesAt
<1> HIDE DEF T, Y
<1>5. Execute(Db(T, Y, R, W), MacroLayer.up) = Db(T \union Made(MacroLayer.up, 2), Y, R, W)
  BY <1>2, <1>3, MacroCreated
<1>6. Chain[4].up = MacroLayer.up
  BY ElevenRevisions
<1>7. Execute(Db(T, Y, R, W), Chain[4].up) = Db(TablesAt(4), Y, R, W)
  BY <1>2, <1>3, <1>5, <1>6
<1>8. QED
  BY <1>1, <1>4, <1>7 DEF T, Y

LEMMA UpgradeToFundamentals == UpgradeWorks(5)
<1> SUFFICES ASSUME NEW R, NEW W, R \subseteq TypesAt(5 - 1)
             PROVE  Execute(Db(TablesAt(5 - 1), TypesAt(5 - 1), R, W), Chain[5].up)
                      = Db(TablesAt(5), TypesAt(5), R, W)
  BY DEF UpgradeWorks
<1> DEFINE T == TablesAt(4)
           Y == TypesAt(4)
<1>1. 5 \in 1 .. 11 /\ 5 - 1 = 4 /\ 5 >= 3 /\ 5 >= 4
  OBVIOUS
<1>2. Layers[5] = Made(FundamentalsLayer.up, 3) /\ LayerNames[5] = FundamentalsNames
  BY DEF Layers, LayerNames, FundamentalsCreation, FundamentalsLayerNames
<1>3. /\ TablesAt(5) = T \union Layers[5]
      /\ Names(T) \cap LayerNames[5] = {}
      /\ {"ingestion_runs", "instruments"} \subseteq Names(T)
  BY <1>1, Before
<1>4. TypesAt(5) = Y
  BY DEF TypesAt
<1> HIDE DEF T, Y
<1>5. Execute(Db(T, Y, R, W), FundamentalsLayer.up) = Db(T \union Made(FundamentalsLayer.up, 3), Y, R, W)
  BY <1>2, <1>3, FundamentalsCreated
<1>6. Chain[5].up = FundamentalsLayer.up
  BY ElevenRevisions
<1>7. Execute(Db(T, Y, R, W), Chain[5].up) = Db(TablesAt(5), Y, R, W)
  BY <1>2, <1>3, <1>5, <1>6
<1>8. QED
  BY <1>1, <1>4, <1>7 DEF T, Y

LEMMA UpgradeToFeature == UpgradeWorks(6)
<1> SUFFICES ASSUME NEW R, NEW W, R \subseteq TypesAt(6 - 1)
             PROVE  Execute(Db(TablesAt(6 - 1), TypesAt(6 - 1), R, W), Chain[6].up)
                      = Db(TablesAt(6), TypesAt(6), R, W)
  BY DEF UpgradeWorks
<1> DEFINE T == TablesAt(5)
           Y == TypesAt(5)
<1>1. 6 \in 1 .. 11 /\ 6 - 1 = 5 /\ 6 >= 3 /\ 6 >= 4
  OBVIOUS
<1>2. Layers[6] = Made(FeatureLayer.up, 3) /\ LayerNames[6] = FeatureNames
  BY DEF Layers, LayerNames, FeatureCreation, FeatureLayerNames
<1>3. /\ TablesAt(6) = T \union Layers[6]
      /\ Names(T) \cap LayerNames[6] = {}
      /\ {"ingestion_runs", "instruments"} \subseteq Names(T)
  BY <1>1, Before
<1>4. TypesAt(6) = Y
  BY DEF TypesAt
<1> HIDE DEF T, Y
<1>5. Execute(Db(T, Y, R, W), FeatureLayer.up) = Db(T \union Made(FeatureLayer.up, 3), Y, R, W)
  BY <1>2, <1>3, FeatureCreated
<1>6. Chain[6].up = FeatureLayer.up
  BY ElevenRevisions
<1>7. Execute(Db(T, Y, R, W), Chain[6].up) = Db(TablesAt(6), Y, R, W)
  BY <1>2, <1>3, <1>5, <1>6
<1>8. QED
  BY <1>1, <1>4, <1>7 DEF T, Y

LEMMA UpgradeToArchive == UpgradeWorks(8)
<1> SUFFICES ASSUME NEW R, NEW W, R \subseteq TypesAt(8 - 1)
             PROVE  Execute(Db(TablesAt(8 - 1), TypesAt(8 - 1), R, W), Chain[8].up)
                      = Db(TablesAt(8), TypesAt(8), R, W)
  BY DEF UpgradeWorks
<1> DEFINE T == TablesAt(7)
           Y == TypesAt(7)
<1>1. 8 \in 1 .. 11 /\ 8 - 1 = 7 /\ 8 >= 3 /\ 8 >= 4
  OBVIOUS
<1>2. Layers[8] = Made(ArchiveLayer.up, 2) /\ LayerNames[8] = ArchiveNames
  BY DEF Layers, LayerNames, ArchiveCreation, ArchiveLayerNames
<1>3. /\ TablesAt(8) = T \union Layers[8]
      /\ Names(T) \cap LayerNames[8] = {}
      /\ {"ingestion_runs", "instruments"} \subseteq Names(T)
  BY <1>1, Before
<1>4. TypesAt(8) = Y
  BY DEF TypesAt
<1> HIDE DEF T, Y
<1>5. Execute(Db(T, Y, R, W), ArchiveLayer.up) = Db(T \union Made(ArchiveLayer.up, 2), Y, R, W)
  BY <1>2, <1>3, ArchiveCreated
<1>6. Chain[8].up = ArchiveLayer.up
  BY ElevenRevisions
<1>7. Execute(Db(T, Y, R, W), Chain[8].up) = Db(TablesAt(8), Y, R, W)
  BY <1>2, <1>3, <1>5, <1>6
<1>8. QED
  BY <1>1, <1>4, <1>7 DEF T, Y

LEMMA UpgradeToPortfolio == UpgradeWorks(7)
<1> SUFFICES ASSUME NEW R, NEW W, R \subseteq TypesAt(7 - 1)
             PROVE  Execute(Db(TablesAt(7 - 1), TypesAt(7 - 1), R, W), Chain[7].up)
                      = Db(TablesAt(7), TypesAt(7), R, W)
  BY DEF UpgradeWorks
<1> DEFINE T == TablesAt(6)
           Y == TypesAt(6)
           Z == FirstTypes \union {"portfolio_import"}
           s == << Check(Z) >>
           d == Db(T, Y, R, W)
<1>1. 7 \in 1 .. 11 /\ 7 - 1 = 6 /\ 7 >= 3 /\ 7 >= 4
  OBVIOUS
<1>2. Layers[7] = Made(PortfolioTables, 5) /\ LayerNames[7] = PortfolioNames
  BY DEF Layers, LayerNames, PortfolioCreation, PortfolioLayerNames
<1>3. /\ TablesAt(7) = T \union Layers[7]
      /\ Names(T) \cap LayerNames[7] = {}
      /\ {"ingestion_runs", "instruments"} \subseteq Names(T)
  BY <1>1, Before
<1>4. Y = FirstTypes /\ TypesAt(7) = Z
  BY DEF TypesAt
<1>5. R \subseteq Z
  BY <1>1, <1>4
<1>6. Chain[7].up = s \o PortfolioTables
  BY ElevenRevisions DEF PortfolioLayer
<1>7. IsList(s) /\ Execute(d, s) = Run(d, Check(Z))
  BY ExecuteOne
<1>8. IsList(PortfolioTables)
  BY PortfolioFacts
<1> HIDE DEF T, Y, Z, s
<1>9. Run(d, Check(Z)) = Db(T, Z, R, W)
  BY <1>5, CheckRun
<1>10. Execute(Db(T, Z, R, W), PortfolioTables) = Db(T \union Made(PortfolioTables, 5), Z, R, W)
  BY <1>2, <1>3, PortfolioCreated
<1>11. Execute(d, s \o PortfolioTables) = Execute(Execute(d, s), PortfolioTables)
  BY <1>7, <1>8, ExecuteCat
<1>12. Execute(d, Chain[7].up) = Db(TablesAt(7), Z, R, W)
  BY <1>2, <1>3, <1>6, <1>7, <1>9, <1>10, <1>11
<1>13. QED
  BY <1>1, <1>4, <1>12 DEF T, Y

LEMMA UpgradeToUpdateType == UpgradeWorks(9)
<1> SUFFICES ASSUME NEW R, NEW W, R \subseteq TypesAt(9 - 1)
             PROVE  Execute(Db(TablesAt(9 - 1), TypesAt(9 - 1), R, W), Chain[9].up)
                      = Db(TablesAt(9), TypesAt(9), R, W)
  BY DEF UpgradeWorks
<1> DEFINE T == TablesAt(8)
           Y == TypesAt(8)
<1>1. 9 \in 1 .. 11 /\ 9 - 1 = 8
  OBVIOUS
<1>2. TablesAt(9) = T
  <2>1. Layers[9] = {}
    BY DEF Layers
  <2>2. QED
    BY <1>1, <2>1, AtNext
<1>3. Y = FirstTypes \union {"portfolio_import"} /\ TypesAt(9) = TypesWithUpdate
  BY DEF TypesAt
<1>4. R \subseteq TypesWithUpdate
  BY <1>1, <1>3 DEF TypesWithUpdate
<1>5. Chain[9].up = << Check(TypesWithUpdate) >>
  BY ElevenRevisions DEF UpdateRunType
<1> HIDE DEF T, Y
<1>6. Run(Db(T, Y, R, W), Check(TypesWithUpdate)) = Db(T, TypesWithUpdate, R, W)
  BY <1>4, CheckRun
<1>7. Execute(Db(T, Y, R, W), Chain[9].up) = Db(T, TypesWithUpdate, R, W)
  BY <1>5, <1>6, ExecuteOne
<1>8. QED
  BY <1>1, <1>2, <1>3, <1>7 DEF T, Y

LEMMA UpgradeToSecurity == UpgradeWorks(10)
<1> SUFFICES ASSUME NEW R, NEW W, R \subseteq TypesAt(10 - 1)
             PROVE  Execute(Db(TablesAt(10 - 1), TypesAt(10 - 1), R, W), Chain[10].up)
                      = Db(TablesAt(10), TypesAt(10), R, W)
  BY DEF UpgradeWorks
<1> DEFINE T == TablesAt(9)
           Y == TypesAt(9)
           Z == TypesWithUpdate \union SecurityTypes
           A == T \union Made(SecurityTables, 4)
           B == A \union Made(MembershipTables, 3)
           c == << Check(Z) >>
           d == Db(T, Y, R, W)
<1>1. 10 \in 1 .. 11 /\ 10 - 1 = 9 /\ 10 >= 3 /\ 10 >= 4
  OBVIOUS
<1>2. /\ Layers[10] = Made(SecurityTables, 4) \union Made(MembershipTables, 3)
      /\ LayerNames[10] = SecurityNames \union MembershipNames
  BY DEF Layers, LayerNames, SecurityCreation, SecurityLayerNames
<1>3. /\ TablesAt(10) = T \union Layers[10]
      /\ Names(T) \cap LayerNames[10] = {}
      /\ {"ingestion_runs", "instruments"} \subseteq Names(T)
  BY <1>1, Before
<1>4. Y = TypesWithUpdate /\ TypesAt(10) = Z
  BY DEF TypesAt
<1>5. R \subseteq Z
  BY <1>1, <1>4
<1>6. Chain[10].up = SecurityTables \o MembershipTables \o c
  BY ElevenRevisions DEF SecurityLayer
<1>7. IsList(SecurityTables) /\ IsList(MembershipTables) /\ IsList(c)
  BY SecurityFacts, MembershipFacts, ExecuteOne
<1>8. \A e : Execute(e, c) = Run(e, Check(Z))
  BY ExecuteOne
<1> HIDE DEF T, Y, Z, c
<1>9. Execute(d, SecurityTables) = Db(A, Y, R, W)
  BY <1>2, <1>3, SecurityCreated
<1>10. Execute(Db(A, Y, R, W), MembershipTables) = Db(B, Y, R, W)
  <2>1. Names(A) = Names(T) \union SecurityNames
    BY NamesUnion, SecurityFacts
  <2>2. SecurityNames \cap MembershipNames = {} /\ {"security_master", "universe_definition"} \subseteq SecurityNames
    BY DEF SecurityNames, MembershipNames
  <2>3. Names(A) \cap MembershipNames = {} /\ {"ingestion_runs", "security_master", "universe_definition"} \subseteq Names(A)
    BY <1>2, <1>3, <2>1, <2>2
  <2> HIDE DEF A
  <2>4. QED
    BY <2>3, MembershipCreated
<1>11. B = TablesAt(10)
  BY <1>2, <1>3
<1> HIDE DEF A, B
<1>12. Run(Db(B, Y, R, W), Check(Z)) = Db(B, Z, R, W)
  BY <1>5, CheckRun
<1>13. IsList(SecurityTables \o MembershipTables) /\ Execute(d, SecurityTables \o MembershipTables) = Db(B, Y, R, W)
  BY <1>7, <1>9, <1>10, ExecuteCat
<1>14. Execute(d, SecurityTables \o MembershipTables \o c) = Execute(Db(B, Y, R, W), c)
  BY <1>7, <1>13, ExecuteCat
<1>15. Execute(d, Chain[10].up) = Db(TablesAt(10), Z, R, W)
  BY <1>6, <1>8, <1>11, <1>12, <1>14
<1>16. QED
  BY <1>1, <1>4, <1>15 DEF T, Y

LEMMA UpgradeToResearch == UpgradeWorks(11)
<1> SUFFICES ASSUME NEW R, NEW W, R \subseteq TypesAt(11 - 1)
             PROVE  Execute(Db(TablesAt(11 - 1), TypesAt(11 - 1), R, W), Chain[11].up)
                      = Db(TablesAt(11), TypesAt(11), R, W)
  BY DEF UpgradeWorks
<1> DEFINE T == TablesAt(10)
           Y == TypesAt(10)
           Z == TypesWithUpdate \union SecurityTypes \union ResearchTypes
           A == T \union Made(MarketTables, 2)
           B == A \union Made(ReturnTables, 3)
           C == B \union Made(OutcomeTables, 2)
           D == C \union Made(ExperimentTables, 3)
           E == D \union Made(RecordTables, 3)
           c == << Check(Z) >>
           d == Db(T, Y, R, W)
<1>1. 11 \in 1 .. 11 /\ 11 - 1 = 10 /\ 11 >= 3 /\ 11 >= 4
  OBVIOUS
<1>2. /\ Layers[11] = Made(MarketTables, 2) \union Made(ReturnTables, 3) \union Made(OutcomeTables, 2)
                       \union Made(ExperimentTables, 3) \union Made(RecordTables, 3)
      /\ LayerNames[11] = MarketNames \union ReturnNames \union OutcomeNames \union ExperimentNames \union RecordNames
  BY DEF Layers, LayerNames, ResearchCreation, ResearchLayerNames
<1>3. /\ TablesAt(11) = T \union Layers[11]
      /\ Names(T) \cap LayerNames[11] = {}
      /\ {"ingestion_runs", "instruments", "security_master", "universe_definition"} \subseteq Names(T)
  BY <1>1, Before
<1>4. Y = TypesWithUpdate \union SecurityTypes /\ TypesAt(11) = Z
  BY DEF TypesAt
<1>5. R \subseteq Z
  BY <1>1, <1>4
<1>6. Chain[11].up = MarketTables \o ReturnTables \o OutcomeTables \o ExperimentTables \o RecordTables \o c
  BY ElevenRevisions DEF ResearchLayer
<1>7. IsList(MarketTables) /\ IsList(ReturnTables) /\ IsList(OutcomeTables) /\ IsList(ExperimentTables)
      /\ IsList(RecordTables) /\ IsList(c)
  BY MarketFacts, ReturnFacts, OutcomeFacts, ExperimentFacts, RecordFacts, ExecuteOne
<1>8. \A e : Execute(e, c) = Run(e, Check(Z))
  BY ExecuteOne
<1>9. /\ Names(A) = Names(T) \union MarketNames
      /\ Names(B) = Names(A) \union ReturnNames
      /\ Names(C) = Names(B) \union OutcomeNames
      /\ Names(D) = Names(C) \union ExperimentNames
  <2>1. /\ Names(Made(MarketTables, 2)) = MarketNames /\ Names(Made(ReturnTables, 3)) = ReturnNames
        /\ Names(Made(OutcomeTables, 2)) = OutcomeNames /\ Names(Made(ExperimentTables, 3)) = ExperimentNames
    BY MarketFacts, ReturnFacts, OutcomeFacts, ExperimentFacts
  <2> HIDE DEF T
  <2>2. Names(A) = Names(T) \union Names(Made(MarketTables, 2))
    BY NamesUnion
  <2> HIDE DEF A
  <2>3. Names(B) = Names(A) \union Names(Made(ReturnTables, 3))
    BY NamesUnion
  <2> HIDE DEF B
  <2>4. Names(C) = Names(B) \union Names(Made(OutcomeTables, 2))
    BY NamesUnion
  <2> HIDE DEF C
  <2>5. Names(D) = Names(C) \union Names(Made(ExperimentTables, 3))
    BY NamesUnion
  <2> HIDE DEF D
  <2>6. QED
    BY <2>1, <2>2, <2>3, <2>4, <2>5, Zenon
<1>10. /\ MarketNames \cap ReturnNames = {}
       /\ (MarketNames \union ReturnNames) \cap OutcomeNames = {}
       /\ (MarketNames \union ReturnNames \union OutcomeNames) \cap ExperimentNames = {}
       /\ (MarketNames \union ReturnNames \union OutcomeNames \union ExperimentNames) \cap RecordNames = {}
       /\ "research_dataset_snapshot" \in OutcomeNames /\ "experiment_run" \in ExperimentNames
  BY DEF MarketNames, ReturnNames, OutcomeNames, ExperimentNames, RecordNames
<1>11. TablesAt(11) = E
  BY <1>2, <1>3
<1> HIDE DEF T, Y, Z, c, A, B, C, D, E
<1>12. Execute(d, MarketTables) = Db(A, Y, R, W)
  BY <1>2, <1>3, MarketCreated DEF A
<1>13. Execute(Db(A, Y, R, W), ReturnTables) = Db(B, Y, R, W)
  <2>1. Names(A) \cap ReturnNames = {} /\ {"ingestion_runs", "security_master"} \subseteq Names(A)
    BY <1>2, <1>3, <1>9, <1>10
  <2>2. QED
    BY <2>1, ReturnCreated DEF B
<1>14. Execute(Db(B, Y, R, W), OutcomeTables) = Db(C, Y, R, W)
  <2>1. Names(B) \cap OutcomeNames = {} /\ {"ingestion_runs", "security_master", "universe_definition"} \subseteq Names(B)
    BY <1>2, <1>3, <1>9, <1>10
  <2>2. QED
    BY <2>1, OutcomeCreated DEF C
<1>15. Execute(Db(C, Y, R, W), ExperimentTables) = Db(D, Y, R, W)
  <2>1. Names(C) \cap ExperimentNames = {}
        /\ {"ingestion_runs", "research_dataset_snapshot", "security_master"} \subseteq Names(C)
    BY <1>2, <1>3, <1>9, <1>10
  <2>2. QED
    BY <2>1, ExperimentCreated DEF D
<1>16. Execute(Db(D, Y, R, W), RecordTables) = Db(E, Y, R, W)
  <2>1. Names(D) \cap RecordNames = {} /\ {"experiment_run", "security_master"} \subseteq Names(D)
    BY <1>2, <1>3, <1>9, <1>10
  <2>2. QED
    BY <2>1, RecordCreated DEF E
<1>17. Run(Db(E, Y, R, W), Check(Z)) = Db(E, Z, R, W)
  BY <1>5, CheckRun
<1> HIDE DEF d
<1>18. IsList(MarketTables \o ReturnTables) /\ Execute(d, MarketTables \o ReturnTables) = Db(B, Y, R, W)
  BY <1>7, <1>12, <1>13, ExecuteCat
<1>19. IsList(MarketTables \o ReturnTables \o OutcomeTables)
       /\ Execute(d, MarketTables \o ReturnTables \o OutcomeTables) = Db(C, Y, R, W)
  BY <1>7, <1>14, <1>18, ExecuteCat
<1>20. IsList(MarketTables \o ReturnTables \o OutcomeTables \o ExperimentTables)
       /\ Execute(d, MarketTables \o ReturnTables \o OutcomeTables \o ExperimentTables) = Db(D, Y, R, W)
  BY <1>7, <1>15, <1>19, ExecuteCat
<1>21. IsList(MarketTables \o ReturnTables \o OutcomeTables \o ExperimentTables \o RecordTables)
       /\ Execute(d, MarketTables \o ReturnTables \o OutcomeTables \o ExperimentTables \o RecordTables) = Db(E, Y, R, W)
  BY <1>7, <1>16, <1>20, ExecuteCat
<1>22. Execute(d, Chain[11].up) = Execute(Db(E, Y, R, W), c)
  BY <1>6, <1>7, <1>21, ExecuteCat
<1>23. Execute(d, Chain[11].up) = Db(TablesAt(11), Z, R, W)
  BY <1>8, <1>11, <1>17, <1>22
<1>24. QED
  BY <1>1, <1>4, <1>23 DEF T, Y, d

LEMMA UpgradesWork == \A n \in 1 .. 11 : UpgradeWorks(n)
<1>1. 1 .. 11 = {1, 2, 3, 4, 5, 6, 7, 8, 9, 10, 11}
  OBVIOUS
<1>2. QED
  BY <1>1, UpgradeToBaseline, UpgradeToReference, UpgradeToIngestion, UpgradeToMacro, UpgradeToFundamentals,
     UpgradeToFeature, UpgradeToPortfolio, UpgradeToArchive, UpgradeToUpdateType, UpgradeToSecurity, UpgradeToResearch

-----------------------------------------------------------------------------
(* Every revision leads back to the tables of the one before, and takes    *)
(* along only the rows and runs that cannot stay.                          *)

\* Rows are of tables that their run's type writes, or in its quarantine.
RowsOK(W) ==
    \A row \in W : row[1] \in Writes(row[2]) \/ (row[2] \in Quarantines /\ row[1] = "data_quality_issues")

\* V keeps the rows of W whose table and run type revision n - 1 has.
Kept(n, W, V) ==
    /\ V \subseteq W
    /\ \A row \in W : row[1] \in NamesAt(n - 1) /\ row[2] \in TypesAt(n - 1) => row \in V

\* The downgrade from revision n.
DowngradeWorks(n) ==
    \A R, W : R \subseteq TypesAt(n) /\ RowsOK(W) =>
        \E V : /\ Kept(n, W, V)
              /\ Execute(Db(TablesAt(n), TypesAt(n), R, W), Chain[n].down)
                   = Db(TablesAt(n - 1), TypesAt(n - 1), R \cap TypesAt(n - 1), V)

LEMMA DroppedRowsAreGone ==
    ASSUME NEW n \in 1 .. 11, NEW W
    PROVE  Kept(n, W, RowsWithout(W, LayerNames[n]))
  BY NextNamesAreNew DEF Kept, RowsWithout

LEMMA ForgottenRows ==
    \A n, W, V, F : Kept(n, W, V) /\ F \cap TypesAt(n - 1) = {} => Kept(n, W, RowsForgetting(V, F))
  BY DEF Kept, RowsForgetting

LEMMA TypesOfRows ==
    /\ Writes("portfolio_import") = {"transactions"} /\ Writes("update") = {}
    /\ Writes("securities") = {"security_master", "security_identifier_history", "security_lifecycle_event",
                                "delisting_event", "historical_classification"}
    /\ Writes("universe") = {"universe_membership"}
    /\ Writes("bridge") = {"instrument_security_map"}
    /\ Writes("research_prices") = {"security_price_daily", "security_market_snapshot", "benchmark_return_daily",
                                     "terminal_outcome"}
    /\ Writes("research_outcomes") = {"security_return_daily"}
    /\ Writes("research_snapshot") = {"forward_return"}
    /\ Writes("experiment") = {}
    /\ "portfolio_import" \notin Quarantines /\ "update" \notin Quarantines
  BY DEF Writes, Quarantines

LEMMA DowngradeFromBaseline == DowngradeWorks(1)
<1> SUFFICES ASSUME NEW R, NEW W, R \subseteq TypesAt(1), RowsOK(W)
             PROVE  \E V : /\ Kept(1, W, V)
                          /\ Execute(Db(TablesAt(1), TypesAt(1), R, W), Chain[1].down)
                               = Db(TablesAt(1 - 1), TypesAt(1 - 1), R \cap TypesAt(1 - 1), V)
  BY DEF DowngradeWorks
<1>1. TablesAt(1) = TablesAt(0) /\ 1 - 1 = 0
  <2>1. 1 \in 1 .. 11 /\ 1 - 1 = 0
    OBVIOUS
  <2>2. Layers[1] = {}
    BY DEF Layers
  <2>3. QED
    BY <2>1, <2>2, AtNext
<1>2. TypesAt(1) = {} /\ TypesAt(0) = {}
  BY DEF TypesAt
<1>3. Chain[1].down = << >>
  BY ElevenRevisions DEF Baseline
<1>4. Kept(1, W, W)
  BY DEF Kept
<1>5. R \cap TypesAt(0) = R
  BY <1>2
<1>6. QED
  BY <1>1, <1>2, <1>3, <1>4, <1>5, ExecuteNone

LEMMA DowngradeFromReference == DowngradeWorks(2)
<1> SUFFICES ASSUME NEW R, NEW W, R \subseteq TypesAt(2), RowsOK(W)
             PROVE  \E V : /\ Kept(2, W, V)
                          /\ Execute(Db(TablesAt(2), TypesAt(2), R, W), Chain[2].down)
                               = Db(TablesAt(2 - 1), TypesAt(2 - 1), R \cap TypesAt(2 - 1), V)
  BY DEF DowngradeWorks
<1> DEFINE T == TablesAt(1)
           N == ReferenceRest
           u == Unrefer("sectors", "instruments")
           s == Drops(ReferenceDropOrder)
           V == RowsWithout(W, ReferenceLayerNames)
<1>1. 2 \in 1 .. 11 /\ 2 - 1 = 1
  OBVIOUS
<1>2. /\ Layers[2] = N \union {Sectors({"instruments"})}
      /\ LayerNames[2] = ReferenceLayerNames
  BY DEF Layers, LayerNames
<1>3. T = {} /\ TablesAt(2) = N \union {Sectors({"instruments"})}
  <2>1. 1 \in 1 .. 11 /\ 1 - 1 = 0
    OBVIOUS
  <2>2. Layers[1] = {}
    BY DEF Layers
  <2>3. QED
    BY <1>1, <1>2, <2>1, <2>2, AtNext, AtZero
<1>4. RefsClosed(T) /\ Names(T) \cap ReferenceLayerNames = {}
  BY <1>1, <1>2, Before
<1>5. TypesAt(1) = {} /\ TypesAt(2) = {}
  BY DEF TypesAt
<1>6. "ingestion_runs" \notin ReferenceLayerNames /\ "sectors" \notin Names(N)
  BY SectorsApart DEF ReferenceLayerNames, ReferenceNames
<1>7. Kept(2, W, V)
  BY <1>1, <1>2, DroppedRowsAreGone
<1>8. Chain[2].down = << u >> \o s
  BY ElevenRevisions DEF ReferenceLayer, ReferenceDropOrder
<1>9. Run(Db(TablesAt(2), {}, R, W), u) = Db(T \union ReferenceCreation, {}, R, W)
  <2>1. {"instruments"} \ {"instruments"} = {} /\ "instruments" \in {"instruments"}
    OBVIOUS
  <2> HIDE DEF N
  <2>2. Run(Db(N \union {Table("sectors", {"instruments"}, {"name"})}, {}, R, W), u)
          = Db(N \union {Table("sectors", {"instruments"} \ {"instruments"}, {"name"})}, {}, R, W)
    BY <1>6, <2>1, UnreferRun
  <2>3. T \union ReferenceCreation = N \union {Sectors({})}
    BY <1>3, SectorsApart DEF N
  <2>4. QED
    BY <1>3, <2>1, <2>2, <2>3 DEF Sectors
<1> HIDE DEF T, u, s
<1>10. IsList(s) /\ Execute(Db(T \union ReferenceCreation, {}, R, W), s)
                     = Db(T, {}, RunsWithout(R, ReferenceLayerNames), V)
  BY <1>4, ReferenceDropped DEF s
<1>11. RunsWithout(R, ReferenceLayerNames) = R /\ R \cap TypesAt(1) = R
  BY <1>5, <1>6 DEF RunsWithout
<1>12. IsList(<< u >>) /\ Execute(Db(TablesAt(2), {}, R, W), << u >>) = Run(Db(TablesAt(2), {}, R, W), u)
  BY ExecuteOne
<1> HIDE DEF V
<1>13. Execute(Db(TablesAt(2), {}, R, W), << u >> \o s) = Execute(Execute(Db(TablesAt(2), {}, R, W), << u >>), s)
  <2> DEFINE r == << u >>
  <2>1. IsList(r)
    BY <1>12
  <2> HIDE DEF r
  <2>2. Execute(Db(TablesAt(2), {}, R, W), r \o s) = Execute(Execute(Db(TablesAt(2), {}, R, W), r), s)
    BY <1>10, <2>1, ExecuteCat
  <2>3. QED
    BY <2>2 DEF r
<1>14. Execute(Db(TablesAt(2), {}, R, W), Chain[2].down) = Db(T, {}, R, V)
  BY <1>8, <1>9, <1>10, <1>11, <1>12, <1>13
<1>15. QED
  BY <1>1, <1>5, <1>7, <1>11, <1>14 DEF T

LEMMA DowngradeFromIngestion == DowngradeWorks(3)
<1> SUFFICES ASSUME NEW R, NEW W, R \subseteq TypesAt(3), RowsOK(W)
             PROVE  \E V : /\ Kept(3, W, V)
                          /\ Execute(Db(TablesAt(3), TypesAt(3), R, W), Chain[3].down)
                               = Db(TablesAt(3 - 1), TypesAt(3 - 1), R \cap TypesAt(3 - 1), V)
  BY DEF DowngradeWorks
<1> DEFINE T == TablesAt(2)
           s == Drops(IngestionDropOrder)
           c == << Check({}) >>
           V == RowsWithout(W, IngestionLayerNames)
           d == Db(T \union IngestionCreation, FirstTypes, R, W)
<1>1. 3 \in 1 .. 11 /\ 3 - 1 = 2
  OBVIOUS
<1>2. Layers[3] = IngestionCreation /\ LayerNames[3] = IngestionLayerNames
  BY DEF Layers, LayerNames
<1>3. TablesAt(3) = T \union IngestionCreation /\ RefsClosed(T) /\ Names(T) \cap IngestionLayerNames = {}
  BY <1>1, <1>2, Before
<1>4. TypesAt(3) = FirstTypes /\ TypesAt(2) = {}
  BY DEF TypesAt
<1>5. "ingestion_runs" \in IngestionLayerNames
  BY DEF IngestionLayerNames
<1>6. Kept(3, W, V)
  BY <1>1, <1>2, DroppedRowsAreGone
<1>7. Chain[3].down = s \o c
  BY ElevenRevisions DEF IngestionLayer, IngestionDropOrder
<1>8. IsList(c) /\ \A e : Execute(e, c) = Run(e, Check({}))
  BY ExecuteOne
<1> HIDE DEF T, s, c
<1>9. IsList(s) /\ Execute(d, s) = Db(T, FirstTypes, RunsWithout(R, IngestionLayerNames), V)
  BY <1>3, IngestionDropped DEF s
<1>10. RunsWithout(R, IngestionLayerNames) = {} /\ R \cap TypesAt(2) = {}
  BY <1>4, <1>5 DEF RunsWithout
<1> HIDE DEF V, d
<1>11. Run(Db(T, FirstTypes, {}, V), Check({})) = Db(T, {}, {}, V)
  <2>1. {} \subseteq {}
    OBVIOUS
  <2>2. QED
    BY <2>1, CheckRun
<1>12. Execute(d, Chain[3].down) = Db(T, {}, {}, V)
  BY <1>7, <1>8, <1>9, <1>10, <1>11, ExecuteCat
<1>13. QED
  BY <1>1, <1>3, <1>4, <1>6, <1>10, <1>12 DEF T, d

LEMMA DowngradeFromMacro == DowngradeWorks(4)
<1> SUFFICES ASSUME NEW R, NEW W, R \subseteq TypesAt(4), RowsOK(W)
             PROVE  \E V : /\ Kept(4, W, V)
                          /\ Execute(Db(TablesAt(4), TypesAt(4), R, W), Chain[4].down)
                               = Db(TablesAt(4 - 1), TypesAt(4 - 1), R \cap TypesAt(4 - 1), V)
  BY DEF DowngradeWorks
<1> DEFINE T == TablesAt(3)
           Y == TypesAt(3)
           V == RowsWithout(W, MacroLayerNames)
<1>1. 4 \in 1 .. 11 /\ 4 - 1 = 3
  OBVIOUS
<1>2. Layers[4] = MacroCreation /\ LayerNames[4] = MacroLayerNames
  BY DEF Layers, LayerNames
<1>3. TablesAt(4) = T \union MacroCreation /\ RefsClosed(T) /\ Names(T) \cap MacroLayerNames = {}
  BY <1>1, <1>2, Before
<1>4. TypesAt(4) = Y
  BY DEF TypesAt
<1>5. "ingestion_runs" \notin MacroLayerNames
  BY DEF MacroLayerNames, MacroNames
<1>6. Kept(4, W, V)
  BY <1>1, <1>2, DroppedRowsAreGone
<1>7. Chain[4].down = Drops(MacroDropOrder)
  BY ElevenRevisions DEF MacroLayer, MacroDropOrder
<1>8. RunsWithout(R, MacroLayerNames) = R /\ R \cap Y = R
  BY <1>4, <1>5 DEF RunsWithout
<1> HIDE DEF T, Y
<1>9. Execute(Db(T \union MacroCreation, Y, R, W), Drops(MacroDropOrder)) = Db(T, Y, RunsWithout(R, MacroLayerNames), V)
  BY <1>3, MacroDropped
<1> HIDE DEF V
<1>10. Execute(Db(TablesAt(4), Y, R, W), Chain[4].down) = Db(T, Y, R, V)
  BY <1>3, <1>7, <1>8, <1>9
<1>11. QED
  BY <1>1, <1>4, <1>6, <1>8, <1>10 DEF T, Y

LEMMA DowngradeFromFundamentals == DowngradeWorks(5)
<1> SUFFICES ASSUME NEW R, NEW W, R \subseteq TypesAt(5), RowsOK(W)
             PROVE  \E V : /\ Kept(5, W, V)
                          /\ Execute(Db(TablesAt(5), TypesAt(5), R, W), Chain[5].down)
                               = Db(TablesAt(5 - 1), TypesAt(5 - 1), R \cap TypesAt(5 - 1), V)
  BY DEF DowngradeWorks
<1> DEFINE T == TablesAt(4)
           Y == TypesAt(4)
           V == RowsWithout(W, FundamentalsLayerNames)
<1>1. 5 \in 1 .. 11 /\ 5 - 1 = 4
  OBVIOUS
<1>2. Layers[5] = FundamentalsCreation /\ LayerNames[5] = FundamentalsLayerNames
  BY DEF Layers, LayerNames
<1>3. TablesAt(5) = T \union FundamentalsCreation /\ RefsClosed(T) /\ Names(T) \cap FundamentalsLayerNames = {}
  BY <1>1, <1>2, Before
<1>4. TypesAt(5) = Y
  BY DEF TypesAt
<1>5. "ingestion_runs" \notin FundamentalsLayerNames
  BY DEF FundamentalsLayerNames, FundamentalsNames
<1>6. Kept(5, W, V)
  BY <1>1, <1>2, DroppedRowsAreGone
<1>7. Chain[5].down = Drops(FundamentalsDropOrder)
  BY ElevenRevisions DEF FundamentalsLayer, FundamentalsDropOrder
<1>8. RunsWithout(R, FundamentalsLayerNames) = R /\ R \cap Y = R
  BY <1>4, <1>5 DEF RunsWithout
<1> HIDE DEF T, Y
<1>9. Execute(Db(T \union FundamentalsCreation, Y, R, W), Drops(FundamentalsDropOrder)) = Db(T, Y, RunsWithout(R, FundamentalsLayerNames), V)
  BY <1>3, FundamentalsDropped
<1> HIDE DEF V
<1>10. Execute(Db(TablesAt(5), Y, R, W), Chain[5].down) = Db(T, Y, R, V)
  BY <1>3, <1>7, <1>8, <1>9
<1>11. QED
  BY <1>1, <1>4, <1>6, <1>8, <1>10 DEF T, Y

LEMMA DowngradeFromFeature == DowngradeWorks(6)
<1> SUFFICES ASSUME NEW R, NEW W, R \subseteq TypesAt(6), RowsOK(W)
             PROVE  \E V : /\ Kept(6, W, V)
                          /\ Execute(Db(TablesAt(6), TypesAt(6), R, W), Chain[6].down)
                               = Db(TablesAt(6 - 1), TypesAt(6 - 1), R \cap TypesAt(6 - 1), V)
  BY DEF DowngradeWorks
<1> DEFINE T == TablesAt(5)
           Y == TypesAt(5)
           V == RowsWithout(W, FeatureLayerNames)
<1>1. 6 \in 1 .. 11 /\ 6 - 1 = 5
  OBVIOUS
<1>2. Layers[6] = FeatureCreation /\ LayerNames[6] = FeatureLayerNames
  BY DEF Layers, LayerNames
<1>3. TablesAt(6) = T \union FeatureCreation /\ RefsClosed(T) /\ Names(T) \cap FeatureLayerNames = {}
  BY <1>1, <1>2, Before
<1>4. TypesAt(6) = Y
  BY DEF TypesAt
<1>5. "ingestion_runs" \notin FeatureLayerNames
  BY DEF FeatureLayerNames, FeatureNames
<1>6. Kept(6, W, V)
  BY <1>1, <1>2, DroppedRowsAreGone
<1>7. Chain[6].down = Drops(FeatureDropOrder)
  BY ElevenRevisions DEF FeatureLayer, FeatureDropOrder
<1>8. RunsWithout(R, FeatureLayerNames) = R /\ R \cap Y = R
  BY <1>4, <1>5 DEF RunsWithout
<1> HIDE DEF T, Y
<1>9. Execute(Db(T \union FeatureCreation, Y, R, W), Drops(FeatureDropOrder)) = Db(T, Y, RunsWithout(R, FeatureLayerNames), V)
  BY <1>3, FeatureDropped
<1> HIDE DEF V
<1>10. Execute(Db(TablesAt(6), Y, R, W), Chain[6].down) = Db(T, Y, R, V)
  BY <1>3, <1>7, <1>8, <1>9
<1>11. QED
  BY <1>1, <1>4, <1>6, <1>8, <1>10 DEF T, Y

LEMMA DowngradeFromArchive == DowngradeWorks(8)
<1> SUFFICES ASSUME NEW R, NEW W, R \subseteq TypesAt(8), RowsOK(W)
             PROVE  \E V : /\ Kept(8, W, V)
                          /\ Execute(Db(TablesAt(8), TypesAt(8), R, W), Chain[8].down)
                               = Db(TablesAt(8 - 1), TypesAt(8 - 1), R \cap TypesAt(8 - 1), V)
  BY DEF DowngradeWorks
<1> DEFINE T == TablesAt(7)
           Y == TypesAt(7)
           V == RowsWithout(W, ArchiveLayerNames)
<1>1. 8 \in 1 .. 11 /\ 8 - 1 = 7
  OBVIOUS
<1>2. Layers[8] = ArchiveCreation /\ LayerNames[8] = ArchiveLayerNames
  BY DEF Layers, LayerNames
<1>3. TablesAt(8) = T \union ArchiveCreation /\ RefsClosed(T) /\ Names(T) \cap ArchiveLayerNames = {}
  BY <1>1, <1>2, Before
<1>4. TypesAt(8) = Y
  BY DEF TypesAt
<1>5. "ingestion_runs" \notin ArchiveLayerNames
  BY DEF ArchiveLayerNames, ArchiveNames
<1>6. Kept(8, W, V)
  BY <1>1, <1>2, DroppedRowsAreGone
<1>7. Chain[8].down = Drops(ArchiveDropOrder)
  BY ElevenRevisions DEF ArchiveLayer, ArchiveDropOrder
<1>8. RunsWithout(R, ArchiveLayerNames) = R /\ R \cap Y = R
  BY <1>4, <1>5 DEF RunsWithout
<1> HIDE DEF T, Y
<1>9. Execute(Db(T \union ArchiveCreation, Y, R, W), Drops(ArchiveDropOrder)) = Db(T, Y, RunsWithout(R, ArchiveLayerNames), V)
  BY <1>3, ArchiveDropped
<1> HIDE DEF V
<1>10. Execute(Db(TablesAt(8), Y, R, W), Chain[8].down) = Db(T, Y, R, V)
  BY <1>3, <1>7, <1>8, <1>9
<1>11. QED
  BY <1>1, <1>4, <1>6, <1>8, <1>10 DEF T, Y

LEMMA DowngradeFromPortfolio == DowngradeWorks(7)
<1> SUFFICES ASSUME NEW R, NEW W, R \subseteq TypesAt(7), RowsOK(W)
             PROVE  \E V : /\ Kept(7, W, V)
                          /\ Execute(Db(TablesAt(7), TypesAt(7), R, W), Chain[7].down)
                               = Db(TablesAt(7 - 1), TypesAt(7 - 1), R \cap TypesAt(7 - 1), V)
  BY DEF DowngradeWorks
<1> DEFINE T == TablesAt(6)
           Z == FirstTypes \union {"portfolio_import"}
           V == RowsWithout(W, PortfolioLayerNames)
           s == Drops(PortfolioDropOrder)
           c == << ForgetRuns({"portfolio_import"}), Check(FirstTypes) >>
           d == Db(T \union PortfolioCreation, Z, R, W)
<1>1. 7 \in 1 .. 11 /\ 7 - 1 = 6
  OBVIOUS
<1>2. Layers[7] = PortfolioCreation /\ LayerNames[7] = PortfolioLayerNames
  BY DEF Layers, LayerNames
<1>3. TablesAt(7) = T \union PortfolioCreation /\ RefsClosed(T) /\ Names(T) \cap PortfolioLayerNames = {}
  BY <1>1, <1>2, Before
<1>4. TypesAt(7) = Z /\ TypesAt(6) = FirstTypes
  BY DEF TypesAt
<1>5. "ingestion_runs" \notin PortfolioLayerNames /\ "transactions" \in PortfolioLayerNames
  BY DEF PortfolioLayerNames, PortfolioNames
<1>6. Kept(7, W, V)
  BY <1>1, <1>2, DroppedRowsAreGone
<1>7. Chain[7].down = s \o c
  BY ElevenRevisions DEF PortfolioLayer, PortfolioDropOrder
<1>8. IsList(c) /\ \A e : Execute(e, c) = Run(Run(e, ForgetRuns({"portfolio_import"})), Check(FirstTypes))
  BY ExecuteTwo
<1>9. \A row \in V : row[2] \notin {"portfolio_import"}
  BY <1>5, TypesOfRows DEF RowsOK, RowsWithout
<1>10. RunsWithout(R, PortfolioLayerNames) = R
  BY <1>5 DEF RunsWithout
<1>11. R \ {"portfolio_import"} = R \cap FirstTypes
  <2>1. "portfolio_import" \notin FirstTypes
    BY DEF FirstTypes
  <2>2. R \subseteq FirstTypes \union {"portfolio_import"}
    BY <1>4
  <2>3. QED
    BY <2>1, <2>2
<1> HIDE DEF T, Z, s, c
<1>12. IsList(s) /\ Execute(d, s) = Db(T, Z, RunsWithout(R, PortfolioLayerNames), V)
  BY <1>3, PortfolioDropped DEF s
<1> HIDE DEF V, d
<1>13. Run(Db(T, Z, R, V), ForgetRuns({"portfolio_import"})) = Db(T, Z, R \cap FirstTypes, V)
  <2>1. Run(Db(T, Z, R, V), ForgetRuns({"portfolio_import"})) = Db(T, Z, R \ {"portfolio_import"}, V)
    BY <1>9, ForgetRunsRun
  <2>2. QED
    BY <1>11, <2>1, Zenon
<1>14. Run(Db(T, Z, R \cap FirstTypes, V), Check(FirstTypes)) = Db(T, FirstTypes, R \cap FirstTypes, V)
  <2>1. R \cap FirstTypes \subseteq FirstTypes
    OBVIOUS
  <2>2. QED
    BY <2>1, CheckRun
<1>15. Execute(d, Chain[7].down) = Db(T, FirstTypes, R \cap FirstTypes, V)
  <2>1. Execute(d, s \o c) = Execute(Execute(d, s), c)
    BY <1>8, <1>12, ExecuteCat
  <2>2. QED
    BY <1>7, <1>8, <1>10, <1>12, <1>13, <1>14, <2>1, Zenon
<1>16. QED
  BY <1>1, <1>3, <1>4, <1>6, <1>15 DEF T, d

LEMMA DowngradeFromUpdateType == DowngradeWorks(9)
<1> SUFFICES ASSUME NEW R, NEW W, R \subseteq TypesAt(9), RowsOK(W)
             PROVE  \E V : /\ Kept(9, W, V)
                          /\ Execute(Db(TablesAt(9), TypesAt(9), R, W), Chain[9].down)
                               = Db(TablesAt(9 - 1), TypesAt(9 - 1), R \cap TypesAt(9 - 1), V)
  BY DEF DowngradeWorks
<1> DEFINE T == TablesAt(8)
           Z == TypesWithUpdate \ {"update"}
           c == << ForgetRuns({"update"}), Check(Z) >>
           d == Db(T, TypesWithUpdate, R, W)
<1>1. 9 \in 1 .. 11 /\ 9 - 1 = 8
  OBVIOUS
<1>2. TablesAt(9) = T
  <2>1. Layers[9] = {}
    BY DEF Layers
  <2>2. QED
    BY <1>1, <2>1, AtNext
<1>3. TypesAt(9) = TypesWithUpdate /\ TypesAt(8) = Z
  BY DEF TypesAt, TypesWithUpdate, FirstTypes
<1>4. Kept(9, W, W)
  BY DEF Kept
<1>5. Chain[9].down = c
  BY ElevenRevisions DEF UpdateRunType
<1>6. Execute(d, c) = Run(Run(d, ForgetRuns({"update"})), Check(Z))
  BY ExecuteTwo
<1>7. \A row \in W : row[2] \notin {"update"}
  BY TypesOfRows DEF RowsOK
<1>8. R \ {"update"} = R \cap Z
  BY <1>3
<1> HIDE DEF T, Z
<1>9. Run(d, ForgetRuns({"update"})) = Db(T, TypesWithUpdate, R \ {"update"}, W)
  BY <1>7, ForgetRunsRun
<1>10. Run(Db(T, TypesWithUpdate, R \cap Z, W), Check(Z)) = Db(T, Z, R \cap Z, W)
  <2>1. R \cap Z \subseteq Z
    OBVIOUS
  <2>2. QED
    BY <2>1, CheckRun
<1>11. Execute(d, c) = Db(T, Z, R \cap Z, W)
  BY <1>6, <1>8, <1>9, <1>10
<1> HIDE DEF c
<1>12. QED
  BY <1>1, <1>2, <1>3, <1>4, <1>5, <1>11 DEF T

LEMMA DowngradeFromSecurity == DowngradeWorks(10)
<1> SUFFICES ASSUME NEW R, NEW W, R \subseteq TypesAt(10), RowsOK(W)
             PROVE  \E V : /\ Kept(10, W, V)
                          /\ Execute(Db(TablesAt(10), TypesAt(10), R, W), Chain[10].down)
                               = Db(TablesAt(10 - 1), TypesAt(10 - 1), R \cap TypesAt(10 - 1), V)
  BY DEF DowngradeWorks
<1> DEFINE T == TablesAt(9)
           Z == TypesWithUpdate \union SecurityTypes
           P == TypesWithUpdate
           F == SecurityTypes
           U == RowsWithout(W, SecurityLayerNames)
           V == RowsForgetting(U, F)
           s == Drops(SecurityDropOrder)
           c == << ForgetIssues(F), ForgetRuns(F), Check(P) >>
           d == Db(T \union SecurityCreation, Z, R, W)
<1>1. 10 \in 1 .. 11 /\ 10 - 1 = 9 /\ 10 >= 4
  OBVIOUS
<1>2. Layers[10] = SecurityCreation /\ LayerNames[10] = SecurityLayerNames
  BY DEF Layers, LayerNames
<1>3. /\ TablesAt(10) = T \union SecurityCreation /\ RefsClosed(T) /\ Names(T) \cap SecurityLayerNames = {}
      /\ "data_quality_issues" \in Names(T)
  BY <1>1, <1>2, Before
<1>4. TypesAt(10) = Z /\ TypesAt(9) = P
  BY DEF TypesAt
<1>5. "ingestion_runs" \notin SecurityLayerNames
  BY DEF SecurityLayerNames, SecurityNames, MembershipNames
<1>6. F \cap P = {} /\ Z = P \union F /\ F = {"securities", "universe"}
  BY DEF TypesWithUpdate, FirstTypes, SecurityTypes, ResearchTypes
<1>7. Kept(10, W, U)
  BY <1>1, <1>2, DroppedRowsAreGone
<1>8. Kept(10, W, V)
  <2>1. F \cap TypesAt(10 - 1) = {}
    BY <1>1, <1>4, <1>6
  <2> HIDE DEF F, U
  <2>2. QED
    BY <1>7, <2>1, ForgottenRows
<1>9. Chain[10].down = s \o c
  <2>1. Chain[10].down = SecurityDowngrade
    BY ElevenRevisions DEF SecurityLayer
  <2>2. SecurityDrops = s
    BY Zenon DEF SecurityDrops, SecurityDropOrder
  <2>3. SecurityDowngrade = SecurityDrops \o c
    BY Zenon DEF SecurityDowngrade
  <2> HIDE DEF s, c
  <2>4. QED
    BY <2>1, <2>2, <2>3, Zenon
<1>10. IsList(c) /\ \A e : Execute(e, c) = Run(Run(Run(e, ForgetIssues(F)), ForgetRuns(F)), Check(P))
  <2> DEFINE x == ForgetIssues(F)
             y == ForgetRuns(F)
             z == Check(P)
  <2> HIDE DEF x, y, z
  <2>1. IsList(<< x, y, z >>) /\ \A e : Execute(e, << x, y, z >>) = Run(Run(Run(e, x), y), z)
    BY ExecuteThree
  <2>2. QED
    BY <2>1 DEF x, y, z
<1>11. \A row \in V : row[2] \notin F
  <2>1. \A type \in F : Writes(type) \subseteq SecurityLayerNames
    BY <1>6, TypesOfRows DEF SecurityLayerNames, SecurityNames, MembershipNames
  <2>2. QED
    BY <2>1 DEF RowsOK, RowsWithout, RowsForgetting
<1>12. RunsWithout(R, SecurityLayerNames) = R /\ R \ F = R \cap P
  <2>1. R \subseteq Z
    BY <1>4
  <2>2. QED
    BY <1>5, <1>6, <2>1 DEF RunsWithout
<1> HIDE DEF T, Z, P, F, s, c
<1>13. IsList(s) /\ Execute(d, s) = Db(T, Z, RunsWithout(R, SecurityLayerNames), U)
  BY <1>3, SecurityDropped DEF s
<1> HIDE DEF d
<1>14. Run(Db(T, Z, R, U), ForgetIssues(F)) = Db(T, Z, R, V)
  BY <1>3, ForgetIssuesRun
<1> HIDE DEF U, V
<1>15. Run(Db(T, Z, R, V), ForgetRuns(F)) = Db(T, Z, R \cap P, V)
  <2>1. Run(Db(T, Z, R, V), ForgetRuns(F)) = Db(T, Z, R \ F, V)
    BY <1>11, ForgetRunsRun
  <2>2. QED
    BY <1>12, <2>1, Zenon
<1>16. Run(Db(T, Z, R \cap P, V), Check(P)) = Db(T, P, R \cap P, V)
  <2>1. R \cap P \subseteq P
    OBVIOUS
  <2>2. QED
    BY <2>1, CheckRun
<1>17. Execute(d, Chain[10].down) = Db(T, P, R \cap P, V)
  <2>1. Execute(d, s \o c) = Execute(Execute(d, s), c)
    BY <1>10, <1>13, ExecuteCat
  <2>2. QED
    BY <1>9, <1>10, <1>12, <1>13, <1>14, <1>15, <1>16, <2>1, Zenon
<1>18. QED
  BY <1>1, <1>3, <1>4, <1>8, <1>17 DEF T, d

LEMMA DowngradeFromResearch == DowngradeWorks(11)
<1> SUFFICES ASSUME NEW R, NEW W, R \subseteq TypesAt(11), RowsOK(W)
             PROVE  \E V : /\ Kept(11, W, V)
                          /\ Execute(Db(TablesAt(11), TypesAt(11), R, W), Chain[11].down)
                               = Db(TablesAt(11 - 1), TypesAt(11 - 1), R \cap TypesAt(11 - 1), V)
  BY DEF DowngradeWorks
<1> DEFINE T == TablesAt(10)
           Z == TypesWithUpdate \union SecurityTypes \union ResearchTypes
           P == TypesWithUpdate \union SecurityTypes
           F == ResearchTypes
           U == RowsWithout(W, ResearchLayerNames)
           V == RowsForgetting(U, F)
           s == Drops(ResearchDropOrder)
           c == << ForgetIssues(F), ForgetRuns(F), Check(P) >>
           d == Db(T \union ResearchCreation, Z, R, W)
<1>1. 11 \in 1 .. 11 /\ 11 - 1 = 10 /\ 11 >= 4
  OBVIOUS
<1>2. Layers[11] = ResearchCreation /\ LayerNames[11] = ResearchLayerNames
  BY DEF Layers, LayerNames
<1>3. /\ TablesAt(11) = T \union ResearchCreation /\ RefsClosed(T) /\ Names(T) \cap ResearchLayerNames = {}
      /\ "data_quality_issues" \in Names(T)
  BY <1>1, <1>2, Before
<1>4. TypesAt(11) = Z /\ TypesAt(10) = P
  BY DEF TypesAt
<1>5. "ingestion_runs" \notin ResearchLayerNames
  BY DEF ResearchLayerNames, MarketNames, ReturnNames, OutcomeNames, ExperimentNames, RecordNames
<1>6. F \cap P = {} /\ Z = P \union F /\ F = {"bridge", "research_prices", "research_outcomes", "research_snapshot", "experiment"}
  BY DEF TypesWithUpdate, FirstTypes, SecurityTypes, ResearchTypes
<1>7. Kept(11, W, U)
  BY <1>1, <1>2, DroppedRowsAreGone
<1>8. Kept(11, W, V)
  <2>1. F \cap TypesAt(11 - 1) = {}
    BY <1>1, <1>4, <1>6
  <2> HIDE DEF F, U
  <2>2. QED
    BY <1>7, <2>1, ForgottenRows
<1>9. Chain[11].down = s \o c
  <2>1. Chain[11].down = ResearchDowngrade
    BY ElevenRevisions DEF ResearchLayer
  <2>2. ResearchDrops = s
    BY Zenon DEF ResearchDrops, ResearchDropOrder
  <2>3. ResearchDowngrade = ResearchDrops \o c
    BY Zenon DEF ResearchDowngrade
  <2> HIDE DEF s, c
  <2>4. QED
    BY <2>1, <2>2, <2>3, Zenon
<1>10. IsList(c) /\ \A e : Execute(e, c) = Run(Run(Run(e, ForgetIssues(F)), ForgetRuns(F)), Check(P))
  <2> DEFINE x == ForgetIssues(F)
             y == ForgetRuns(F)
             z == Check(P)
  <2> HIDE DEF x, y, z
  <2>1. IsList(<< x, y, z >>) /\ \A e : Execute(e, << x, y, z >>) = Run(Run(Run(e, x), y), z)
    BY ExecuteThree
  <2>2. QED
    BY <2>1 DEF x, y, z
<1>11. \A row \in V : row[2] \notin F
  <2>1. \A type \in F : Writes(type) \subseteq ResearchLayerNames
    BY <1>6, TypesOfRows DEF ResearchLayerNames, MarketNames, ReturnNames, OutcomeNames, ExperimentNames, RecordNames
  <2>2. QED
    BY <2>1 DEF RowsOK, RowsWithout, RowsForgetting
<1>12. RunsWithout(R, ResearchLayerNames) = R /\ R \ F = R \cap P
  <2>1. R \subseteq Z
    BY <1>4
  <2>2. QED
    BY <1>5, <1>6, <2>1 DEF RunsWithout
<1> HIDE DEF T, Z, P, F, s, c
<1>13. IsList(s) /\ Execute(d, s) = Db(T, Z, RunsWithout(R, ResearchLayerNames), U)
  BY <1>3, ResearchDropped DEF s
<1> HIDE DEF d
<1>14. Run(Db(T, Z, R, U), ForgetIssues(F)) = Db(T, Z, R, V)
  BY <1>3, ForgetIssuesRun
<1> HIDE DEF U, V
<1>15. Run(Db(T, Z, R, V), ForgetRuns(F)) = Db(T, Z, R \cap P, V)
  <2>1. Run(Db(T, Z, R, V), ForgetRuns(F)) = Db(T, Z, R \ F, V)
    BY <1>11, ForgetRunsRun
  <2>2. QED
    BY <1>12, <2>1, Zenon
<1>16. Run(Db(T, Z, R \cap P, V), Check(P)) = Db(T, P, R \cap P, V)
  <2>1. R \cap P \subseteq P
    OBVIOUS
  <2>2. QED
    BY <2>1, CheckRun
<1>17. Execute(d, Chain[11].down) = Db(T, P, R \cap P, V)
  <2>1. Execute(d, s \o c) = Execute(Execute(d, s), c)
    BY <1>10, <1>13, ExecuteCat
  <2>2. QED
    BY <1>9, <1>10, <1>12, <1>13, <1>14, <1>15, <1>16, <2>1, Zenon
<1>18. QED
  BY <1>1, <1>3, <1>4, <1>8, <1>17 DEF T, d

LEMMA DowngradesWork == \A n \in 1 .. 11 : DowngradeWorks(n)
<1>1. 1 .. 11 = {1, 2, 3, 4, 5, 6, 7, 8, 9, 10, 11}
  OBVIOUS
<1>2. QED
  BY <1>1, DowngradeFromBaseline, DowngradeFromReference, DowngradeFromIngestion, DowngradeFromMacro,
     DowngradeFromFundamentals, DowngradeFromFeature, DowngradeFromPortfolio, DowngradeFromArchive,
     DowngradeFromUpdateType, DowngradeFromSecurity, DowngradeFromResearch

-----------------------------------------------------------------------------
(* What the newest revision has is what the code expects. *)

LEMMA TableName == \A name, refs, key : Table(name, refs, key).name = name /\ Table(name, refs, key).key = key
  BY DEF Table

LEMMA ReferenceTablesAre ==
    ReferenceRest \union {Sectors({"instruments"})} =
        { Table("sectors", {"instruments"}, {"name"}),
          Table("trading_calendar", {}, {"exchange", "calendar_date"}),
          Table("industries", {"sectors"}, {"sector_id", "name"}),
          Table("instruments", {"industries", "sectors"}, {"symbol"}),
          Table("symbol_history", {"instruments"}, {"instrument_id", "valid_from"}) }
<1>1. 2 .. 5 = {2, 3, 4, 5}
  OBVIOUS
<1>2. QED
  BY <1>1 DEF ReferenceRest, Sectors, ReferenceTables, Create

LEMMA IngestionTablesAre ==
    Made(IngestionTables, 4) =
        { Table("data_quality_issues", {"ingestion_runs"}, {}),
          Table("data_revisions", {"ingestion_runs"}, {}),
          Table("corporate_actions", {"ingestion_runs", "instruments"}, {"instrument_id", "action_type", "ex_date"}),
          Table("daily_prices", {"ingestion_runs", "instruments"}, {"instrument_id", "price_date"}) }
<1> DEFINE s == IngestionTables
<1>1. 1 .. 4 = {1, 2, 3, 4}
  OBVIOUS
<1>2. s[1].table = Table("data_quality_issues", {"ingestion_runs"}, {})
  BY DEF IngestionTables, Create
<1>3. s[2].table = Table("data_revisions", {"ingestion_runs"}, {})
  BY DEF IngestionTables, Create
<1>4. s[3].table = Table("corporate_actions", {"ingestion_runs", "instruments"}, {"instrument_id", "action_type", "ex_date"})
  BY DEF IngestionTables, Create
<1>5. s[4].table = Table("daily_prices", {"ingestion_runs", "instruments"}, {"instrument_id", "price_date"})
  BY DEF IngestionTables, Create
<1> HIDE DEF s
<1>6. { s[j].table : j \in {1, 2, 3, 4} } =
        { Table("data_quality_issues", {"ingestion_runs"}, {}),
          Table("data_revisions", {"ingestion_runs"}, {}),
          Table("corporate_actions", {"ingestion_runs", "instruments"}, {"instrument_id", "action_type", "ex_date"}),
          Table("daily_prices", {"ingestion_runs", "instruments"}, {"instrument_id", "price_date"}) }
  BY <1>2, <1>3, <1>4, <1>5
<1>7. QED
  BY <1>1, <1>6 DEF Made, s

LEMMA MacroTablesAre ==
    Made(MacroLayer.up, 2) =
        { Table("macro_series", {}, {"provider", "provider_code"}),
          Table("macro_observations", {"ingestion_runs", "macro_series"}, {"series_id", "obs_date"}) }
<1> DEFINE s == MacroLayer.up
<1>1. 1 .. 2 = {1, 2}
  OBVIOUS
<1>2. s[1].table = Table("macro_series", {}, {"provider", "provider_code"})
  BY DEF MacroLayer, Create
<1>3. s[2].table = Table("macro_observations", {"ingestion_runs", "macro_series"}, {"series_id", "obs_date"})
  BY DEF MacroLayer, Create
<1> HIDE DEF s
<1>4. { s[j].table : j \in {1, 2} } =
        { Table("macro_series", {}, {"provider", "provider_code"}),
          Table("macro_observations", {"ingestion_runs", "macro_series"}, {"series_id", "obs_date"}) }
  BY <1>2, <1>3
<1>5. QED
  BY <1>1, <1>4 DEF Made, s

LEMMA FundamentalsTablesAre ==
    Made(FundamentalsLayer.up, 3) =
        { Table("company_fundamentals", {"ingestion_runs", "instruments"}, {"instrument_id", "as_of_date"}),
          Table("earnings_observations", {"ingestion_runs", "instruments"}, {"instrument_id", "earnings_date", "observed_at"}),
          Table("v_earnings_current", {"earnings_observations"}, {}) }
<1> DEFINE s == FundamentalsLayer.up
<1>1. 1 .. 3 = {1, 2, 3}
  OBVIOUS
<1>2. s[1].table = Table("company_fundamentals", {"ingestion_runs", "instruments"}, {"instrument_id", "as_of_date"})
  BY DEF FundamentalsLayer, Create
<1>3. s[2].table = Table("earnings_observations", {"ingestion_runs", "instruments"}, {"instrument_id", "earnings_date", "observed_at"})
  BY DEF FundamentalsLayer, Create
<1>4. s[3].table = Table("v_earnings_current", {"earnings_observations"}, {})
  BY DEF FundamentalsLayer, Create
<1> HIDE DEF s
<1>5. { s[j].table : j \in {1, 2, 3} } =
        { Table("company_fundamentals", {"ingestion_runs", "instruments"}, {"instrument_id", "as_of_date"}),
          Table("earnings_observations", {"ingestion_runs", "instruments"}, {"instrument_id", "earnings_date", "observed_at"}),
          Table("v_earnings_current", {"earnings_observations"}, {}) }
  BY <1>2, <1>3, <1>4
<1>6. QED
  BY <1>1, <1>5 DEF Made, s

LEMMA FeatureTablesAre ==
    Made(FeatureLayer.up, 3) =
        { Table("feature_definitions", {}, {"name", "version"}),
          Table("feature_store_daily", {"feature_definitions", "instruments"}, {"instrument_id", "feature_date", "feature_id"}),
          Table("feature_store_market_daily", {"feature_definitions"}, {"feature_date", "feature_id"}) }
<1> DEFINE s == FeatureLayer.up
<1>1. 1 .. 3 = {1, 2, 3}
  OBVIOUS
<1>2. s[1].table = Table("feature_definitions", {}, {"name", "version"})
  BY DEF FeatureLayer, Create
<1>3. s[2].table = Table("feature_store_daily", {"feature_definitions", "instruments"}, {"instrument_id", "feature_date", "feature_id"})
  <2>1. {"instruments", "feature_definitions"} = {"feature_definitions", "instruments"}
    OBVIOUS
  <2>2. s[2].table = Table("feature_store_daily", {"instruments", "feature_definitions"}, {"instrument_id", "feature_date", "feature_id"})
    BY DEF FeatureLayer, Create
  <2>3. QED
    BY <2>1, <2>2, Zenon
<1>4. s[3].table = Table("feature_store_market_daily", {"feature_definitions"}, {"feature_date", "feature_id"})
  BY DEF FeatureLayer, Create
<1> HIDE DEF s
<1>5. { s[j].table : j \in {1, 2, 3} } =
        { Table("feature_definitions", {}, {"name", "version"}),
          Table("feature_store_daily", {"feature_definitions", "instruments"}, {"instrument_id", "feature_date", "feature_id"}),
          Table("feature_store_market_daily", {"feature_definitions"}, {"feature_date", "feature_id"}) }
  BY <1>2, <1>3, <1>4
<1>6. QED
  BY <1>1, <1>5 DEF Made, s

LEMMA PortfolioTablesAre ==
    Made(PortfolioTables, 5) =
        { Table("portfolios", {}, {"name"}),
          Table("transactions", {"ingestion_runs", "instruments", "portfolios"}, {"portfolio_id", "external_id"}),
          Table("lots", {"instruments", "portfolios", "transactions"}, {}),
          Table("lot_closures", {"lots", "transactions"}, {}),
          Table("position_snapshots", {"instruments", "portfolios"}, {"portfolio_id", "instrument_id", "snapshot_date"}) }
<1> DEFINE s == PortfolioTables
<1>1. 1 .. 5 = {1, 2, 3, 4, 5}
  OBVIOUS
<1>2. s[1].table = Table("portfolios", {}, {"name"})
  BY DEF PortfolioTables, Create
<1>3. s[2].table = Table("transactions", {"ingestion_runs", "instruments", "portfolios"}, {"portfolio_id", "external_id"})
  <2>1. {"portfolios", "instruments", "ingestion_runs"} = {"ingestion_runs", "instruments", "portfolios"}
    OBVIOUS
  <2>2. s[2].table = Table("transactions", {"portfolios", "instruments", "ingestion_runs"}, {"portfolio_id", "external_id"})
    BY DEF PortfolioTables, Create, ExternalId
  <2>3. QED
    BY <2>1, <2>2, Zenon
<1>4. s[3].table = Table("lots", {"instruments", "portfolios", "transactions"}, {})
  <2>1. {"portfolios", "instruments", "transactions"} = {"instruments", "portfolios", "transactions"}
    OBVIOUS
  <2>2. s[3].table = Table("lots", {"portfolios", "instruments", "transactions"}, {})
    BY DEF PortfolioTables, Create
  <2>3. QED
    BY <2>1, <2>2, Zenon
<1>5. s[4].table = Table("lot_closures", {"lots", "transactions"}, {})
  BY DEF PortfolioTables, Create
<1>6. s[5].table = Table("position_snapshots", {"instruments", "portfolios"}, {"portfolio_id", "instrument_id", "snapshot_date"})
  <2>1. {"portfolios", "instruments"} = {"instruments", "portfolios"}
    OBVIOUS
  <2>2. s[5].table = Table("position_snapshots", {"portfolios", "instruments"}, {"portfolio_id", "instrument_id", "snapshot_date"})
    BY DEF PortfolioTables, Create
  <2>3. QED
    BY <2>1, <2>2, Zenon
<1> HIDE DEF s
<1>7. { s[j].table : j \in {1, 2, 3, 4, 5} } =
        { Table("portfolios", {}, {"name"}),
          Table("transactions", {"ingestion_runs", "instruments", "portfolios"}, {"portfolio_id", "external_id"}),
          Table("lots", {"instruments", "portfolios", "transactions"}, {}),
          Table("lot_closures", {"lots", "transactions"}, {}),
          Table("position_snapshots", {"instruments", "portfolios"}, {"portfolio_id", "instrument_id", "snapshot_date"}) }
  BY <1>2, <1>3, <1>4, <1>5, <1>6
<1>8. QED
  BY <1>1, <1>7 DEF Made, s

LEMMA ArchiveTablesAre ==
    Made(ArchiveLayer.up, 2) =
        { Table("predictions", {"instruments"}, {"instrument_id", "portfolio_key", "as_of", "horizon", "trim_engine_version"}),
          Table("prediction_outcomes", {"predictions"}, {}) }
<1> DEFINE s == ArchiveLayer.up
<1>1. 1 .. 2 = {1, 2}
  OBVIOUS
<1>2. s[1].table = Table("predictions", {"instruments"}, {"instrument_id", "portfolio_key", "as_of", "horizon", "trim_engine_version"})
  BY DEF ArchiveLayer, Create
<1>3. s[2].table = Table("prediction_outcomes", {"predictions"}, {})
  BY DEF ArchiveLayer, Create
<1> HIDE DEF s
<1>4. { s[j].table : j \in {1, 2} } =
        { Table("predictions", {"instruments"}, {"instrument_id", "portfolio_key", "as_of", "horizon", "trim_engine_version"}),
          Table("prediction_outcomes", {"predictions"}, {}) }
  BY <1>2, <1>3
<1>5. QED
  BY <1>1, <1>4 DEF Made, s

LEMMA SecurityTablesAre ==
    Made(SecurityTables, 4) =
        { Table("universe_definition", {}, {"name", "version"}),
          Table("security_master", {"ingestion_runs"}, {"source", "source_security_id"}),
          Table("delisting_event", {"ingestion_runs", "security_master"}, {}),
          Table("historical_classification", {"ingestion_runs", "security_master"}, {"security_id", "classification_scheme", "valid_from"}) }
<1> DEFINE s == SecurityTables
<1>1. 1 .. 4 = {1, 2, 3, 4}
  OBVIOUS
<1>2. s[1].table = Table("universe_definition", {}, {"name", "version"})
  BY DEF SecurityTables, Create
<1>3. s[2].table = Table("security_master", {"ingestion_runs"}, {"source", "source_security_id"})
  BY DEF SecurityTables, Create
<1>4. s[3].table = Table("delisting_event", {"ingestion_runs", "security_master"}, {})
  BY DEF SecurityTables, Create
<1>5. s[4].table = Table("historical_classification", {"ingestion_runs", "security_master"}, {"security_id", "classification_scheme", "valid_from"})
  BY DEF SecurityTables, Create
<1> HIDE DEF s
<1>6. { s[j].table : j \in {1, 2, 3, 4} } =
        { Table("universe_definition", {}, {"name", "version"}),
          Table("security_master", {"ingestion_runs"}, {"source", "source_security_id"}),
          Table("delisting_event", {"ingestion_runs", "security_master"}, {}),
          Table("historical_classification", {"ingestion_runs", "security_master"}, {"security_id", "classification_scheme", "valid_from"}) }
  BY <1>2, <1>3, <1>4, <1>5
<1>7. QED
  BY <1>1, <1>6 DEF Made, s

LEMMA MembershipTablesAre ==
    Made(MembershipTables, 3) =
        { Table("security_identifier_history", {"ingestion_runs", "security_master"}, {"security_id", "identifier_type", "valid_from"}),
          Table("security_lifecycle_event", {"ingestion_runs", "security_master"}, {"security_id", "event_type", "effective_date"}),
          Table("universe_membership", {"ingestion_runs", "security_master", "universe_definition"}, {"universe_definition_id", "security_id", "membership_date"}) }
<1> DEFINE s == MembershipTables
<1>1. 1 .. 3 = {1, 2, 3}
  OBVIOUS
<1>2. s[1].table = Table("security_identifier_history", {"ingestion_runs", "security_master"}, {"security_id", "identifier_type", "valid_from"})
  BY DEF MembershipTables, Create
<1>3. s[2].table = Table("security_lifecycle_event", {"ingestion_runs", "security_master"}, {"security_id", "event_type", "effective_date"})
  BY DEF MembershipTables, Create
<1>4. s[3].table = Table("universe_membership", {"ingestion_runs", "security_master", "universe_definition"}, {"universe_definition_id", "security_id", "membership_date"})
  BY DEF MembershipTables, Create
<1> HIDE DEF s
<1>5. { s[j].table : j \in {1, 2, 3} } =
        { Table("security_identifier_history", {"ingestion_runs", "security_master"}, {"security_id", "identifier_type", "valid_from"}),
          Table("security_lifecycle_event", {"ingestion_runs", "security_master"}, {"security_id", "event_type", "effective_date"}),
          Table("universe_membership", {"ingestion_runs", "security_master", "universe_definition"}, {"universe_definition_id", "security_id", "membership_date"}) }
  BY <1>2, <1>3, <1>4
<1>6. QED
  BY <1>1, <1>5 DEF Made, s

LEMMA MarketTablesAre ==
    Made(MarketTables, 2) =
        { Table("instrument_security_map", {"ingestion_runs", "instruments", "security_master"}, {}),
          Table("security_price_daily", {"ingestion_runs", "security_master"}, {"security_id", "trade_date", "source", "data_version"}) }
<1> DEFINE s == MarketTables
<1>1. 1 .. 2 = {1, 2}
  OBVIOUS
<1>2. s[1].table = Table("instrument_security_map", {"ingestion_runs", "instruments", "security_master"}, {})
  BY DEF MarketTables, Create
<1>3. s[2].table = Table("security_price_daily", {"ingestion_runs", "security_master"}, {"security_id", "trade_date", "source", "data_version"})
  BY DEF MarketTables, Create
<1> HIDE DEF s
<1>4. { s[j].table : j \in {1, 2} } =
        { Table("instrument_security_map", {"ingestion_runs", "instruments", "security_master"}, {}),
          Table("security_price_daily", {"ingestion_runs", "security_master"}, {"security_id", "trade_date", "source", "data_version"}) }
  BY <1>2, <1>3
<1>5. QED
  BY <1>1, <1>4 DEF Made, s

LEMMA ReturnTablesAre ==
    Made(ReturnTables, 3) =
        { Table("security_market_snapshot", {"ingestion_runs", "security_master"}, {"security_id", "snapshot_date", "source", "data_version"}),
          Table("benchmark_return_daily", {"ingestion_runs"}, {"benchmark_key", "trade_date", "source", "data_version"}),
          Table("security_return_daily", {"ingestion_runs", "security_master"}, {"security_id", "trade_date", "source", "data_version", "calculation_version"}) }
<1> DEFINE s == ReturnTables
<1>1. 1 .. 3 = {1, 2, 3}
  OBVIOUS
<1>2. s[1].table = Table("security_market_snapshot", {"ingestion_runs", "security_master"}, {"security_id", "snapshot_date", "source", "data_version"})
  BY DEF ReturnTables, Create
<1>3. s[2].table = Table("benchmark_return_daily", {"ingestion_runs"}, {"benchmark_key", "trade_date", "source", "data_version"})
  BY DEF ReturnTables, Create
<1>4. s[3].table = Table("security_return_daily", {"ingestion_runs", "security_master"}, {"security_id", "trade_date", "source", "data_version", "calculation_version"})
  BY DEF ReturnTables, Create
<1> HIDE DEF s
<1>5. { s[j].table : j \in {1, 2, 3} } =
        { Table("security_market_snapshot", {"ingestion_runs", "security_master"}, {"security_id", "snapshot_date", "source", "data_version"}),
          Table("benchmark_return_daily", {"ingestion_runs"}, {"benchmark_key", "trade_date", "source", "data_version"}),
          Table("security_return_daily", {"ingestion_runs", "security_master"}, {"security_id", "trade_date", "source", "data_version", "calculation_version"}) }
  BY <1>2, <1>3, <1>4
<1>6. QED
  BY <1>1, <1>5 DEF Made, s

LEMMA OutcomeTablesAre ==
    Made(OutcomeTables, 2) =
        { Table("terminal_outcome", {"ingestion_runs", "security_master"}, {}),
          Table("research_dataset_snapshot", {"universe_definition"}, {"snapshot_name", "snapshot_version"}) }
<1> DEFINE s == OutcomeTables
<1>1. 1 .. 2 = {1, 2}
  OBVIOUS
<1>2. s[1].table = Table("terminal_outcome", {"ingestion_runs", "security_master"}, {})
  BY DEF OutcomeTables, Create
<1>3. s[2].table = Table("research_dataset_snapshot", {"universe_definition"}, {"snapshot_name", "snapshot_version"})
  BY DEF OutcomeTables, Create
<1> HIDE DEF s
<1>4. { s[j].table : j \in {1, 2} } =
        { Table("terminal_outcome", {"ingestion_runs", "security_master"}, {}),
          Table("research_dataset_snapshot", {"universe_definition"}, {"snapshot_name", "snapshot_version"}) }
  BY <1>2, <1>3
<1>5. QED
  BY <1>1, <1>4 DEF Made, s

LEMMA ExperimentTablesAre ==
    Made(ExperimentTables, 3) =
        { Table("forward_return", {"ingestion_runs", "security_master"}, {"security_id", "as_of_date", "horizon", "snapshot_checksum"}),
          Table("experiment_run", {"research_dataset_snapshot"}, {"experiment_id", "run_number"}),
          Table("experiment_run_metric", {"experiment_run"}, {}) }
<1> DEFINE s == ExperimentTables
<1>1. 1 .. 3 = {1, 2, 3}
  OBVIOUS
<1>2. s[1].table = Table("forward_return", {"ingestion_runs", "security_master"}, {"security_id", "as_of_date", "horizon", "snapshot_checksum"})
  BY DEF ExperimentTables, Create
<1>3. s[2].table = Table("experiment_run", {"research_dataset_snapshot"}, {"experiment_id", "run_number"})
  BY DEF ExperimentTables, Create
<1>4. s[3].table = Table("experiment_run_metric", {"experiment_run"}, {})
  BY DEF ExperimentTables, Create
<1> HIDE DEF s
<1>5. { s[j].table : j \in {1, 2, 3} } =
        { Table("forward_return", {"ingestion_runs", "security_master"}, {"security_id", "as_of_date", "horizon", "snapshot_checksum"}),
          Table("experiment_run", {"research_dataset_snapshot"}, {"experiment_id", "run_number"}),
          Table("experiment_run_metric", {"experiment_run"}, {}) }
  BY <1>2, <1>3, <1>4
<1>6. QED
  BY <1>1, <1>5 DEF Made, s

LEMMA RecordTablesAre ==
    Made(RecordTables, 3) =
        { Table("experiment_run_decision", {"experiment_run"}, {}),
          Table("feature_parity_record", {}, {}),
          Table("data_divergence_record", {"security_master"}, {}) }
<1> DEFINE s == RecordTables
<1>1. 1 .. 3 = {1, 2, 3}
  OBVIOUS
<1>2. s[1].table = Table("experiment_run_decision", {"experiment_run"}, {})
  BY DEF RecordTables, Create
<1>3. s[2].table = Table("feature_parity_record", {}, {})
  BY DEF RecordTables, Create
<1>4. s[3].table = Table("data_divergence_record", {"security_master"}, {})
  BY DEF RecordTables, Create
<1> HIDE DEF s
<1>5. { s[j].table : j \in {1, 2, 3} } =
        { Table("experiment_run_decision", {"experiment_run"}, {}),
          Table("feature_parity_record", {}, {}),
          Table("data_divergence_record", {"security_master"}, {}) }
  BY <1>2, <1>3, <1>4
<1>6. QED
  BY <1>1, <1>5 DEF Made, s

LEMMA TablesAtHead ==
    TablesAt(11) = OrmTables \union {Table("v_earnings_current", {"earnings_observations"}, {})}
<1>1. 1 .. 11 = {1, 2, 3, 4, 5, 6, 7, 8, 9, 10, 11}
  OBVIOUS
<1>2. /\ Layers[1] = {} /\ Layers[2] = ReferenceRest \union {Sectors({"instruments"})}
      /\ Layers[3] = IngestionCreation /\ Layers[4] = MacroCreation /\ Layers[5] = FundamentalsCreation
      /\ Layers[6] = FeatureCreation /\ Layers[7] = PortfolioCreation /\ Layers[8] = ArchiveCreation
      /\ Layers[9] = {} /\ Layers[10] = SecurityCreation /\ Layers[11] = ResearchCreation
  BY DEF Layers
<1>3. TablesAt(11) = (ReferenceRest \union {Sectors({"instruments"})}) \union IngestionCreation \union MacroCreation
          \union FundamentalsCreation \union FeatureCreation \union PortfolioCreation \union ArchiveCreation
          \union SecurityCreation \union ResearchCreation
  BY <1>1, <1>2 DEF TablesAt
<1>4. QED
  BY <1>3, ReferenceTablesAre, IngestionTablesAre, MacroTablesAre, FundamentalsTablesAre, FeatureTablesAre,
     PortfolioTablesAre, ArchiveTablesAre, SecurityTablesAre, MembershipTablesAre, MarketTablesAre, ReturnTablesAre,
     OutcomeTablesAre, ExperimentTablesAre, RecordTablesAre
  DEF IngestionCreation, MacroCreation, FundamentalsCreation, FeatureCreation, PortfolioCreation, ArchiveCreation,
      SecurityCreation, ResearchCreation, OrmTables, ReferenceModels, IngestionModels, FeatureModels, PortfolioModels,
      SecurityModels, UniverseModels, MarketModels, OutcomeModels, ExperimentModels

LEMMA TypesAtHead == TypesAt(11) = RunType
<1>1. TypesAt(11) = TypesWithUpdate \union SecurityTypes \union ResearchTypes
  BY DEF TypesAt
<1>2. QED
  BY <1>1 DEF TypesWithUpdate, SecurityTypes, ResearchTypes, RunType

LEMMA NoOrmView == \A t \in OrmTables : t.name # "v_earnings_current"
<1>1. /\ \A t \in ReferenceModels : t.name # "v_earnings_current"
      /\ \A t \in IngestionModels : t.name # "v_earnings_current"
      /\ \A t \in FeatureModels : t.name # "v_earnings_current"
  BY TableName DEF ReferenceModels, IngestionModels, FeatureModels
<1>2. /\ \A t \in PortfolioModels : t.name # "v_earnings_current"
      /\ \A t \in SecurityModels : t.name # "v_earnings_current"
      /\ \A t \in UniverseModels : t.name # "v_earnings_current"
  BY TableName DEF PortfolioModels, SecurityModels, UniverseModels
<1>3. /\ \A t \in MarketModels : t.name # "v_earnings_current"
      /\ \A t \in OutcomeModels : t.name # "v_earnings_current"
      /\ \A t \in ExperimentModels : t.name # "v_earnings_current"
  BY TableName DEF MarketModels, OutcomeModels, ExperimentModels
<1>4. QED
  BY <1>1, <1>2, <1>3 DEF OrmTables

LEMMA UpsertsHaveKeys ==
    \A u \in Upserts : \E t \in OrmTables : t.name = u[1] /\ t.key = u[2]
<1> DEFINE Keyed(name, key) == \E t \in OrmTables : t.name = name /\ t.key = key
<1>1. \A name, refs, key : Table(name, refs, key) \in OrmTables => Keyed(name, key)
  BY TableName
<1>2. /\ Table("trading_calendar", {}, {"exchange", "calendar_date"}) \in OrmTables
      /\ Table("daily_prices", {"ingestion_runs", "instruments"}, {"instrument_id", "price_date"}) \in OrmTables
      /\ Table("corporate_actions", {"ingestion_runs", "instruments"}, {"instrument_id", "action_type", "ex_date"}) \in OrmTables
  BY DEF OrmTables, ReferenceModels
<1>3. Table("macro_observations", {"ingestion_runs", "macro_series"}, {"series_id", "obs_date"}) \in OrmTables
  BY DEF OrmTables, IngestionModels
<1>4. /\ Table("feature_store_daily", {"feature_definitions", "instruments"}, {"instrument_id", "feature_date", "feature_id"}) \in OrmTables
      /\ Table("feature_store_market_daily", {"feature_definitions"}, {"feature_date", "feature_id"}) \in OrmTables
  BY DEF OrmTables, FeatureModels
<1>5. /\ Table("position_snapshots", {"instruments", "portfolios"}, {"portfolio_id", "instrument_id", "snapshot_date"}) \in OrmTables
      /\ Table("predictions", {"instruments"}, {"instrument_id", "portfolio_key", "as_of", "horizon", "trim_engine_version"}) \in OrmTables
  BY DEF OrmTables, PortfolioModels
<1>6. /\ Keyed("trading_calendar", {"exchange", "calendar_date"})
      /\ Keyed("daily_prices", {"instrument_id", "price_date"})
      /\ Keyed("corporate_actions", {"instrument_id", "action_type", "ex_date"})
      /\ Keyed("macro_observations", {"series_id", "obs_date"})
      /\ Keyed("feature_store_daily", {"instrument_id", "feature_date", "feature_id"})
      /\ Keyed("feature_store_market_daily", {"feature_date", "feature_id"})
      /\ Keyed("position_snapshots", {"portfolio_id", "instrument_id", "snapshot_date"})
      /\ Keyed("predictions", {"instrument_id", "portfolio_key", "as_of", "horizon", "trim_engine_version"})
  <2> HIDE DEF Keyed
  <2>1. QED
    BY <1>1, <1>2, <1>3, <1>4, <1>5, Zenon
<1> HIDE DEF Keyed
<1>7. \A u \in Upserts : Keyed(u[1], u[2])
  BY <1>6 DEF Upserts
<1>8. QED
  BY <1>7 DEF Keyed

\* A revision allows every run type that the one before it allows.
LEMMA TypesGrow ==
    ASSUME NEW n \in 1 .. 11
    PROVE  TypesAt(n - 1) \subseteq TypesAt(n)
<1>1. 1 .. 11 = {1, 2, 3, 4, 5, 6, 7, 8, 9, 10, 11}
  OBVIOUS
<1>2. /\ TypesAt(0) = {} /\ TypesAt(1) = {} /\ TypesAt(2) = {}
      /\ \A k \in {3, 4, 5, 6} : TypesAt(k) = FirstTypes
      /\ \A k \in {7, 8} : TypesAt(k) = FirstTypes \union {"portfolio_import"}
      /\ TypesAt(9) = TypesWithUpdate
      /\ TypesAt(10) = TypesWithUpdate \union SecurityTypes
      /\ TypesAt(11) = TypesWithUpdate \union SecurityTypes \union ResearchTypes
  BY DEF TypesAt
<1>3. FirstTypes \union {"portfolio_import"} \subseteq TypesWithUpdate
  BY DEF TypesWithUpdate
<1> HIDE DEF TypesAt
<1>4. QED
  BY <1>1, <1>2, <1>3

-----------------------------------------------------------------------------
(* The schema a fresh database gets. *)

LEMMA FreshIs ==
    \A n \in 0 .. Newest : Fresh[n] = Db(TablesAt(n), TypesAt(n), {}, {})
<1>1. Newest = 11
  BY ElevenRevisions
<1> DEFINE f == [ n \in 0 .. 11 |-> Db(TablesAt(n), TypesAt(n), {}, {}) ]
           IsFresh(g) == g = [ n \in 0 .. Newest |-> IF n = 0 THEN NoDatabase ELSE Execute(g[n - 1], Chain[n].up) ]
<1>2. IsFresh(f)
  <2> DEFINE h == [ n \in 0 .. 11 |-> IF n = 0 THEN NoDatabase ELSE Execute(f[n - 1], Chain[n].up) ]
  <2>1. ASSUME NEW n \in 0 .. 11 PROVE f[n] = h[n]
    <3>1. CASE n = 0
      <4>1. f[0] = Db({}, {}, {}, {})
        BY AtZero
      <4>2. Db({}, {}, {}, {}) = NoDatabase
        BY Zenon DEF Db, Database, NoDatabase
      <4>3. h[n] = NoDatabase
        BY <3>1
      <4>4. QED
        BY <3>1, <4>1, <4>2, <4>3
    <3>2. CASE n # 0
      <4>1. n \in 1 .. 11 /\ n - 1 \in 0 .. 11
        BY <3>2
      <4>2. UpgradeWorks(n)
        BY <4>1, UpgradesWork
      <4>3. {} \subseteq TypesAt(n - 1)
        OBVIOUS
      <4>4. Execute(Db(TablesAt(n - 1), TypesAt(n - 1), {}, {}), Chain[n].up) = Db(TablesAt(n), TypesAt(n), {}, {})
        BY <4>2, <4>3 DEF UpgradeWorks
      <4>5. f[n - 1] = Db(TablesAt(n - 1), TypesAt(n - 1), {}, {}) /\ f[n] = Db(TablesAt(n), TypesAt(n), {}, {})
        BY <4>1
      <4> HIDE DEF f
      <4>6. h[n] = Execute(f[n - 1], Chain[n].up)
        BY <3>2
      <4> HIDE DEF h
      <4>7. QED
        BY <4>4, <4>5, <4>6
    <3>3. QED
      BY <3>1, <3>2
  <2>2. f = [ n \in 0 .. 11 |-> f[n] ] /\ h = [ n \in 0 .. 11 |-> h[n] ]
    OBVIOUS
  <2> HIDE DEF f, h
  <2>3. f = h
    BY <2>1, <2>2
  <2>4. QED
    BY <1>1, <2>3 DEF h
<1>3. IsFresh(Fresh)
  <2>1. Fresh = CHOOSE g : IsFresh(g)
    BY DEF Fresh
  <2> HIDE DEF f
  <2>2. QED
    BY <1>2, <2>1, Zenon
<1>4. \A n \in 0 .. 11 : Fresh[n] = IF n = 0 THEN NoDatabase ELSE Execute(Fresh[n - 1], Chain[n].up)
  BY <1>1, <1>3
<1>5. \A n \in 0 .. 11 : f[n] = IF n = 0 THEN NoDatabase ELSE Execute(f[n - 1], Chain[n].up)
  <2> HIDE DEF f
  <2>1. QED
    BY <1>1, <1>2
<1> DEFINE Wrong == { n \in Nat : n \in 0 .. 11 /\ Fresh[n] # f[n] }
<1> HIDE DEF f
<1>6. \A n \in Wrong : \E m \in Wrong : m < n
  <2> SUFFICES ASSUME NEW n \in Wrong PROVE \E m \in Wrong : m < n
    OBVIOUS
  <2>1. n # 0
    BY <1>4, <1>5
  <2>2. n - 1 \in 0 .. 11 /\ n - 1 \in Nat /\ n - 1 < n
    BY <2>1
  <2>3. Fresh[n - 1] # f[n - 1]
    BY <1>4, <1>5, <2>1
  <2>4. QED
    BY <2>2, <2>3
<1>7. Wrong = {}
  <2>1. Wrong \subseteq Nat
    OBVIOUS
  <2> HIDE DEF Wrong
  <2>2. QED
    BY <1>6, <2>1, NumberDescent
<1>8. \A n \in 0 .. 11 : Fresh[n] = f[n]
  BY <1>7
<1>9. QED
  BY <1>1, <1>8 DEF f

-----------------------------------------------------------------------------
(* The inductive invariant: the database is the one of its revision, with  *)
(* runs of the types allowed there and rows their types write.             *)

SchemaInv ==
    /\ revision \in 0 .. Newest
    /\ database = Db(TablesAt(revision), TypesAt(revision), database.runs, database.rows)
    /\ database.runs \subseteq TypesAt(revision)
    /\ RowsOK(database.rows)

LEMMA SchemaInvHoldsAt ==
    ASSUME NEW n \in 0 .. Newest, NEW R, NEW W, R \subseteq TypesAt(n), RowsOK(W),
           revision' = n, database' = Db(TablesAt(n), TypesAt(n), R, W)
    PROVE  SchemaInv'
<1>1. database'.runs = R /\ database'.rows = W
  BY Fields
<1>2. QED
  BY <1>1 DEF SchemaInv

LEMMA SchemaInvStarts == SchemaInit => SchemaInv
<1> SUFFICES ASSUME SchemaInit PROVE SchemaInv
  OBVIOUS
<1>1. database = Db({}, {}, {}, {})
  BY Zenon DEF SchemaInit, NoDatabase, Db, Database
<1>2. database.runs = {} /\ database.rows = {}
  BY <1>1, Fields
<1>3. RowsOK({})
  BY DEF RowsOK
<1>4. revision = 0 /\ 0 \in 0 .. Newest
  BY ElevenRevisions DEF SchemaInit
<1>5. QED
  BY <1>1, <1>2, <1>3, <1>4, AtZero DEF SchemaInv

\* What an upgrade makes of the database.
LEMMA UpgradeStep ==
    ASSUME SchemaInv, revision < Newest
    PROVE  /\ revision + 1 \in 1 .. 11 /\ (revision + 1) - 1 = revision
           /\ Execute(database, Chain[revision + 1].up)
                = Db(TablesAt(revision + 1), TypesAt(revision + 1), database.runs, database.rows)
<1>1. revision + 1 \in 1 .. 11 /\ (revision + 1) - 1 = revision
  BY ElevenRevisions DEF SchemaInv
<1>2. UpgradeWorks(revision + 1)
  BY <1>1, UpgradesWork
<1> DEFINE m == revision + 1
           R == database.runs
           W == database.rows
<1>3. R \subseteq TypesAt(m - 1)
  BY <1>1 DEF SchemaInv
<1>4. database = Db(TablesAt(m - 1), TypesAt(m - 1), R, W)
  BY <1>1 DEF SchemaInv
<1> HIDE DEF m, R, W
<1>5. Execute(Db(TablesAt(m - 1), TypesAt(m - 1), R, W), Chain[m].up) = Db(TablesAt(m), TypesAt(m), R, W)
  BY <1>2, <1>3 DEF UpgradeWorks, m
<1>6. Execute(database, Chain[m].up) = Db(TablesAt(m), TypesAt(m), R, W)
  BY <1>4, <1>5, Zenon
<1>7. QED
  BY <1>1, <1>6 DEF m, R, W

\* What a downgrade makes of it.
LEMMA DowngradeStep ==
    ASSUME SchemaInv, revision > 0
    PROVE  /\ revision \in 1 .. 11 /\ revision - 1 \in 0 .. 11
           /\ \E V : /\ Kept(revision, database.rows, V)
                     /\ Execute(database, Chain[revision].down)
                          = Db(TablesAt(revision - 1), TypesAt(revision - 1),
                               database.runs \cap TypesAt(revision - 1), V)
<1>1. revision \in 1 .. 11 /\ revision - 1 \in 0 .. 11
  BY ElevenRevisions DEF SchemaInv
<1>2. DowngradeWorks(revision)
  BY <1>1, DowngradesWork
<1> DEFINE R == database.runs
           W == database.rows
<1>3. R \subseteq TypesAt(revision) /\ RowsOK(W)
  BY DEF SchemaInv
<1>4. database = Db(TablesAt(revision), TypesAt(revision), R, W)
  BY DEF SchemaInv
<1> HIDE DEF R, W
<1>5. PICK V : /\ Kept(revision, W, V)
               /\ Execute(Db(TablesAt(revision), TypesAt(revision), R, W), Chain[revision].down)
                    = Db(TablesAt(revision - 1), TypesAt(revision - 1), R \cap TypesAt(revision - 1), V)
  BY <1>2, <1>3 DEF DowngradeWorks
<1>6. Execute(database, Chain[revision].down)
        = Db(TablesAt(revision - 1), TypesAt(revision - 1), R \cap TypesAt(revision - 1), V)
  BY <1>4, <1>5, Zenon
<1>7. QED
  BY <1>1, <1>5, <1>6 DEF R, W

LEMMA RecordStep ==
    ASSUME SchemaInv, NEW type \in TypesInPlay, NEW quarantines \in BOOLEAN, Record(type, quarantines)
    PROVE  \E W : /\ database' = Db(TablesAt(revision), TypesAt(revision), database.runs \union {type}, W)
                  /\ database.rows \subseteq W
                  /\ RowsOK(W)
                  /\ type \in TypesAt(revision)
<1> DEFINE New == { << name, type >> : name \in
                     Writes(type) \union (IF quarantines THEN {"data_quality_issues"} ELSE {}) }
           T == TablesAt(revision)
           Y == TypesAt(revision)
           R == database.runs
           W == database.rows
           d == Db(T, Y, R, W)
<1>1. RowsOK(W \union New)
  <2>1. \A row \in New : row[2] = type /\ (row[1] \in Writes(type) \/ (quarantines /\ row[1] = "data_quality_issues"))
    OBVIOUS
  <2>2. quarantines => type \in Quarantines
    BY DEF Record
  <2>3. RowsOK(W)
    BY DEF SchemaInv
  <2> HIDE DEF New, W
  <2>4. QED
    BY <2>1, <2>2, <2>3 DEF RowsOK
<1>2. database = d
  BY DEF SchemaInv
<1>3. database' = [ database EXCEPT !.runs = R \union {type}, !.rows = W \union New ]
  BY DEF Record
<1>4. type \in Y
  <2>1. database.types = Y
    BY <1>2, Fields
  <2>2. QED
    BY <2>1 DEF Record
<1>5. W \subseteq W \union New
  OBVIOUS
<1> DEFINE Q == R \union {type}
           X == W \union New
<1>6. database' = [ [ database EXCEPT !.runs = Q ] EXCEPT !.rows = X ]
  BY <1>3
<1> HIDE DEF T, Y, R, W, New, Q, X
<1>7. [ [ d EXCEPT !.runs = Q ] EXCEPT !.rows = X ] = Db(T, Y, Q, X)
  <2>1. [ d EXCEPT !.runs = Q ] = Db(T, Y, Q, W)
    BY RunsChange
  <2>2. [ Db(T, Y, Q, W) EXCEPT !.rows = X ] = Db(T, Y, Q, X)
    BY RowsChange
  <2>3. QED
    BY <2>1, <2>2
<1> HIDE DEF d
<1>8. database' = Db(T, Y, Q, X)
  BY <1>2, <1>6, <1>7, Zenon
<1>9. QED
  BY <1>1, <1>4, <1>5, <1>8 DEF T, Y, R, W, Q, X

\* Downgrades leave rows of the kind they found.
LEMMA KeptRowsAreOK == \A n, W, V : RowsOK(W) /\ Kept(n, W, V) => RowsOK(V)
  BY DEF RowsOK, Kept

LEMMA SchemaInvKept == SchemaInv /\ [SchemaNext]_schemaVars => SchemaInv'
<1> SUFFICES ASSUME SchemaInv, [SchemaNext]_schemaVars PROVE SchemaInv'
  OBVIOUS
<1>1. CASE Upgrade
  <2>1. revision < Newest /\ revision' = revision + 1 /\ database' = Execute(database, Chain[revision + 1].up)
    BY <1>1 DEF Upgrade, Migrate
  <2>2. revision + 1 \in 1 .. 11 /\ (revision + 1) - 1 = revision
    BY <2>1, UpgradeStep
  <2>3. database' = Db(TablesAt(revision + 1), TypesAt(revision + 1), database.runs, database.rows)
    BY <2>1, UpgradeStep
  <2>4. database.runs \subseteq TypesAt(revision + 1)
    <3>1. database.runs \subseteq TypesAt(revision)
      BY DEF SchemaInv
    <3>2. QED
      BY <2>2, <3>1, TypesGrow
  <2>5. RowsOK(database.rows)
    BY DEF SchemaInv
  <2>6. revision + 1 \in 0 .. Newest
    BY <2>2, ElevenRevisions
  <2>7. QED
    BY <2>1, <2>3, <2>4, <2>5, <2>6, SchemaInvHoldsAt
<1>2. CASE Downgrade
  <2>1. revision > 0 /\ revision' = revision - 1 /\ database' = Execute(database, Chain[revision].down)
    BY <1>2 DEF Downgrade, Migrate
  <2>2. PICK V : /\ Kept(revision, database.rows, V)
                 /\ database' = Db(TablesAt(revision - 1), TypesAt(revision - 1),
                                   database.runs \cap TypesAt(revision - 1), V)
    BY <2>1, DowngradeStep
  <2>3. RowsOK(V)
    <3>1. RowsOK(database.rows)
      BY DEF SchemaInv
    <3>2. QED
      BY <2>2, <3>1, KeptRowsAreOK
  <2>4. revision - 1 \in 0 .. Newest
    BY <2>1, DowngradeStep, ElevenRevisions
  <2> DEFINE R == database.runs \cap TypesAt(revision - 1)
  <2>5. R \subseteq TypesAt(revision - 1)
    OBVIOUS
  <2> HIDE DEF R
  <2>6. QED
    BY <2>1, <2>2, <2>3, <2>4, <2>5, SchemaInvHoldsAt DEF R
<1>3. ASSUME NEW type \in TypesInPlay, NEW quarantines \in BOOLEAN, Record(type, quarantines) PROVE SchemaInv'
  <2>1. PICK W : /\ database' = Db(TablesAt(revision), TypesAt(revision), database.runs \union {type}, W)
                 /\ RowsOK(W)
                 /\ type \in TypesAt(revision)
    BY <1>3, RecordStep
  <2>2. revision' = revision /\ revision \in 0 .. Newest /\ database.runs \subseteq TypesAt(revision)
    BY <1>3 DEF Record, SchemaInv
  <2> DEFINE R == database.runs \union {type}
  <2>3. R \subseteq TypesAt(revision)
    BY <2>1, <2>2
  <2> HIDE DEF R
  <2>4. QED
    BY <2>1, <2>2, <2>3, SchemaInvHoldsAt DEF R
<1>4. CASE UNCHANGED schemaVars
  BY <1>4 DEF SchemaInv, schemaVars
<1>5. QED
  BY <1>1, <1>2, <1>3, <1>4 DEF SchemaNext

-----------------------------------------------------------------------------
(* The theorems. *)

LEMMA DbIsOk == \A T, Y, R, W : Db(T, Y, R, W).ok
  BY Fields

LEMMA SchemaInvAlways == SchemaInit /\ [][SchemaNext]_schemaVars => []SchemaInv
<1>1. SchemaInit => SchemaInv
  BY SchemaInvStarts
<1>2. SchemaInv /\ [SchemaNext]_schemaVars => SchemaInv'
  BY SchemaInvKept
<1>3. QED
  BY <1>1, <1>2, PTL

\* Whatever runs the services recorded and whatever rows they left, the
\* upgrade to the next revision and the downgrade to the previous one find no
\* table, row or run in their way, at every revision and for every set of run
\* types (alembic/versions/).
THEOREM MigrationsAreSafe == SchemaInit /\ [][SchemaNext]_schemaVars => []MigrationsNeverFail
<1>1. SchemaInv => MigrationsNeverFail
  <2> SUFFICES ASSUME SchemaInv PROVE MigrationsNeverFail
    OBVIOUS
  <2>1. ASSUME revision < Newest PROVE Execute(database, Chain[revision + 1].up).ok
    <3>1. Execute(database, Chain[revision + 1].up)
            = Db(TablesAt(revision + 1), TypesAt(revision + 1), database.runs, database.rows)
      BY <2>1, UpgradeStep
    <3>2. QED
      BY <3>1, DbIsOk, Zenon
  <2>2. ASSUME revision > 0 PROVE Execute(database, Chain[revision].down).ok
    <3>1. PICK V : Execute(database, Chain[revision].down)
                     = Db(TablesAt(revision - 1), TypesAt(revision - 1),
                          database.runs \cap TypesAt(revision - 1), V)
      BY <2>2, DowngradeStep
    <3>2. QED
      BY <3>1, DbIsOk, Zenon
  <2>3. QED
    BY <2>1, <2>2 DEF MigrationsNeverFail
<1>2. QED
  BY <1>1, SchemaInvAlways, PTL

\* However often a database went up and down, its tables, their references
\* and keys, and the run types it allows are those of a database that was
\* created at its revision.
THEOREM SchemaFollowsRevision == SchemaInit /\ [][SchemaNext]_schemaVars => []SchemaDependsOnRevisionOnly
<1>1. SchemaInv => SchemaDependsOnRevisionOnly
  <2> SUFFICES ASSUME SchemaInv PROVE SchemaDependsOnRevisionOnly
    OBVIOUS
  <2>1. Fresh[revision] = Db(TablesAt(revision), TypesAt(revision), {}, {})
    BY FreshIs DEF SchemaInv
  <2>2. Fresh[revision].tables = TablesAt(revision) /\ Fresh[revision].types = TypesAt(revision)
    BY <2>1, Fields
  <2>3. database = Db(TablesAt(revision), TypesAt(revision), database.runs, database.rows)
    BY DEF SchemaInv
  <2>4. database.tables = TablesAt(revision) /\ database.types = TypesAt(revision)
    BY <2>3, Fields
  <2>5. QED
    BY <2>2, <2>4 DEF SchemaDependsOnRevisionOnly
<1>2. QED
  BY <1>1, SchemaInvAlways, PTL

\* At the newest revision the database has the tables of the ORM classes and
\* the view, allows exactly the run types that the code records, and has a
\* unique key under the conflict target of every upsert (domain/models.py).
THEOREM HeadIsServed == SchemaInit /\ [][SchemaNext]_schemaVars => []HeadServesTheCode
<1>1. SchemaInv => HeadServesTheCode
  <2> SUFFICES ASSUME SchemaInv, revision = Newest
               PROVE  /\ { t \in database.tables : t.name # "v_earnings_current" } = OrmTables
                      /\ database.types = RunType
                      /\ \A u \in Upserts : \E t \in database.tables : t.name = u[1] /\ t.key = u[2]
    BY DEF HeadServesTheCode
  <2> DEFINE view == Table("v_earnings_current", {"earnings_observations"}, {})
  <2>1. revision = 11
    BY ElevenRevisions
  <2>2. database = Db(TablesAt(11), TypesAt(11), database.runs, database.rows)
    BY <2>1 DEF SchemaInv
  <2>3. database.tables = TablesAt(11) /\ database.types = TypesAt(11)
    BY <2>2, Fields
  <2>4. view.name = "v_earnings_current"
    BY TableName
  <2>5. TablesAt(11) = OrmTables \union {view}
    BY TablesAtHead
  <2> HIDE DEF view
  <2>6. { t \in database.tables : t.name # "v_earnings_current" } = OrmTables
    BY <2>3, <2>4, <2>5, NoOrmView
  <2>7. \A u \in Upserts : \E t \in database.tables : t.name = u[1] /\ t.key = u[2]
    BY <2>3, <2>5, UpsertsHaveKeys
  <2>8. QED
    BY <2>3, <2>6, <2>7, TypesAtHead
<1>2. QED
  BY <1>1, SchemaInvAlways, PTL

\* No migration takes along a run whose type stays allowed, nor a row whose
\* table stays and whose run's type stays allowed: what a downgrade deletes is
\* exactly what the older schema cannot hold.
THEOREM MigrationsTakeNoMore == SchemaInit /\ [][SchemaNext]_schemaVars => MigrationsKeepTheRest
<1> DEFINE KeepsTheRest ==
      /\ \A type \in database.runs : type \in database'.types => type \in database'.runs
      /\ \A row \in database.rows :
            row[1] \in Names(database'.tables) /\ row[2] \in database'.types => row \in database'.rows
<1>1. SchemaInv /\ [SchemaNext]_schemaVars => [KeepsTheRest]_schemaVars
  <2> SUFFICES ASSUME SchemaInv, SchemaNext PROVE KeepsTheRest
    OBVIOUS
  <2>1. CASE Upgrade
    <3>1. revision < Newest /\ database' = Execute(database, Chain[revision + 1].up)
      BY <2>1 DEF Upgrade, Migrate
    <3>2. database' = Db(TablesAt(revision + 1), TypesAt(revision + 1), database.runs, database.rows)
      BY <3>1, UpgradeStep
    <3>3. database'.runs = database.runs /\ database'.rows = database.rows
      BY <3>2, Fields
    <3>4. QED
      BY <3>3
  <2>2. CASE Downgrade
    <3>1. revision > 0 /\ database' = Execute(database, Chain[revision].down)
      BY <2>2 DEF Downgrade, Migrate
    <3>2. PICK V : /\ Kept(revision, database.rows, V)
                   /\ database' = Db(TablesAt(revision - 1), TypesAt(revision - 1),
                                     database.runs \cap TypesAt(revision - 1), V)
      BY <3>1, DowngradeStep
    <3>3. /\ database'.tables = TablesAt(revision - 1) /\ database'.types = TypesAt(revision - 1)
          /\ database'.runs = database.runs \cap TypesAt(revision - 1) /\ database'.rows = V
      BY <3>2, Fields
    <3>4. Names(database'.tables) = NamesAt(revision - 1)
      BY <3>1, <3>3, DowngradeStep, NamesOfTables
    <3>5. QED
      BY <3>2, <3>3, <3>4 DEF Kept
  <2>3. ASSUME NEW type \in TypesInPlay, NEW quarantines \in BOOLEAN, Record(type, quarantines) PROVE KeepsTheRest
    <3>1. PICK W : /\ database' = Db(TablesAt(revision), TypesAt(revision), database.runs \union {type}, W)
                   /\ database.rows \subseteq W
      BY <2>3, RecordStep
    <3>2. database'.runs = database.runs \union {type} /\ database'.rows = W
      BY <3>1, Fields
    <3>3. QED
      BY <3>1, <3>2
  <2>4. QED
    BY <2>1, <2>2, <2>3 DEF SchemaNext
<1>2. QED
  BY <1>1, SchemaInvAlways, PTL DEF MigrationsKeepTheRest
=============================================================================
