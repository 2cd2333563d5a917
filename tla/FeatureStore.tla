---------------------------- MODULE FeatureStore ----------------------------
(***************************************************************************)
(* From a revised outside world to stored features: macro, fundamental and *)
(* earnings ingestion (ingestion/fred_service.py, fundamental_service.py,  *)
(* earnings_service.py, runner.py) and the feature pipeline                *)
(* (features/pipeline.py, registry.py, calculators,                        *)
(* repositories/features.py).                                              *)
(*                                                                         *)
(* An ingestion run fetches each source, keeps what validation lets        *)
(* through and commits; a build reads the stored sources, computes every   *)
(* live feature over a trailing window and commits.  Each is one           *)
(* transaction; they interleave, fail and die while publishers revise what *)
(* they published and earnings dates move.                                 *)
(***************************************************************************)
EXTENDS Integers, FiniteSetsExt, Functions

CONSTANTS
    LastDay,         \* bound: days; every day is a session
    Lag,             \* publication_lag_days of the two series, "long" and "short"
    Reach,           \* days before its cursor a macro ingestion fetches again
    Overlap,         \* days before its cursor a build computes again
    Lookback,        \* days of context before a build's window
    FirstFeatures,   \* the features in the registry at first
    Null,            \* no value: a missing observation, NaN
    Bad,             \* a value outside its series' range
    Revised,         \* what a publisher may turn a value into
    MaxRevisions,    \* bound: revisions, moved dates and nulled fields
    MaxFailures      \* bound: failed fetches, failed symbols, dead transactions

Series == {"long", "short"}
Days == 1 .. LastDay
Kinds == {"macro", "fundamentals", "earnings"}
Market == {"level", "slope", "change", "slope_change"}
Instrument == {"pe", "days_until"}
Features == Market \union Instrument
Values == -(LastDay + 2) .. LastDay + 2

ASSUME BoundsAssumption ==
    /\ LastDay \in Nat \ {0} /\ Reach \in Nat /\ Overlap \in Nat /\ Lookback \in Nat
    /\ Lag \in [Series -> Nat]
    /\ MaxRevisions \in Nat /\ MaxFailures \in Nat
    /\ Null \notin Int /\ Bad \notin Int \union {Null}
    /\ FirstFeatures \subseteq Features

VARIABLES
    today,
    world,       \* what the providers would serve: series, earnings date, ratio
    stored,      \* the committed sources: observations, snapshots, announcements
    live,        \* the features of the registry
    store,       \* committed feature values, by feature and day
    ingest,      \* the ingestion transaction
    build,       \* the build transaction
    revisions,   \* history: what the world has revised
    failures     \* history: what has failed

vars == << today, world, stored, live, store, ingest, build, revisions, failures >>

NoRows == [ x \in {} |-> Null ]
Idle == [ pc |-> "idle" ]

Init ==
    /\ today = 1
    /\ world = [ macro |-> [ s \in Series |-> [ d \in Days |-> 1 ] ],
                 next |-> LastDay, pe |-> 1 ]
    /\ stored = [ macro |-> [ s \in Series |-> NoRows ], snaps |-> NoRows, announced |-> {} ]
    /\ live = FirstFeatures
    /\ store = NoRows
    /\ ingest = Idle
    /\ build = Idle
    /\ revisions = 0
    /\ failures = 0

-----------------------------------------------------------------------------
(* The outside world.                                                      *)

NextDay ==
    /\ today < LastDay
    /\ today' = today + 1
    /\ UNCHANGED << world, stored, live, store, ingest, build, revisions, failures >>

\* A published value is revised, withdrawn or garbled; an earnings date moves;
\* a ratio cannot be computed any more.
Revise ==
    /\ revisions < MaxRevisions
    /\ revisions' = revisions + 1
    /\ \/ \E s \in Series, d \in 1 .. today, v \in Revised :
              world' = [ world EXCEPT !.macro[s][d] = v ]
       \/ \E d \in today + 1 .. LastDay : world' = [ world EXCEPT !.next = d ]
       \/ world' = [ world EXCEPT !.pe = Null ]
    /\ UNCHANGED << today, stored, live, store, ingest, build, failures >>

\* A release adds calculators.
Deploy ==
    /\ live # Features
    /\ live' = Features
    /\ UNCHANGED << today, world, stored, store, ingest, build, revisions, failures >>

-----------------------------------------------------------------------------
(* Ingestion.                                                              *)

Cursor(rows) == IF DOMAIN rows = {} THEN 0 ELSE Max(DOMAIN rows)

\* The observations out by now, from the overlap on.
FetchSeries(s) ==
    LET cursor == Cursor(stored.macro[s])
    IN  [ d \in { d \in 1 .. today : cursor = 0 \/ d >= cursor - Reach } |-> world.macro[s][d] ]

\* validate_macro: a missing value passes, one out of range is quarantined.
ValidRows(frame) == Restrict(frame, { d \in DOMAIN frame : frame[d] # Bad })

\* A run of one kind fetches each of its items; a fetch that fails is the
\* failure of its item alone.
Items(kind) == IF kind = "macro" THEN Series ELSE {kind}

Fetch(kind) ==
    /\ ingest.pc = "idle"
    /\ \E failed \in SUBSET Items(kind) :
           LET fetched == Items(kind) \ failed IN
           /\ failures + Cardinality(failed) <= MaxFailures
           /\ failures' = failures + Cardinality(failed)
           /\ ingest' =
                [ pc |-> "fetched", on |-> today,
                  macro |-> [ s \in Series \intersect fetched |-> FetchSeries(s) ],
                  snaps |-> IF "fundamentals" \in fetched THEN [ t \in {today} |-> world.pe ] ELSE NoRows,
                  announced |-> IF "earnings" \in fetched /\ world.next > today
                                THEN {world.next} ELSE {} ]
    /\ UNCHANGED << today, world, stored, live, store, build, revisions >>

Upserted(rows, table) ==
    [ key \in DOMAIN rows \union DOMAIN table |-> IF key \in DOMAIN rows THEN rows[key] ELSE table[key] ]

\* New observations are inserted and different ones revised; a snapshot of the
\* same day is overwritten; an announcement is appended when it is news.
InsertObservations(s) ==
    IF s \in DOMAIN ingest.macro THEN Upserted(ValidRows(ingest.macro[s]), stored.macro[s])
    ELSE stored.macro[s]
InsertSnapshot == Upserted(ingest.snaps, stored.snaps)
InsertAnnouncements ==
    stored.announced \union
        { [ event |-> e, known |-> ingest.on ] :
            e \in { e \in ingest.announced : \A a \in stored.announced : a.event # e } }

CommitIngest ==
    /\ ingest.pc = "fetched"
    /\ stored' = [ macro |-> [ s \in Series |-> InsertObservations(s) ],
                   snaps |-> InsertSnapshot, announced |-> InsertAnnouncements ]
    /\ ingest' = Idle
    /\ UNCHANGED << today, world, live, store, build, revisions, failures >>

CrashIngest ==
    /\ ingest.pc # "idle" /\ failures < MaxFailures
    /\ failures' = failures + 1
    /\ ingest' = Idle
    /\ UNCHANGED << today, world, stored, live, store, build, revisions >>

-----------------------------------------------------------------------------
(* The calculators.                                                        *)

Minus(a, b) == IF Null \in {a, b} THEN Null ELSE a - b

\* align_availability: the value of the newest observation that is public.
AlignAvailability(value, available, d) ==
    LET public == { t \in DOMAIN value : available[t] <= d }
    IN  IF public = {} THEN Null ELSE value[Max(public)]

AvailableFrom(rows, s) == [ t \in DOMAIN rows |-> t + Lag[s] ]

MacroLevel(rows, s, d) == AlignAvailability(rows, AvailableFrom(rows, s), d)

\* Over one observation; public with the newer of the two.
MacroChange(rows, s, d) ==
    LET earlier(t) == { u \in DOMAIN rows : u < t }
        value == [ t \in DOMAIN rows |->
                     IF earlier(t) = {} THEN Null ELSE Minus(rows[t], rows[Max(earlier(t))]) ]
    IN  AlignAvailability(value, AvailableFrom(rows, s), d)

\* Public with the first of its legs.
CurveSlopeEarly(macro, d) ==
    LET both == DOMAIN macro["long"] \intersect DOMAIN macro["short"]
    IN  AlignAvailability([ t \in both |-> Minus(macro["long"][t], macro["short"][t]) ],
                          [ t \in both |-> t + Lag["short"] ], d)

\* Public once both legs are.
CurveSlope(macro, d) ==
    LET both == DOMAIN macro["long"] \intersect DOMAIN macro["short"]
    IN  AlignAvailability([ t \in both |-> Minus(macro["long"][t], macro["short"][t]) ],
                          [ t \in both |-> Max({ t + Lag[s] : s \in Series }) ], d)

\* Against the session before, as far as the context reaches.
MarketFeatureChange(macro, d, from) ==
    IF d - 1 < from THEN Null ELSE Minus(CurveSlope(macro, d), CurveSlope(macro, d - 1))

\* A snapshot counts from the day it was taken; an absent field does not.
FundamentalField(snaps, d) ==
    LET known == { t \in DOMAIN snaps : t <= d /\ snaps[t] # Null }
    IN  IF known = {} THEN Null ELSE snaps[Max(known)]

DaysUntilEarnings(announced, d) ==
    LET visible == { a.event : a \in { b \in announced : b.known <= d /\ b.event > d } }
    IN  IF visible = {} THEN Null ELSE Min(visible) - d

\* Topological order: "slope" before "slope_change".
Compute(feature, sources, d, from) ==
    CASE feature = "level" -> MacroLevel(sources.macro["long"], "long", d)
      [] feature = "change" -> MacroChange(sources.macro["long"], "long", d)
      [] feature = "slope" -> CurveSlope(sources.macro, d)
      [] feature = "slope_change" -> MarketFeatureChange(sources.macro, d, from)
      [] feature = "pe" -> FundamentalField(sources.snaps, d)
      [] feature = "days_until" -> DaysUntilEarnings(sources.announced, d)

-----------------------------------------------------------------------------
(* The build.                                                              *)

\* One cursor for all features of a scope.
LatestDate(scope) == Max({0} \union { row[2] : row \in { r \in DOMAIN store : r[1] \in scope } })

\* The cursor itself: nothing is computed again.
WindowStartAtCursor(scope) ==
    LET cursor == LatestDate(live \intersect scope) IN IF cursor = 0 THEN 1 ELSE cursor + 1

WindowStart(scope) ==
    LET cursor == LatestDate(live \intersect scope)
    IN  IF cursor = 0 THEN 1 ELSE Max({1, cursor - Overlap})

ScopeOf(feature) == IF feature \in Market THEN Market ELSE Instrument

\* The dates of a window's context: its lookback before it.
ContextStart(start) == start - Lookback

Computed(feature, d) ==
    Compute(feature, stored, d, Max({1, ContextStart(WindowStart(ScopeOf(feature)))}))

Window == { cell \in live \X (1 .. today) : cell[2] >= WindowStart(ScopeOf(cell[1])) }

BeginBuild ==
    /\ build.pc = "idle"
    /\ build' = [ pc |-> "computed",
                  rows |-> [ cell \in Window |-> Computed(cell[1], cell[2]) ] ]
    /\ UNCHANGED << today, world, stored, live, store, ingest, revisions, failures >>

\* NaN makes no row.
Rows(failed) ==
    { cell \in DOMAIN build.rows : build.rows[cell] # Null /\ cell[1] \notin failed }

\* A symbol that fails loses its rows and nobody else's.
CommitBuild ==
    /\ build.pc = "computed"
    /\ \E failed \in {{}, Instrument} :
           /\ failed # {} => failures < MaxFailures
           /\ failures' = IF failed = {} THEN failures ELSE failures + 1
           /\ store' = Upserted(Restrict(build.rows, Rows(failed)), store)
    /\ build' = Idle
    /\ UNCHANGED << today, world, stored, live, ingest, revisions >>

CrashBuild ==
    /\ build.pc # "idle" /\ failures < MaxFailures
    /\ failures' = failures + 1
    /\ build' = Idle
    /\ UNCHANGED << today, world, stored, live, store, ingest, revisions >>

-----------------------------------------------------------------------------
Next ==
    \/ NextDay \/ Revise \/ Deploy
    \/ \E kind \in Kinds : Fetch(kind)
    \/ CommitIngest \/ CrashIngest
    \/ BeginBuild \/ CommitBuild \/ CrashBuild

Spec == Init /\ [][Next]_vars

\* The daily update runs an ingestion of every kind and a build again and again.
FairSpec ==
    /\ Spec
    /\ \A kind \in Kinds : SF_vars(Fetch(kind))
    /\ WF_vars(CommitIngest) /\ WF_vars(BeginBuild) /\ WF_vars(CommitBuild)

-----------------------------------------------------------------------------
\* What was public on a day, as far as it has not been revised since.
PublicOn(d) ==
    [ macro |-> [ s \in Series |-> Restrict(stored.macro[s],
                      { t \in DOMAIN stored.macro[s] : t + Lag[s] <= d }) ],
      snaps |-> Restrict(stored.snaps, { t \in DOMAIN stored.snaps : t <= d }),
      announced |-> { a \in stored.announced : a.known <= d } ]

\* No feature of a day looks at an observation published later, whichever of
\* its inputs are missing, late or withdrawn (features/base.py:1-8, D13).
NoLookAhead ==
    \A feature \in Features, d \in 1 .. today :
        Compute(feature, stored, d, 1) = Compute(feature, PublicOn(d), d, 1)

\* The days before the newest row that builds promise to keep up to date, and
\* those after it.
Trailing(feature, d) ==
    /\ feature \in live /\ d <= today
    /\ d >= LatestDate(live \intersect ScopeOf(feature)) - Overlap

\* Once the world rests, every value that a full rebuild would write in the
\* trailing window is stored as it would write it: revisions and late
\* observations that arrived between a build's read and its commit, or after
\* it, have been taken up (pipeline.py:223 recomputes the window).  Nothing is
\* said of a day for which a rebuild writes no row: when the observation behind
\* a stored value is withdrawn the build drops the NaN and deletes nothing
\* (pipeline.py:239), so the row of the withdrawn value stays in the store,
\* where base.py:51 has a missing value be an absent row.
WindowCatchesUp ==
    \A feature \in Features, d \in Days :
        <>[]( Trailing(feature, d) /\ Compute(feature, stored, d, 1) # Null
              => /\ << feature, d >> \in DOMAIN store
                 /\ store[<< feature, d >>] = Compute(feature, stored, d, 1) )
=============================================================================
