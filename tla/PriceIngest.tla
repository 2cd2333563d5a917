---------------------------- MODULE PriceIngest ----------------------------
(***************************************************************************)
(* The daily price history of one instrument, kept in step with a provider *)
(* that rewrites history (PriceIngestionService in                         *)
(* ingestion/price_service.py).                                            *)
(*                                                                         *)
(* Each pass re-fetches the last Overlap stored sessions.  A split or a    *)
(* dividend restates every earlier session at the provider, but a pass     *)
(* sees only the overlap: it must find there the evidence that the rest of *)
(* the stored history is out of date, and then fetch everything again.     *)
(* The two passes are one savepoint, and the savepoints of a run are one   *)
(* transaction, so a pass works on a copy of the database that is          *)
(* committed or dropped as a whole.                                        *)
(*                                                                         *)
(* A bar is counted, not priced: `units` splits and `divs` dividends came  *)
(* after the session, and `fix` spot corrections hit it.  Raw close and    *)
(* adjusted close are functions of these counts (docs/PRICES.md, 1), and   *)
(* two prices differ materially exactly when their counts do.              *)
(***************************************************************************)
EXTENDS Integers, FiniteSetsExt

CONSTANTS
    Horizon,          \* bound: the trading sessions there are
    MaxSplits,        \* bound: splits
    MaxDividends,     \* bound: dividends
    MaxCorrections,   \* bound: spot corrections
    Spoilable,        \* sessions the provider may serve malformed
    Overlap,          \* settings.overlap_trading_days
    MinRows,          \* RAW_SHIFT_MIN_ROWS
    SplitsJump        \* does a split exceed settings.return_jump_threshold?

ASSUME BoundAssumption ==
    /\ Horizon \in Nat \ {0}
    /\ MaxSplits \in Nat /\ MaxDividends \in Nat /\ MaxCorrections \in Nat
ASSUME SpoilAssumption == Spoilable \subseteq 1 .. Horizon
\* Nothing in the code relates these; 10 and 5 are the defaults.  With fewer
\* rows the guard never judges, or a corrected row hides the only evidence.
ASSUME OverlapAssumption ==
    /\ Overlap \in Nat /\ MinRows \in Nat /\ 3 <= MinRows
    /\ MinRows + 2 * Cardinality(Spoilable) <= Overlap
ASSUME JumpAssumption == SplitsJump \in BOOLEAN

VARIABLES
    \* the provider and the calendar
    last,       \* the last completed session
    series,     \* the bars of sessions 1 .. last as served now
    announced,  \* ex-dates of the splits its action column shows
    pending,    \* history is restated for a split whose ex-session is not over
    spoiled,    \* sessions it serves malformed now
    corrected,  \* spot corrections so far, for the bound
    \* the service
    db,         \* committed: daily_prices rows and recorded split dates
    work,       \* the same as the open transaction sees it
    phase,      \* where the service is
    outcome     \* the SymbolOutcome of the run in progress

provider == << last, series, announced, pending, spoiled, corrected >>
service == << db, work, phase, outcome >>
vars == << last, series, announced, pending, spoiled, corrected,
           db, work, phase, outcome >>

Sessions == 1 .. Horizon
Bar == [ units : 0 .. MaxSplits, divs : 0 .. MaxDividends,
         fix : 0 .. MaxCorrections ]
NewBar == [ units |-> 0, divs |-> 0, fix |-> 0 ]

\* A store: the daily_prices rows of some sessions, and the ex-dates of the
\* recorded splits.
IsStore(s) ==
    /\ s = [ rows |-> s.rows, splits |-> s.splits ]
    /\ DOMAIN s.rows \subseteq 1 .. last
    /\ s.rows \in [ DOMAIN s.rows -> Bar ]
    /\ s.splits \subseteq announced

Outcome == [ status : {"none", "ok", "failed"}, fullRefresh : BOOLEAN ]
NoOutcome == [ status |-> "none", fullRefresh |-> FALSE ]

Init ==
    /\ last = 1
    /\ series = [ d \in 1 .. 1 |-> NewBar ]
    /\ announced = {}
    /\ pending = FALSE
    /\ spoiled = {}
    /\ corrected = 0
    /\ db = [ rows |-> [ d \in {} |-> NewBar ], splits |-> {} ]
    /\ work = db
    /\ phase = "idle"
    /\ outcome = NoOutcome

-----------------------------------------------------------------------------
(* The provider, as the service sees it.                                   *)

\* A session completes.  A split announced for it shows up with it.
NewSession ==
    /\ last < Horizon
    /\ last' = last + 1
    /\ series' = [ d \in 1 .. last + 1 |-> IF d <= last THEN series[d] ELSE NewBar ]
    /\ announced' = IF pending THEN announced \union {last + 1} ELSE announced
    /\ pending' = FALSE
    /\ UNCHANGED << spoiled, corrected, db, work, phase, outcome >>

\* A dividend back-adjusts every completed session.
Dividend ==
    /\ series[1].divs < MaxDividends
    /\ series' = [ d \in 1 .. last |-> [ series[d] EXCEPT !.divs = @ + 1 ] ]
    /\ UNCHANGED << last, announced, pending, spoiled, corrected, db, work, phase,
                    outcome >>

\* On the morning of its ex-date a split restates every completed session;
\* the service still fetches up to the session before.
Split ==
    /\ series[1].units < MaxSplits
    /\ last < Horizon
    /\ ~pending
    /\ pending' = TRUE
    /\ series' = [ d \in 1 .. last |-> [ series[d] EXCEPT !.units = @ + 1 ] ]
    /\ UNCHANGED << last, announced, spoiled, corrected, db, work, phase, outcome >>

\* A spot correction: close and adj_close of one session move together.
Correct(d) ==
    /\ corrected < MaxCorrections
    /\ corrected' = corrected + 1
    /\ series' = [ series EXCEPT ![d].fix = @ + 1 ]
    /\ UNCHANGED << last, announced, pending, spoiled, db, work, phase,
                    outcome >>

\* The bar of d is served malformed, and later well-formed again.
Spoil(d) ==
    /\ d \in Spoilable \ spoiled
    /\ spoiled' = spoiled \union {d}
    /\ UNCHANGED << last, series, announced, pending, corrected, db, work,
                    phase, outcome >>

Mend(d) ==
    /\ d \in spoiled
    /\ spoiled' = spoiled \ {d}
    /\ UNCHANGED << last, series, announced, pending, corrected, db, work,
                    phase, outcome >>

Provider ==
    \/ NewSession \/ Dividend \/ Split
    \/ \E d \in 1 .. last : Correct(d) \/ Spoil(d) \/ Mend(d)

-----------------------------------------------------------------------------
(* One pass of _ingest_symbol over a store s; `full` is its full_refresh.  *)

Close(bar) == << bar.units, bar.fix >>

HasRows(s) == DOMAIN s.rows # {}
Cursor(s) == Max(DOMAIN s.rows)

\* Broken variant of Start: the overlap ends today, not at the cursor.
StartAtLatest(s, full) ==
    IF full \/ ~HasRows(s) \/ last < Overlap THEN 1 ELSE last - Overlap + 1

\* The fetch window: all of history, or the last Overlap sessions up to the
\* cursor, and whatever completed since.
Start(s, full) ==
    IF full \/ ~HasRows(s) \/ Cursor(s) < Overlap THEN 1 ELSE Cursor(s) - Overlap + 1
Frame(s, full) == Start(s, full) .. last

\* Broken variant of FetchedSplits: the action of the session in progress, too.
FetchedSplitsUpToToday(s, full) ==
    (announced \intersect Frame(s, full)) \union (IF pending THEN {last + 1} ELSE {})

\* Actions arrive as columns of the fetched frame.
FetchedSplits(s, full) == announced \intersect Frame(s, full)
NewSplits(s, full) == FetchedSplits(s, full) \ s.splits

\* The return-jump rule compares the first fetched bar with the last stored
\* close before it.  While nothing explains the jump, every later bar is
\* compared with that same close and quarantined too.
Jumps(s, full) ==
    /\ SplitsJump
    /\ \E p \in DOMAIN s.rows :
          /\ p < Start(s, full)
          /\ \A q \in DOMAIN s.rows : q < Start(s, full) => q <= p
          /\ s.rows[p].units # series[p].units

\* A well-formed bar on a known split date is let through, and the ones
\* after it are compared with it.
Explained(s, full, d) ==
    \E e \in (s.splits \union announced) \ spoiled : Start(s, full) <= e /\ e <= d

Valid(s, full) ==
    { d \in Frame(s, full) \ spoiled : Jumps(s, full) => Explained(s, full, d) }

\* Re-fetched rows up to the cursor.  Missing ones were inserted just before,
\* so they are compared as well, with themselves.
Compared(s, full) == { d \in Valid(s, full) : HasRows(s) /\ d <= Cursor(s) }

AdjMoved(s, d) == d \in DOMAIN s.rows /\ s.rows[d] # series[d]
CloseMoved(s, d) == d \in DOMAIN s.rows /\ Close(s.rows[d]) # Close(series[d])

Shifted(s, full) == { d \in Compared(s, full) : CloseMoved(s, d) }

\* Broken variant of Refused: every compared row must have shifted.
RefusedWhenAllShift(s, full) ==
    /\ ~full
    /\ NewSplits(s, full) = {}
    /\ Cardinality(Compared(s, full)) >= MinRows
    /\ Shifted(s, full) = Compared(s, full)

\* The raw-shift guard: most raw closes moved and no new split explains it.
Refused(s, full) ==
    /\ ~full
    /\ NewSplits(s, full) = {}
    /\ Cardinality(Compared(s, full)) >= MinRows
    /\ 2 * Cardinality(Shifted(s, full)) > Cardinality(Compared(s, full))

\* Re-adjustment evidence: adj_close moved before the newest fetched session,
\* and the raw close did not.
Evidence(s, full) ==
    { d \in Compared(s, full) :
        /\ AdjMoved(s, d)
        /\ ~CloseMoved(s, d)
        /\ \E e \in Valid(s, full) : d < e }

\* Broken variant of Escalates: splits only.
EscalatesOnSplits(s, full) == NewSplits(s, full) # {} /\ HasRows(s) /\ ~full

\* The tripwire.
Escalates(s, full) ==
    /\ Evidence(s, full) # {} \/ NewSplits(s, full) # {}
    /\ HasRows(s)
    /\ ~full

\* The store after the pass: actions recorded, new rows inserted, revised
\* rows overwritten; rows that were quarantined or not fetched stay.
After(s, full) ==
    [ rows |-> [ d \in DOMAIN s.rows \union Valid(s, full) |->
                   IF d \in Valid(s, full) THEN series[d] ELSE s.rows[d] ],
      splits |-> s.splits \union FetchedSplits(s, full) ]

-----------------------------------------------------------------------------
(* The service.                                                            *)

\* The daily incremental pass: refused, done, or escalated.
Ingest ==
    /\ phase = "idle"
    /\ IF Refused(db, FALSE)
       THEN /\ work' = db
            /\ outcome' = [ NoOutcome EXCEPT !.status = "failed" ]
            /\ phase' = "done"
       ELSE /\ work' = After(db, FALSE)
            /\ outcome' = [ status |-> "ok", fullRefresh |-> FALSE ]
            /\ phase' = IF Escalates(db, FALSE) THEN "refresh" ELSE "done"
    /\ UNCHANGED << last, series, announced, pending, spoiled, corrected, db >>

\* `mip ingest prices --full-refresh`.
IngestFull ==
    /\ phase = "idle"
    /\ work' = After(db, TRUE)
    /\ outcome' = [ status |-> "ok", fullRefresh |-> TRUE ]
    /\ phase' = "done"
    /\ UNCHANGED << last, series, announced, pending, spoiled, corrected, db >>

\* The escalated pass: a second fetch, over what the first one wrote.
Refresh ==
    /\ phase = "refresh"
    /\ work' = After(work, TRUE)
    /\ outcome' = [ outcome EXCEPT !.fullRefresh = TRUE ]
    /\ phase' = "done"
    /\ UNCHANGED << last, series, announced, pending, spoiled, corrected, db >>

\* Broken variant of RefreshFails: actions are recorded outside the savepoint.
RefreshFailsKeepingActions ==
    /\ phase = "refresh"
    /\ work' = [ db EXCEPT !.splits = work.splits ]
    /\ outcome' = [ NoOutcome EXCEPT !.status = "failed" ]
    /\ phase' = "done"
    /\ UNCHANGED << last, series, announced, pending, spoiled, corrected, db >>

\* The second fetch or the archive fails: the savepoint drops what the first
\* pass wrote as well, and the run goes on with other symbols.
RefreshFails ==
    /\ phase = "refresh"
    /\ work' = db
    /\ outcome' = [ NoOutcome EXCEPT !.status = "failed" ]
    /\ phase' = "done"
    /\ UNCHANGED << last, series, announced, pending, spoiled, corrected, db >>

\* The transaction of the run commits.
Commit ==
    /\ phase = "done"
    /\ db' = work
    /\ phase' = "idle"
    /\ outcome' = NoOutcome
    /\ UNCHANGED << last, series, announced, pending, spoiled, corrected, work >>

\* It rolls back: the process died, or the stage raised elsewhere.
RollBack ==
    /\ phase \in {"refresh", "done"}
    /\ work' = db
    /\ phase' = "idle"
    /\ outcome' = NoOutcome
    /\ UNCHANGED << last, series, announced, pending, spoiled, corrected, db >>

Service == Ingest \/ IngestFull \/ Refresh \/ RefreshFails \/ Commit \/ RollBack

Next == Provider \/ Service

Spec == Init /\ [][Next]_vars

CommitAsPlanned(full) ==
    Commit /\ outcome.status = "ok" /\ outcome.fullRefresh = full

\* Days pass, the schedule starts a run when none is in progress, and a run
\* ends.  The second fetch does not always fail, and runs that got through
\* (with or without a refresh) are not always rolled back.
FairSpec ==
    /\ Spec
    /\ WF_vars(NewSession)
    /\ WF_vars(Ingest)
    /\ WF_vars(Commit)
    /\ SF_vars(Refresh)
    /\ \A full \in BOOLEAN : SF_vars(CommitAsPlanned(full))

-----------------------------------------------------------------------------
(* Type invariant.                                                         *)

\* Every variable holds a value of its type.
TypeOK ==
    /\ last \in Sessions
    /\ series \in [ 1 .. last -> Bar ]
    /\ announced \subseteq 1 .. last
    /\ pending \in BOOLEAN
    /\ spoiled \subseteq Spoilable
    /\ corrected \in 0 .. MaxCorrections
    /\ IsStore(db)
    /\ IsStore(work)
    /\ phase \in {"idle", "refresh", "done"}
    /\ outcome \in Outcome

-----------------------------------------------------------------------------
(* Safety.                                                                 *)

\* By how many splits and dividends the row of d is behind the provider.
Lag(s, d) == << series[d].units - s.rows[d].units, series[d].divs - s.rows[d].divs >>

\* The stored rows that were never quarantined as malformed.
Sound(s) == DOMAIN s.rows \ Spoilable

\* The rows of a committed history are all on the same basis: same share
\* units, same dividend factor.  An incremental pass never leaves the
\* overlap on a newer basis than the rest (the tripwire and the guard).  Left
\* out is an instrument whose splits exceed the return-jump threshold and that
\* split twice (UnadjustedSplitsAreStopped in PriceClaims) or was served
\* malformed bars too: there quarantine may split the overlap.
OneBasis ==
    (SplitsJump => series[1].units <= 1 /\ Spoilable = {})
    => \A d, e \in Sound(db) : Lag(db, d) = Lag(db, e)

\* A recorded split has been applied to the whole history: it is never "new"
\* again, so nothing would make up for a refresh that did not happen.
\* Rows may be behind only by splits not recorded yet.
RecordedSplitsAreApplied ==
    \A d \in Sound(db) :
        Lag(db, d)[1] <= Cardinality(announced \ db.splits) + (IF pending THEN 1 ELSE 0)

\* The stored history has no holes: quarantining the bars before a split that
\* is new never lets the cursor move past them for good.
NoHoles == \A d \in DOMAIN db.rows : 1 .. d \subseteq DOMAIN db.rows \union Spoilable

-----------------------------------------------------------------------------
(* Liveness.                                                               *)

\* Once the provider stops rewriting history, the stored history ends up
\* complete and on the provider's basis, whatever failed on the way.
Converges ==
    <>[](/\ 1 .. last \subseteq DOMAIN db.rows \union Spoilable
         /\ \A d \in Sound(db) : Lag(db, d) = << 0, 0 >>)
=============================================================================
