--------------------------- MODULE NativeOutcomes ---------------------------
(***************************************************************************)
(* Native research data: vendor feeds are ingested under the security      *)
(* master's ids (research_data/ingest.py), daily returns are derived from  *)
(* them, and forward outcomes are computed, checksummed and frozen as      *)
(* snapshots (research_data/outcomes.py).                                  *)
(*                                                                         *)
(* Prices are levels on a logarithmic scale: a return is a difference and  *)
(* compounding is adding.  Returns are computed exactly, in quarters of    *)
(* the last decimal that a column keeps: that tells a value that can be    *)
(* stored from those below, at and above the half between two.  A checksum *)
(* is the set of what it is taken over.  A service call is one transaction *)
(* and one step.                                                           *)
(***************************************************************************)
EXTENDS Integers, FiniteSets, FiniteSetsExt, Functions, Tables

CONSTANTS
    Null,           \* no value
    Known,          \* the vendor ids the security master holds
    Feeds,          \* [version, bars, market, terminals]: what a vendor may deliver
    Versions,       \* data versions
    AsOfs,          \* the dates outcomes are computed for
    Horizon,        \* days to the end of an outcome's window
    MaxRuns         \* bound: ingestion runs

ASSUME RunsAssumption == MaxRuns \in Nat /\ Horizon \in Nat
ASSUME FeedsAssumption ==
    /\ Null \notin Int /\ AsOfs \subseteq Int
    /\ \A feed \in Feeds : \A b \in DOMAIN feed.bars :
          b = << b[1], b[2] >> /\ b[2] \in Int /\ feed.bars[b].level \in Int \union {Null}

VARIABLES
    bars,       \* [sid, date, version] -> [level, split, run]
    benchmark,  \* [date, version] -> [total, run]: the market's returns
    terminals,  \* sid -> [date, rule, value, resolved, version, run]
    returns,    \* [sid, date, version] -> [total, status, run]
    forwards,   \* rows of forward_return, each with its snapshot's checksum
    snapshots,  \* [name, checksum, version]
    quarantine, \* vendor ids the master did not know
    runs        \* ingestion runs so far

outcomeVars == << bars, benchmark, terminals, returns, forwards, snapshots, quarantine, runs >>

----------------------------------------------------------------------------
(***************************************************************************)
(* Ingestion.  Bars and market returns are plainly added: a feed that      *)
(* brings one again meets the unique constraint and is rolled back whole.  *)
(***************************************************************************)

Unresolved(t) == ~ t.resolved \/ (t.rule = "unknown" /\ t.value = Null)

\* Terminals are one row per security, whatever the version.
Terminal(feed, run) ==
    [ sid \in DOMAIN feed.terminals \intersect Known |->
        LET t == feed.terminals[sid]
        IN  [date |-> t.date, rule |-> t.rule, value |-> t.value, resolved |-> ~ Unresolved(t),
             version |-> feed.version, run |-> run] ]

Bars(feed, run) ==
    [ key \in { [sid |-> b[1], date |-> b[2], version |-> feed.version] :
                    b \in { b \in DOMAIN feed.bars : b[1] \in Known } } |->
        [level |-> feed.bars[<< key.sid, key.date >>].level, split |-> feed.bars[<< key.sid, key.date >>].split,
         run |-> run] ]

MarketReturns(feed, run) ==
    [ key \in { [date |-> d, version |-> feed.version] : d \in DOMAIN feed.market } |->
        [total |-> feed.market[key.date], run |-> run] ]

IngestOutcomes(feed) ==
    LET run == runs + 1
        new == Bars(feed, run)
        market == MarketReturns(feed, run)
    IN  /\ runs < MaxRuns
        /\ DOMAIN new \intersect DOMAIN bars = {}
        /\ DOMAIN market \intersect DOMAIN benchmark = {}
        /\ bars' = Over(new, bars)
        /\ benchmark' = Over(market, benchmark)
        /\ terminals' = Over(Terminal(feed, run), terminals)
        /\ quarantine' = quarantine \union ({ b[1] : b \in DOMAIN feed.bars } \ Known)
                         \union (DOMAIN feed.terminals \ Known)
        /\ runs' = run
        /\ UNCHANGED << returns, forwards, snapshots >>

----------------------------------------------------------------------------
(***************************************************************************)
(* Daily returns.                                                          *)
(***************************************************************************)

BarDates(sid, version) ==
    { key.date : key \in { k \in DOMAIN bars : k.sid = sid /\ k.version = version } }

Bar(sid, date, version) == bars[[sid |-> sid, date |-> date, version |-> version]]

Earlier(key) == { d \in BarDates(key.sid, key.version) : d < key.date }

\* A defect: the first bar is never moved on from.
First(key) == Min(Earlier(key))

\* The bar a bar's return is taken over: the one before it, days earlier or not.
Previous(key) == Max(Earlier(key))

BarReturn(key, run) ==
    LET before == Bar(key.sid, Previous(key), key.version)
    IN  IF Earlier(key) = {} THEN [total |-> Null, status |-> "normal", run |-> run]
        ELSE IF before.level = Null \/ bars[key].level = Null
             THEN [total |-> Null, status |-> "missing", run |-> run]
        ELSE [total |-> bars[key].level - before.level,
              status |-> IF bars[key].split THEN "corporate_action" ELSE "normal", run |-> run]

TerminalReturn(sid, run) ==
    IF terminals[sid].resolved /\ terminals[sid].value # Null
    THEN [total |-> terminals[sid].value, status |-> "delisting", run |-> run]
    ELSE [total |-> Null, status |-> "unresolved", run |-> run]

\* The row of the terminal event is written last, over the bar's of that day.
BuildReturns(version) ==
    LET run == runs + 1
        ofBars == [ key \in { k \in DOMAIN bars : k.version = version } |-> BarReturn(key, run) ]
        ofTerminals ==
            [ key \in { [sid |-> s, date |-> terminals[s].date, version |-> version] :
                            s \in DOMAIN terminals } |-> TerminalReturn(key.sid, run) ]
    IN  /\ runs < MaxRuns
        /\ returns' = Over(ofTerminals, Over(ofBars, returns))
        /\ runs' = run
        /\ UNCHANGED << bars, benchmark, terminals, forwards, snapshots, quarantine >>

----------------------------------------------------------------------------
(***************************************************************************)
(* Forward outcomes.                                                       *)
(***************************************************************************)

\* The market's returns after entry until exit: of every version there is.
Market(entry, exit) ==
    MapThenSumSet(LAMBDA key : benchmark[key].total,
        { key \in DOMAIN benchmark :
            entry < key.date /\ key.date <= exit /\ benchmark[key].total # Null })

Outcome(sid, asOf, entry, exit, total, status) ==
    [sid |-> sid, asOf |-> asOf, entry |-> entry, exit |-> exit, total |-> total,
     relative |-> IF total = Null THEN Null ELSE total - Market(entry, exit), status |-> status]

\* _compute_one over what is stored for the version.
Compute(sid, asOf, version) ==
    LET target == asOf + Horizon
        dates == BarDates(sid, version)
        Level(d) == Bar(sid, d, version).level
        priced(last) == { d \in dates : d <= last /\ Level(d) # Null }
        later == { d \in dates : d >= asOf }
        entry == Min(later)
        \* the last priced bar until a date, or the entry
        LastPriced(last) == IF priced(last) = {} THEN entry ELSE Max(priced(last))
        ends == sid \in DOMAIN terminals /\ terminals[sid].date \in entry .. target
        t == terminals[sid]
        leg == Level(LastPriced(t.date)) - Level(entry)
        exit == LastPriced(target)
    IN  IF later = {} THEN Outcome(sid, asOf, Null, Null, Null, "no_entry_price")
        ELSE IF Level(entry) = Null THEN Outcome(sid, asOf, Null, Null, Null, "no_entry_price")
        ELSE IF ends /\ (~ t.resolved \/ t.value = Null)
             THEN Outcome(sid, asOf, entry, t.date, Null, "unresolved")
        ELSE IF ends
             THEN Outcome(sid, asOf, entry, t.date, leg + t.value,
                          IF t.rule = "merger" THEN "terminated" ELSE "delisted_in_window")
        ELSE Outcome(sid, asOf, entry, exit, Level(exit) - Level(entry),
                     IF Max(dates) < target /\ sid \notin DOMAIN terminals THEN "truncated" ELSE "normal")

\* format(..., '.10f') rounds a half to the even neighbour; PostgreSQL stores a
\* Numeric(18, 10) with a half rounded away from zero.
HalfEven(total) ==
    total \div 4 + (IF total % 4 = 3 \/ (total % 4 = 2 /\ (total \div 4) % 2 = 1) THEN 1 ELSE 0)

HalfAway(total) ==
    total \div 4 + (IF total % 4 = 3 \/ (total % 4 = 2 /\ total >= 0) THEN 1 ELSE 0)

Minus(n) == IF n < 0 THEN "-" ELSE ""

\* How a computed total is written into the payload, and what its column keeps; a
\* small loss is written as minus nothing and kept as nothing.
Printed(total) == IF total \in Int THEN << Minus(total), HalfEven(total) >> ELSE Null
Column(total) == IF total \in Int THEN HalfAway(total) ELSE Null

\* What a checksum is taken over.
Payload(computed) == { << c.sid, c.asOf, c.status, Printed(c.total) >> : c \in computed }

\* the check constraint fwd_exit_after_entry
InOrder(c) == (c.exit # Null /\ c.entry # Null) => c.exit >= c.entry

\* A defect: an outcome that was computed before is updated in place.
PersistedOver(rows) ==
    { f \in forwards : \A r \in rows : << f.sid, f.asOf >> # << r.sid, r.asOf >> } \union rows

\* _persist: new rows, stamped with the snapshot's checksum.  `total' is the return
\* as it was computed, `column' what is stored of it.
Persisted(rows) == forwards \union rows

\* uq_rds_name_ver, uq_fwd_natural and fwd_exit_after_entry: a snapshot of the
\* same name, or of the same outcomes, or with an outcome that ends before it
\* begins, cannot be added.
BuildSnapshot(name, version) ==
    LET computed == { Compute(sid, asOf, version) : sid \in Known, asOf \in AsOfs }
        checksum == Payload(computed)
        rows == { Over([checksum |-> checksum, version |-> version, run |-> runs + 1,
                        column |-> Column(c.total)], c) : c \in computed }
    IN  /\ runs < MaxRuns
        /\ \A s \in snapshots : s.name # name
        /\ \A f \in forwards : f.checksum # checksum
        /\ \A c \in computed : InOrder(c)
        /\ forwards' = Persisted(rows)
        /\ snapshots' = snapshots \union {[name |-> name, checksum |-> checksum, version |-> version]}
        /\ runs' = runs + 1
        /\ UNCHANGED << bars, benchmark, terminals, returns, quarantine >>

\* How a stored return is written when it is read again.
Reprinted(column) == IF column \in Int THEN << Minus(column), column >> ELSE Null

RowsOf(checksum) == { f \in forwards : f.checksum = checksum }

\* rebuild_checksum: over the persisted rows that carry the checksum.
Rebuilt(checksum) == { << f.sid, f.asOf, f.status, Reprinted(f.column) >> : f \in RowsOf(checksum) }

----------------------------------------------------------------------------
Nothing == [ none \in {} |-> Null ]

OutcomeInit ==
    /\ bars = Nothing /\ benchmark = Nothing /\ terminals = Nothing /\ returns = Nothing
    /\ forwards = {} /\ snapshots = {} /\ quarantine = {} /\ runs = 0

OutcomeNext ==
    \/ \E feed \in Feeds : IngestOutcomes(feed)
    \/ \E version \in Versions : BuildReturns(version)
    \/ \E name \in 1 .. MaxRuns, version \in Versions : BuildSnapshot(name, version)

----------------------------------------------------------------------------
(***************************************************************************)
(* Properties.                                                             *)
(***************************************************************************)

\* A total that is no half between two storable values, and no loss of less than
\* half of the smallest: printed before it is stored or after, it reads the same.
RoundsAlike(total) == total \in Int => total % 4 # 2 /\ ~ (-2 < total /\ total < 0)

\* "A FROZEN snapshot may never be mutated; rebuilding from the same inputs yields
\* the same `snapshot_checksum`" (domain/models.py:1097): however feeds,
\* corrections and further snapshots follow, the rows persisted for a snapshot,
\* one for every security and date, delisted or not, give its checksum again
\* (outcomes.py:484-505) - unless one of its totals rounds differently when it is
\* printed and when it is stored.  Such a snapshot does not verify although
\* nothing was changed: the checksum is taken over the unrounded totals
\* (outcomes.py:411-416), 20.48 -> 20.49 is printed as .0004882812 and stored as
\* .0004882813.
SnapshotsVerify ==
    \A s \in snapshots :
        /\ (\A f \in RowsOf(s.checksum) : RoundsAlike(f.total)) => Rebuilt(s.checksum) = s.checksum
        /\ \A sid \in Known, asOf \in AsOfs :
               Cardinality({ f \in RowsOf(s.checksum) : f.sid = sid /\ f.asOf = asOf }) = 1

\* The days of a window that a daily return was derived for.
DaysWithin(f) == { d \in BarDates(f.sid, f.version) : f.entry < d /\ d <= f.exit }

Daily(f, d) == returns[[sid |-> f.sid, date |-> d, version |-> f.version]]

\* Both derivations saw the same bars and terminals.
SameInputs(f) ==
    LET read == { bars[k].run : k \in { k \in DOMAIN bars : k.version = f.version } }
                \union { terminals[s].run : s \in DOMAIN terminals }
    IN  \A d \in DaysWithin(f) :
            /\ [sid |-> f.sid, date |-> d, version |-> f.version] \in DOMAIN returns
            /\ \A run \in read : run < Daily(f, d).run /\ run < f.run

\* The daily returns and the forward outcomes are derived from the bars by
\* different code (outcomes.py:80-121, 278-382).  Where both saw the same data
\* and no bar of the window lacks a price, compounding the daily returns from
\* entry to exit gives the absolute return of a normal or truncated outcome (both
\* before they are rounded), over gaps in trading and next to terminal events.
DailyReturnsCompound ==
    \A f \in forwards :
        (/\ f.status \in {"normal", "truncated"} /\ SameInputs(f)
         /\ \A d \in DaysWithin(f) : Daily(f, d).total # Null)
        => f.total = MapThenSumSet(LAMBDA d : Daily(f, d).total, DaysWithin(f))
=============================================================================
