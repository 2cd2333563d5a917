------------------------------- MODULE Ledger -------------------------------
(***************************************************************************)
(* The portfolio ledger and its projections (portfolio/importers.py,       *)
(* lots.py, snapshots.py, repositories/portfolio.py).                      *)
(*                                                                         *)
(* Importers append files of transactions; the ledger is never changed     *)
(* otherwise.  Rebuilders replay it, first in, first out, into lots,       *)
(* closures and daily snapshots.  An import and a rebuild are one database *)
(* transaction each, at PostgreSQL's default isolation: every statement    *)
(* sees what is committed when it starts, so a rebuild reads the ledger    *)
(* twice and may see two of them.  Nothing keeps two rebuilds apart but    *)
(* the rows both delete: the table of lots has no unique constraint.       *)
(*                                                                         *)
(* Shares are counted; amounts, fees and gains are functions of them that  *)
(* nothing here depends on.                                                *)
(***************************************************************************)
EXTENDS Integers, Sequences, FiniteSetsExt, Functions

CONSTANTS
    Instruments,   \* instruments the universe knows
    None,          \* no instrument; no close
    Files,         \* what may be imported: sequences of rows
    TradingDays,   \* the trading calendar
    Importers,     \* processes that import
    Rebuilders,    \* processes that rebuild: the update, `mip portfolio rebuild`
    LongTerm,      \* LONG_TERM_DAYS
    MaxId,         \* bound: transaction ids handed out
    MaxCrashes     \* bound: rebuilds that die half-way

ASSUME CalendarAssumption == TradingDays \subseteq Nat /\ IsFiniteSet(TradingDays)
ASSUME BoundAssumption == LongTerm \in Nat /\ MaxId \in Nat /\ MaxCrashes \in Nat
ASSUME FilesAssumption ==
    \A file \in Files : file \in Seq(Range(file))
                        /\ \A k \in DOMAIN file : file[k].date \in Int /\ file[k].quantity \in Int
ASSUME NoneAssumption == None \notin Instruments /\ None \notin Nat

VARIABLES
    ledger,      \* committed transactions, by id
    nextId,      \* the id sequence, which no rollback sets back
    priced,      \* the days each instrument has an adjusted close for
    lots,        \* committed lots, with their closures
    snapshots,   \* committed position snapshots, by instrument and day
    importer,    \* what each importer is doing
    rebuilder,   \* what each rebuilder is doing
    crashes,     \* history: the rebuilds that died half-way
    overlaps     \* history: the pairs whose last builds were deleting and inserting at once

vars == << ledger, nextId, priced, lots, snapshots, importer, rebuilder, crashes, overlaps >>

Opening == {"buy", "transfer_in", "opening_balance"}
Closing == {"sell", "transfer_out"}
CashOnly == {"dividend", "fee", "deposit", "withdrawal"}

\* The rows of the four tables.
Transaction == [ ext : { row.ext : row \in UNION { Range(f) : f \in Files } },
                 type : Opening \union Closing \union CashOnly,
                 instr : Instruments \union {None}, date : Nat, quantity : Nat ]
LotClosure == [ lot : 1 .. MaxId, by : 1 .. MaxId, quantity : Nat \ {0},
                atCost : BOOLEAN, term : {"short", "long"} ]
Lot == [ by : Rebuilders, open : 1 .. MaxId, instr : Instruments, opened : Nat \ {0},
         remaining : Nat, closures : SUBSET LotClosure ]
PositionSnapshot == [ instr : Instruments, day : TradingDays, quantity : Nat \ {0},
                      close : TradingDays \union {None} ]

\* The empty function: no rows.
Empty == [ x \in {} |-> x ]

ExtIds(txns) == { txns[i].ext : i \in DOMAIN txns }

IdleImporter == [ pc |-> "idle", fresh |-> Empty, pending |-> Empty ]
IdleRebuilder ==
    [ pc |-> "idle", view |-> Empty, replayed |-> {}, cleared |-> {}, doomed |-> {},
      alongside |-> {}, lots |-> {}, days |-> {}, rows |-> {} ]

Init ==
    /\ ledger = Empty
    /\ nextId = 1
    /\ priced = [ i \in Instruments |-> {} ]
    /\ lots = {}
    /\ snapshots = {}
    /\ importer = [ c \in Importers |-> IdleImporter ]
    /\ rebuilder = [ r \in Rebuilders |-> IdleRebuilder ]
    /\ crashes = 0
    /\ overlaps = {}

-----------------------------------------------------------------------------
(* Import.                                                                 *)

\* CanonicalTransaction.validate.
ValidRow(row) ==
    /\ row.type \in Opening \union Closing \union CashOnly
    /\ row.type \in Opening \union Closing => row.instr # None /\ row.quantity > 0
    /\ row.type \in CashOnly => row.quantity = 0

\* A file is imported only if every row is valid, every symbol known and no
\* external id appears twice.
Acceptable(file) ==
    /\ \A k \in DOMAIN file : ValidRow(file[k]) /\ file[k].instr \in Instruments \union {None}
    /\ \A j, k \in DOMAIN file : file[j].ext = file[k].ext => j = k

\* The duplicates are filtered against what is committed now.
BeginImport(c, file) ==
    /\ importer[c].pc = "idle"
    /\ Acceptable(file)
    /\ importer' = [ importer EXCEPT ![c] =
          [ @ EXCEPT !.pc = "checked",
                     !.fresh = Restrict(file, { k \in DOMAIN file : file[k].ext \notin ExtIds(ledger) }) ] ]
    /\ UNCHANGED << ledger, nextId, priced, lots, snapshots, rebuilder, crashes, overlaps >>

\* An uncommitted row with the same external id makes the unique index wait.
Contended(c) ==
    \E o \in Importers \ {c} :
        ExtIds(importer[o].pending) \intersect ExtIds(importer[c].fresh) # {}

MaxOrZero(set) == IF set = {} THEN 0 ELSE Max(set)

\* The rows of a transaction that inserts `fresh`, numbered from the sequence in
\* the order of the file; a number is left out where a duplicate was, which
\* changes nothing, as only the order of ids counts.
Numbered(fresh) ==
    [ id \in { nextId + k - 1 : k \in DOMAIN fresh } |-> fresh[id - nextId + 1] ]

NumbersAfter(fresh) == nextId + MaxOrZero(DOMAIN fresh)

\* Broken variant of AppendRows: no unique constraint behind the check.
AppendRowsUnchecked(c) ==
    /\ importer[c].pc = "checked"
    /\ NumbersAfter(importer[c].fresh) <= MaxId + 1
    /\ importer' = [ importer EXCEPT ![c].pc = "appended",
                                     ![c].pending = Numbered(importer[c].fresh) ]
    /\ nextId' = NumbersAfter(importer[c].fresh)
    /\ UNCHANGED << ledger, priced, lots, snapshots, rebuilder, crashes, overlaps >>

\* append_transactions: plain inserts, under the unique constraint.
AppendRows(c) ==
    /\ importer[c].pc = "checked"
    /\ NumbersAfter(importer[c].fresh) <= MaxId + 1
    /\ ~Contended(c)
    /\ ExtIds(importer[c].fresh) \intersect ExtIds(ledger) = {}
    /\ importer' = [ importer EXCEPT ![c].pc = "appended",
                                     ![c].pending = Numbered(importer[c].fresh) ]
    /\ nextId' = NumbersAfter(importer[c].fresh)
    /\ UNCHANGED << ledger, priced, lots, snapshots, rebuilder, crashes, overlaps >>

CommitImport(c) ==
    /\ importer[c].pc = "appended"
    /\ ledger' = [ id \in DOMAIN ledger \union DOMAIN importer[c].pending |->
                     IF id \in DOMAIN ledger THEN ledger[id] ELSE importer[c].pending[id] ]
    /\ importer' = [ importer EXCEPT ![c] = IdleImporter ]
    /\ UNCHANGED << nextId, priced, lots, snapshots, rebuilder, crashes, overlaps >>

\* A unique violation, or the process dies: nothing of the file is kept.
AbortImport(c) ==
    /\ importer[c].pc # "idle"
    /\ importer' = [ importer EXCEPT ![c] = IdleImporter ]
    /\ UNCHANGED << ledger, nextId, priced, lots, snapshots, rebuilder, crashes, overlaps >>

-----------------------------------------------------------------------------
(* Replay.                                                                 *)

\* Replay order: (trade_date, id).
Before(txns, a, b) ==
    \/ txns[a].date < txns[b].date
    \/ txns[a].date = txns[b].date /\ a < b

LatestOf(txns, ids) == CHOOSE a \in ids : \A b \in ids \ {a} : Before(txns, b, a)

\* The transactions that a replay looks at.
Positions(txns) == { id \in DOMAIN txns : txns[id].instr # None }

LotsOf(txns, ids, i) == { l \in ids : txns[l].instr = i }

\* Broken variant of Taken: takes from the newest lot.
TakenLast(txns, remaining, held, q, l) ==
    LET later == MapThenSumSet(LAMBDA m : remaining[m], { m \in held : Before(txns, l, m) })
    IN  Min({remaining[l], Max({0, q - later})})

\* First in, first out: what a disposal of q shares takes from lot l, the lots
\* before it being taken from first.
Taken(txns, remaining, held, q, l) ==
    LET earlier == MapThenSumSet(LAMBDA m : remaining[m], { m \in held : Before(txns, m, l) })
    IN  Min({remaining[l], Max({0, q - earlier})})

\* The slices that disposal id closes.  A transfer leaves at cost.
Slices(txns, state, id) ==
    LET held == LotsOf(txns, DOMAIN state.remaining, txns[id].instr)
        taken(l) == Taken(txns, state.remaining, held, txns[id].quantity, l)
    IN  { [ lot |-> l, by |-> id, quantity |-> taken(l),
            atCost |-> txns[id].type = "transfer_out",
            term |-> IF txns[id].date - txns[l].date > LongTerm THEN "long" ELSE "short" ]
          : l \in { m \in held : taken(m) > 0 } }

\* One step of the replay, from the state the earlier transactions left.
\* Disposing of more than is held is an error, which ends it.
Step(txns, id, state) ==
    LET t == txns[id]
        slices == Slices(txns, state, id)
        closed == MapThenSumSet(LAMBDA c : c.quantity, slices)
        ClosedOf(l) == MapThenSumSet(LAMBDA c : c.quantity, { c \in slices : c.lot = l })
    IN  CASE ~state.ok -> state
          [] state.ok /\ t.type \in Opening ->
               [ state EXCEPT !.remaining =
                   [ l \in DOMAIN @ \union {id} |-> IF l = id THEN t.quantity ELSE @[l] ] ]
          [] state.ok /\ t.type \in Closing /\ closed = t.quantity ->
               [ state EXCEPT !.remaining = [ l \in DOMAIN @ |-> @[l] - ClosedOf(l) ],
                              !.closures = @ \union slices ]
          [] state.ok /\ t.type \in Closing /\ closed # t.quantity -> [ state EXCEPT !.ok = FALSE ]
          [] OTHER -> state

\* LotEngine.replay, of the transactions in ids.
Replay(txns, ids) ==
    \* (s is bound by a set so that TLC evaluates the fold's state once.)
    MapThenFoldSet(LAMBDA id, state : CHOOSE next \in { Step(txns, id, s) : s \in {state} } : TRUE,
                   [ remaining |-> Empty, closures |-> {}, ok |-> TRUE ],
                   LAMBDA id : id,
                   LAMBDA S : LatestOf(txns, S),
                   ids)

-----------------------------------------------------------------------------
(* Snapshots.                                                              *)

Through(txns, d) == { id \in Positions(txns) : txns[id].date <= d }

\* Broken variant of CloseFor: the newest close.
CloseForNewest(i, d) == IF priced[i] = {} THEN None ELSE Max(priced[i])

\* Latest close at or before the day.
CloseFor(i, d) ==
    LET known == { p \in priced[i] : p <= d }
    IN  IF known = {} THEN None ELSE Max(known)

Traded(txns) == { txns[id].instr : id \in Positions(txns) }
PricedDays(txns) == UNION { priced[i] : i \in Traded(txns) }

\* The days a build covers: none if nothing traded or nothing is priced.
SnapshotDays(txns) ==
    IF PricedDays(txns) = {} THEN {}
    ELSE { d \in TradingDays :
             /\ \E id \in Positions(txns) : txns[id].date <= d
             /\ d <= Max(PricedDays(txns)) }

\* The shares of i that the lots of a replay still hold.
HeldShares(txns, state, i) ==
    MapThenSumSet(LAMBDA l : state.remaining[l], LotsOf(txns, DOMAIN state.remaining, i))

\* The rows of a day, from the lots open at its end.
DayRows(txns, d, state) ==
    { [ instr |-> i, day |-> d, quantity |-> HeldShares(txns, state, i), close |-> CloseFor(i, d) ]
      : i \in { j \in Traded(txns) : HeldShares(txns, state, j) > 0 } }

\* The rows of a build: each day is replayed anew.
SnapshotRows(txns) ==
    UNION { UNION { DayRows(txns, d, state) : state \in { Replay(txns, Through(txns, d)) } }
            : d \in SnapshotDays(txns) }

-----------------------------------------------------------------------------
(* Rebuild: one transaction.                                               *)

\* rebuild_lots reads the ledger and replays it; an oversell raises.
ReadLedger(r) ==
    /\ rebuilder[r].pc = "idle"
    /\ \E state \in { Replay(ledger, Positions(ledger)) } :
          /\ state.ok
          /\ rebuilder' = [ rebuilder EXCEPT ![r] =
                [ @ EXCEPT !.pc = "read", !.view = ledger, !.replayed = state ] ]
    /\ UNCHANGED << ledger, nextId, priced, lots, snapshots, importer, crashes, overlaps >>

\* delete_derived, first statement: it will delete the closures committed by now,
\* which are those of the lots in `cleared`.
DeleteClosures(r) ==
    /\ rebuilder[r].pc = "read"
    /\ rebuilder' = [ rebuilder EXCEPT ![r].pc = "clearing",
                                       ![r].cleared = { lot \in lots : lot.closures # {} } ]
    /\ UNCHANGED << ledger, nextId, priced, lots, snapshots, importer, crashes, overlaps >>

\* Rows that another transaction has deleted and not committed make a
\* statement wait.
AwaitsClosures(r) ==
    \E o \in Rebuilders \ {r} :
        /\ rebuilder[o].pc \in {"deleting", "inserted", "built"}
        /\ rebuilder[o].cleared \intersect rebuilder[r].cleared # {}

AwaitsLots(r) ==
    \E o \in Rebuilders \ {r} :
        /\ rebuilder[o].pc \in {"inserted", "built"}
        /\ rebuilder[o].doomed \intersect rebuilder[r].doomed # {}

\* The rebuilds that are past the start of their second delete.
Underway == { r \in Rebuilders : rebuilder[r].pc \in {"deleting", "inserted", "built"} }

\* r's second delete is under way, of rows, beside that of the others.
StartDeleting(r, rows) ==
    rebuilder' = [ o \in Rebuilders |->
        IF o = r THEN [ rebuilder[r] EXCEPT !.pc = "deleting", !.doomed = rows,
                                            !.alongside = Underway ]
        ELSE IF o \in Underway THEN [ rebuilder[o] EXCEPT !.alongside = @ \union {r} ]
        ELSE rebuilder[o] ]

\* Broken variant of DeleteLots: lots that are closed stay.
DeleteOpenLots(r) ==
    /\ rebuilder[r].pc = "clearing"
    /\ ~AwaitsClosures(r)
    /\ StartDeleting(r, { lot \in lots : lot.remaining > 0 })
    /\ UNCHANGED << ledger, nextId, priced, lots, snapshots, importer, crashes, overlaps >>

\* Its second statement starts: it will delete the lots committed by now.
DeleteLots(r) ==
    /\ rebuilder[r].pc = "clearing"
    /\ ~AwaitsClosures(r)
    /\ StartDeleting(r, lots)
    /\ UNCHANGED << ledger, nextId, priced, lots, snapshots, importer, crashes, overlaps >>

\* A lot that was committed between the two statements still has its closures,
\* which refer to it.
StillReferred(r) ==
    \E lot \in rebuilder[r].doomed \ rebuilder[r].cleared : lot.closures # {}

\* The foreign key refuses the delete: everything is rolled back.
RejectDelete(r) ==
    /\ rebuilder[r].pc = "deleting"
    /\ ~AwaitsLots(r)
    /\ StillReferred(r)
    /\ rebuilder' = [ rebuilder EXCEPT ![r] = IdleRebuilder ]
    /\ UNCHANGED << ledger, nextId, priced, lots, snapshots, importer, crashes, overlaps >>

\* The lots of a replay of txns, as rows of r.
LotRows(r, txns, state) ==
    { [ by |-> r, open |-> l, instr |-> txns[l].instr, opened |-> txns[l].quantity,
        remaining |-> state.remaining[l],
        closures |-> { c \in state.closures : c.lot = l } ]
      : l \in DOMAIN state.remaining }

InsertLots(r) ==
    /\ rebuilder[r].pc = "deleting"
    /\ ~AwaitsLots(r)
    /\ ~StillReferred(r)
    /\ rebuilder' = [ rebuilder EXCEPT ![r] =
          [ @ EXCEPT !.pc = "inserted", !.view = Empty, !.replayed = {},
                     !.lots = LotRows(r, rebuilder[r].view, rebuilder[r].replayed) ] ]
    /\ UNCHANGED << ledger, nextId, priced, lots, snapshots, importer, crashes, overlaps >>

\* Broken variant of CanBuild: only once the last trading day is priced.
CanBuildUpToDate ==
    /\ SnapshotDays(ledger) = { d \in TradingDays : \E id \in Positions(ledger) : ledger[id].date <= d }
    /\ Replay(ledger, Through(ledger, Max(SnapshotDays(ledger)))).ok

\* A build needs a transaction, a price, a day between them and no oversell by
\* the last day.
CanBuild ==
    /\ SnapshotDays(ledger) # {}
    /\ Replay(ledger, Through(ledger, Max(SnapshotDays(ledger)))).ok

\* SnapshotBuilder.build reads the ledger again.
BuildSnapshots(r) ==
    /\ rebuilder[r].pc = "inserted"
    /\ CanBuild
    /\ rebuilder' = [ rebuilder EXCEPT ![r].pc = "built", ![r].view = ledger,
                                       ![r].days = SnapshotDays(ledger),
                                       ![r].rows = SnapshotRows(ledger) ]
    /\ UNCHANGED << ledger, nextId, priced, lots, snapshots, importer, crashes, overlaps >>

\* The builds r leaves in the table, and the pairs of them that overlapped.
BuildsAfter(r) == { r } \union { lot.by : lot \in lots \ rebuilder[r].doomed }
OverlapsAfter(r) ==
    { pair \in overlaps : r \notin pair /\ pair \subseteq BuildsAfter(r) }
        \union { {r, o} : o \in rebuilder[r].alongside \intersect BuildsAfter(r) }

\* r is done; the deletes of the others pass over the rows it has deleted.
RebuildersAfter(r) ==
    [ o \in Rebuilders |->
        IF o = r THEN IdleRebuilder
        ELSE [ rebuilder[o] EXCEPT !.doomed = @ \ rebuilder[r].doomed,
                                   !.cleared = @ \ rebuilder[r].doomed ] ]

\* Broken variant of CommitRebuild: the old lots stay.
CommitRebuildKeepingLots(r) ==
    /\ rebuilder[r].pc = "built"
    /\ lots' = lots \union rebuilder[r].lots
    /\ snapshots' = rebuilder[r].rows
    /\ overlaps' = OverlapsAfter(r)
    /\ rebuilder' = RebuildersAfter(r)
    /\ UNCHANGED << ledger, nextId, priced, importer, crashes >>

\* The upsert, which deletes nothing, and the commit.
CommitRebuild(r) ==
    /\ rebuilder[r].pc = "built"
    /\ lots' = (lots \ rebuilder[r].doomed) \union rebuilder[r].lots
    /\ snapshots' = rebuilder[r].rows \union
          { old \in snapshots :
              \A new \in rebuilder[r].rows : << new.instr, new.day >> # << old.instr, old.day >> }
    /\ overlaps' = OverlapsAfter(r)
    /\ rebuilder' = RebuildersAfter(r)
    /\ UNCHANGED << ledger, nextId, priced, importer, crashes >>

\* Nothing to build, or an oversell imported since: everything is rolled back.
FailBuild(r) ==
    /\ rebuilder[r].pc = "inserted"
    /\ ~CanBuild
    /\ rebuilder' = [ rebuilder EXCEPT ![r] = IdleRebuilder ]
    /\ UNCHANGED << ledger, nextId, priced, lots, snapshots, importer, crashes, overlaps >>

\* The process dies: rolled back too.
CrashRebuild(r) ==
    /\ rebuilder[r].pc # "idle"
    /\ crashes < MaxCrashes
    /\ crashes' = crashes + 1
    /\ rebuilder' = [ rebuilder EXCEPT ![r] = IdleRebuilder ]
    /\ UNCHANGED << ledger, nextId, priced, lots, snapshots, importer, overlaps >>

\* Price ingestion stores the close of a day.
Price(i, d) ==
    /\ d \notin priced[i]
    /\ priced' = [ priced EXCEPT ![i] = @ \union {d} ]
    /\ UNCHANGED << ledger, nextId, lots, snapshots, importer, rebuilder, crashes, overlaps >>

-----------------------------------------------------------------------------
Import(c) == (\E f \in Files : BeginImport(c, f)) \/ AppendRows(c) \/ CommitImport(c) \/ AbortImport(c)

RebuildStep(r) ==
    ReadLedger(r) \/ DeleteClosures(r) \/ DeleteLots(r) \/ RejectDelete(r) \/ InsertLots(r)
        \/ BuildSnapshots(r) \/ FailBuild(r) \/ CommitRebuild(r)

Next ==
    \/ \E c \in Importers : Import(c)
    \/ \E r \in Rebuilders : RebuildStep(r) \/ CrashRebuild(r)
    \/ \E i \in Instruments, d \in TradingDays : Price(i, d)

Spec == Init /\ [][Next]_vars

\* The update rebuilds daily, and not every rebuild dies.
Fairness == \A r \in Rebuilders : WF_vars(RebuildStep(r))

FairSpec == Spec /\ Fairness

-----------------------------------------------------------------------------
(* Properties.                                                             *)

\* However importers interleave, crash and re-import a file, a transaction of
\* the broker is in the ledger once (repositories/portfolio.py:61, the unique
\* constraint at domain/models.py:428).
ImportOnce ==
    \A a, b \in DOMAIN ledger : ledger[a].ext = ledger[b].ext => a = b

ClosedShares(closures) == MapThenSumSet(LAMBDA c : c.quantity, closures)
ClosuresOf(rows) == UNION { lot.closures : lot \in rows }

\* Rows account for every share of the transactions they were built from: one
\* lot per opening transaction, what is not closed remains, and a disposal
\* closes what it sold.
Conserve(rows) ==
    /\ \A a, b \in rows : a.open = b.open => a = b
    /\ \A lot \in rows :
          /\ lot.open \in DOMAIN ledger
          /\ lot.opened = ledger[lot.open].quantity
          /\ lot.remaining >= 0
          /\ lot.opened = lot.remaining + ClosedShares(lot.closures)
    /\ \A c \in ClosuresOf(rows) :
          ClosedShares({ e \in ClosuresOf(rows) : e.by = c.by }) = ledger[c.by].quantity

LotsBy(r) == { lot \in lots : lot.by = r }

\* However rebuilds interleave, wait, fail and die, the lots that one of them
\* committed stand whole or not at all and account for every share they were
\* built from (lots.py:101), and the lots of two rebuilds stand side by side
\* only where the two were deleting and inserting at the same time: a rebuild
\* that had the table to itself leaves every share in it once.
BuildsConserveShares ==
    /\ \A r \in Rebuilders : Conserve(LotsBy(r))
    /\ \A a, b \in lots : a.by # b.by => {a.by, b.by} \in overlaps

\* First in, first out: when a disposal takes from a lot, every earlier lot of
\* the instrument in the same build is used up by then, back-dated imports
\* included (lots.py:67).
FirstInFirstOut ==
    \A a, b \in lots : \A c \in b.closures :
        a.by = b.by /\ a.instr = b.instr /\ Before(ledger, a.open, b.open) =>
            a.opened = ClosedShares({ e \in a.closures : e.by = c.by \/ Before(ledger, e.by, c.by) })

NetShares(txns, i, d) ==
    LET through(types) == { id \in Through(txns, d) : txns[id].instr = i /\ txns[id].type \in types }
        shares(ids) == MapThenSumSet(LAMBDA id : txns[id].quantity, ids)
    IN  shares(through(Opening)) - shares(through(Closing))

\* A build knows nothing of the future: the position of a day is what was bought
\* less what was sold by then, at a close of that day or before (snapshots.py:40).
SnapshotsArePointInTime ==
    \A r \in Rebuilders : rebuilder[r].pc = "built" =>
        \A i \in Instruments, d \in rebuilder[r].days :
            LET net == NetShares(rebuilder[r].view, i, d)
                rows == { row \in rebuilder[r].rows : row.instr = i /\ row.day = d }
            IN  /\ net >= 0
                /\ { row.quantity : row \in rows } = {net} \ {0}
                /\ \A row \in rows : row.close = None \/ row.close <= d

\* The lots hold exactly what the ledger says is left, if perhaps in two builds.
LotsMirrorLedger ==
    /\ { lot.open : lot \in lots } = { id \in DOMAIN ledger : ledger[id].type \in Opening }
    /\ { c.by : c \in ClosuresOf(lots) } = { id \in DOMAIN ledger : ledger[id].type \in Closing }

\* Whatever is imported during a rebuild, the lots end up mirroring the ledger,
\* unless it oversells or nothing it trades has a price: then no rebuild passes
\* (lots.py:113, snapshots.py:54).
ProjectionsCatchUp ==
    <>[](\/ LotsMirrorLedger
         \/ SnapshotDays(ledger) = {}
         \/ ~Replay(ledger, Positions(ledger)).ok)
=============================================================================
