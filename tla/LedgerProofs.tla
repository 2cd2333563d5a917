---------------------------- MODULE LedgerProofs ----------------------------
(***************************************************************************)
(* Proofs about Ledger, for every set of files and any number of importers *)
(* and rebuilders: no transaction is imported twice; what a replay leaves  *)
(* accounts for every share, first in, first out; snapshots know nothing   *)
(* of the future.                                                          *)
(***************************************************************************)
EXTENDS Ledger, Sums, FunctionTheorems

UniqueExt(txns) == \A a, b \in DOMAIN txns : txns[a].ext = txns[b].ext => a = b

\* The positions of a file.
Numbers(positions) == \E n \in Nat : positions \subseteq 1 .. n

\* Rows that no transaction has committed are of their importer alone.
ImporterOK(c) ==
    /\ DOMAIN importer[c] = { "pc", "fresh", "pending" }
    /\ Numbers(DOMAIN importer[c].fresh)
    /\ UniqueExt(importer[c].fresh)
    /\ UniqueExt(importer[c].pending)
    /\ ExtIds(importer[c].pending) \intersect ExtIds(ledger) = {}

Apart(c, o) == ExtIds(importer[c].pending) \intersect ExtIds(importer[o].pending) = {}

ImportInv ==
    /\ nextId \in Nat
    /\ ImportOnce
    /\ DOMAIN importer = Importers
    /\ \A c \in Importers : ImporterOK(c)
    /\ \A c, o \in Importers : c # o => Apart(c, o)

-----------------------------------------------------------------------------
LEMMA EmptyHasNoRows ==
    DOMAIN Empty = {} /\ ExtIds(Empty) = {} /\ UniqueExt(Empty) /\ Numbers(DOMAIN Empty)
<1>1. DOMAIN Empty = {}
  BY DEF Empty
<1>2. {} \subseteq 1 .. 0
  OBVIOUS
<1>3. QED
  BY <1>1, <1>2 DEF ExtIds, UniqueExt, Numbers

LEMMA IdleHasNoRows ==
    /\ DOMAIN IdleImporter = { "pc", "fresh", "pending" }
    /\ IdleImporter.fresh = Empty /\ IdleImporter.pending = Empty
  BY DEF IdleImporter

\* Positions, if there are any, have a last one.
LEMMA LastPosition ==
    ASSUME NEW S, Numbers(S)
    PROVE  MaxOrZero(S) \in Nat
<1>1. CASE S = {}
  BY <1>1 DEF MaxOrZero
<1>2. CASE S # {}
  <2>1. PICK n \in Nat : S \subseteq 1 .. n
    BY DEF Numbers
  <2> DEFINE T == { n - x : x \in S }
  <2>2. T \subseteq Nat /\ T # {}
    <3>1. ASSUME NEW x \in S PROVE n - x \in Nat
      <4>1. x \in 1 .. n
        BY <2>1
      <4>2. QED
        BY <2>1, <4>1
    <3>2. PICK x \in S : TRUE
      BY <1>2
    <3>3. n - x \in T
      OBVIOUS
    <3>4. QED
      BY <3>1, <3>3
  <2>3. PICK t \in T : \A y \in T : ~ (<< y, t >> \in OpToRel(<, Nat))
    BY <2>2, NatLessThanWellFounded, WFMin
  <2>4. \A y \in T : ~ (y < t)
    BY <2>2, <2>3 DEF OpToRel
  <2>5. PICK x \in S : t = n - x
    OBVIOUS
  <2>6. ASSUME NEW y \in S PROVE x >= y
    <3>1. x \in Int /\ y \in Int /\ n - y \in T
      BY <2>1, <2>5
    <3>2. ~ (n - y < n - x)
      BY <2>4, <2>5, <3>1
    <3>3. QED
      BY <3>1, <3>2
  <2>7. Max(S) \in S
    BY <2>6, Zenon DEF Max
  <2>8. \A m \in S : m \in Nat
    BY <2>1
  <2>9. QED
    BY <1>2, <2>7, <2>8, Zenon DEF MaxOrZero
<1>3. QED
  BY <1>1, <1>2

\* Numbering keeps external ids: none twice, and none new.
LEMMA NumberedKeepsIds ==
    ASSUME nextId \in Nat, NEW fresh, Numbers(DOMAIN fresh), UniqueExt(fresh)
    PROVE  UniqueExt(Numbered(fresh)) /\ ExtIds(Numbered(fresh)) \subseteq ExtIds(fresh)
<1>1. \A id \in DOMAIN Numbered(fresh) :
         /\ id \in Int /\ id - nextId + 1 \in DOMAIN fresh
         /\ Numbered(fresh)[id] = fresh[id - nextId + 1]
  BY DEF Numbered, Numbers
<1>2. ASSUME NEW a \in DOMAIN Numbered(fresh), NEW b \in DOMAIN Numbered(fresh),
             Numbered(fresh)[a].ext = Numbered(fresh)[b].ext
      PROVE  a = b
  <2>1. a - nextId + 1 = b - nextId + 1
    BY <1>1, <1>2 DEF UniqueExt
  <2>2. QED
    BY <1>1, <2>1
<1>3. QED
  BY <1>1, <1>2 DEF UniqueExt, ExtIds

\* What one importer does leaves the invariant true of the others, if the rows it
\* then holds are nobody else's.
LEMMA OthersKeep ==
    ASSUME ImportInv, NEW c \in Importers, UNCHANGED ledger,
           DOMAIN importer' = Importers,
           \A o \in Importers \ {c} : importer'[o] = importer[o],
           ImporterOK(c)',
           \A o \in Importers \ {c} :
               ExtIds(importer'[c].pending) \intersect ExtIds(importer[o].pending) = {},
           nextId' \in Nat
    PROVE  ImportInv'
<1>1. ASSUME NEW o \in Importers PROVE ImporterOK(o)'
  <2>1. CASE o = c
    BY <2>1
  <2>2. CASE o # c
    <3>1. importer'[o] = importer[o] /\ ledger' = ledger
      BY <2>2
    <3>2. ImporterOK(o)
      BY DEF ImportInv
    <3>3. QED
      BY <3>1, <3>2 DEF ImporterOK, ExtIds, UniqueExt, Numbers
  <2>3. QED
    BY <2>1, <2>2
<1>2. ASSUME NEW o \in Importers, NEW p \in Importers, o # p PROVE Apart(o, p)'
  <2>1. CASE o = c
    BY <1>2, <2>1 DEF Apart, ExtIds
  <2>2. CASE p = c
    BY <1>2, <2>2 DEF Apart, ExtIds
  <2>3. CASE o # c /\ p # c
    <3>1. importer'[o] = importer[o] /\ importer'[p] = importer[p]
      BY <2>3
    <3>2. Apart(o, p)
      BY <1>2 DEF ImportInv
    <3>3. ExtIds(importer'[o].pending) \intersect ExtIds(importer'[p].pending) = {}
      BY <3>1, <3>2 DEF Apart
    <3>4. QED
      BY <3>3 DEF Apart, ExtIds
  <2>4. QED
    BY <2>1, <2>2, <2>3
<1>3. ImportOnce'
  BY DEF ImportInv, ImportOnce
<1>4. QED
  BY <1>1, <1>2, <1>3 DEF ImportInv

-----------------------------------------------------------------------------
LEMMA InitImportInv == Init => ImportInv
<1> SUFFICES ASSUME Init PROVE ImportInv
  OBVIOUS
<1>1. \A c \in Importers : importer[c] = IdleImporter
  BY DEF Init
<1>2. \A c \in Importers : ImporterOK(c)
  BY <1>1, EmptyHasNoRows, IdleHasNoRows DEF ImporterOK
<1>3. \A c, o \in Importers : c # o => Apart(c, o)
  BY <1>1, EmptyHasNoRows, IdleHasNoRows DEF Apart
<1>4. ImportOnce /\ nextId \in Nat /\ DOMAIN importer = Importers
  BY EmptyHasNoRows DEF Init, ImportOnce
<1>5. QED
  BY <1>2, <1>3, <1>4 DEF ImportInv

LEMMA BeginImportKeeps ==
    ASSUME ImportInv, NEW c \in Importers, NEW file \in Files, BeginImport(c, file)
    PROVE  ImportInv'
<1> DEFINE positions == { k \in DOMAIN file : file[k].ext \notin ExtIds(ledger) }
           fresh == Restrict(file, positions)
<1>1. /\ importer'[c].fresh = fresh /\ importer'[c].pending = importer[c].pending
      /\ DOMAIN importer'[c] = { "pc", "fresh", "pending" }
      /\ DOMAIN importer' = Importers
      /\ \A o \in Importers \ {c} : importer'[o] = importer[o]
      /\ UNCHANGED << ledger, nextId >>
  BY DEF BeginImport, ImportInv, ImporterOK
<1>2. UniqueExt(file)
  BY DEF BeginImport, Acceptable, UniqueExt
<1>3. UniqueExt(fresh)
  BY <1>2 DEF UniqueExt, Restrict
<1>4. Numbers(DOMAIN fresh)
  <2>1. Len(file) \in Nat /\ DOMAIN file = 1 .. Len(file)
    BY FilesAssumption
  <2>2. DOMAIN fresh \subseteq 1 .. Len(file)
    BY <2>1 DEF Restrict
  <2>3. QED
    BY <2>1, <2>2 DEF Numbers
<1>5. ImporterOK(c)'
  <2>1. UniqueExt(importer[c].pending)
        /\ ExtIds(importer[c].pending) \intersect ExtIds(ledger) = {}
    BY DEF ImportInv, ImporterOK
  <2>2. UniqueExt(importer'[c].fresh) /\ Numbers(DOMAIN importer'[c].fresh)
    BY <1>1, <1>3, <1>4
  <2>3. UniqueExt(importer'[c].pending)
        /\ ExtIds(importer'[c].pending) \intersect ExtIds(ledger') = {}
    BY <1>1, <2>1
  <2>4. QED
    BY <1>1, <2>2, <2>3 DEF ImporterOK, ExtIds, UniqueExt, Numbers
<1>6. \A o \in Importers \ {c} :
          ExtIds(importer'[c].pending) \intersect ExtIds(importer[o].pending) = {}
  BY <1>1 DEF ImportInv, Apart
<1>7. QED
  BY <1>1, <1>5, <1>6, OthersKeep DEF ImportInv

LEMMA AppendRowsKeeps ==
    ASSUME ImportInv, NEW c \in Importers, AppendRows(c)
    PROVE  ImportInv'
<1> DEFINE fresh == importer[c].fresh
<1>1. /\ importer'[c].fresh = fresh /\ importer'[c].pending = Numbered(fresh)
      /\ DOMAIN importer'[c] = { "pc", "fresh", "pending" }
      /\ DOMAIN importer' = Importers
      /\ \A o \in Importers \ {c} : importer'[o] = importer[o]
      /\ UNCHANGED ledger
  BY DEF AppendRows, ImportInv, ImporterOK
<1>2. UniqueExt(Numbered(fresh)) /\ ExtIds(Numbered(fresh)) \subseteq ExtIds(fresh)
  BY NumberedKeepsIds DEF ImportInv, ImporterOK
<1>3. ExtIds(Numbered(fresh)) \intersect ExtIds(ledger) = {}
  BY <1>2 DEF AppendRows
<1>4. \A o \in Importers \ {c} : ExtIds(Numbered(fresh)) \intersect ExtIds(importer[o].pending) = {}
  BY <1>2 DEF AppendRows, Contended
<1>5. ImporterOK(c)'
  <2>1. Numbers(DOMAIN importer[c].fresh) /\ UniqueExt(importer[c].fresh)
    BY DEF ImportInv, ImporterOK
  <2>2. Numbers(DOMAIN importer'[c].fresh) /\ UniqueExt(importer'[c].fresh)
    BY <1>1, <2>1
  <2>3. /\ UniqueExt(importer'[c].pending)
        /\ ExtIds(importer'[c].pending) \intersect ExtIds(ledger') = {}
    BY <1>1, <1>2, <1>3
  <2>4. QED
    BY <1>1, <2>2, <2>3 DEF ImporterOK, ExtIds, UniqueExt, Numbers
<1>6. nextId' \in Nat
  BY LastPosition DEF AppendRows, NumbersAfter, ImportInv, ImporterOK
<1>7. QED
  BY <1>1, <1>4, <1>5, <1>6, OthersKeep

LEMMA CommitImportKeeps ==
    ASSUME ImportInv, NEW c \in Importers, CommitImport(c)
    PROVE  ImportInv'
<1> DEFINE rows == importer[c].pending
<1>1. /\ importer'[c] = IdleImporter
      /\ \A o \in Importers \ {c} : importer'[o] = importer[o]
      /\ DOMAIN importer' = Importers
      /\ nextId' = nextId
  BY DEF CommitImport, ImportInv
<1>2. /\ DOMAIN ledger' = DOMAIN ledger \union DOMAIN rows
      /\ \A id \in DOMAIN ledger : ledger'[id] = ledger[id]
      /\ \A id \in DOMAIN rows \ DOMAIN ledger : ledger'[id] = rows[id]
  BY DEF CommitImport
<1>3. ExtIds(ledger') \subseteq ExtIds(ledger) \union ExtIds(rows)
  BY <1>2 DEF ExtIds
<1>4. ImportOnce'
  <2>1. UniqueExt(ledger) /\ UniqueExt(rows) /\ ExtIds(rows) \intersect ExtIds(ledger) = {}
    BY DEF ImportInv, ImporterOK, ImportOnce, UniqueExt
  <2>2. \A a \in DOMAIN ledger, b \in DOMAIN rows : ledger[a].ext # rows[b].ext
    BY <2>1 DEF ExtIds
  <2>3. QED
    BY <1>2, <2>1, <2>2 DEF ImportOnce, UniqueExt
<1>5. ASSUME NEW o \in Importers PROVE ImporterOK(o)'
  <2>1. CASE o = c
    BY <1>1, <2>1, EmptyHasNoRows, IdleHasNoRows DEF ImporterOK, ExtIds, UniqueExt, Numbers
  <2>2. CASE o # c
    <3>1. ExtIds(importer[o].pending) \intersect ExtIds(ledger) = {}
      BY DEF ImportInv, ImporterOK
    <3>2. ExtIds(importer[o].pending) \intersect ExtIds(rows) = {}
      BY <2>2 DEF ImportInv, Apart
    <3>3. ExtIds(importer[o].pending) \intersect ExtIds(ledger') = {}
      BY <1>3, <3>1, <3>2
    <3>4. importer'[o] = importer[o]
      BY <1>1, <2>2
    <3>5. QED
      BY <3>3, <3>4 DEF ImportInv, ImporterOK, ExtIds, UniqueExt, Numbers
  <2>3. QED
    BY <2>1, <2>2
<1>6. ASSUME NEW o \in Importers, NEW p \in Importers, o # p PROVE Apart(o, p)'
  <2>1. ExtIds(importer'[c].pending) = {}
    BY <1>1, EmptyHasNoRows, IdleHasNoRows
  <2>2. CASE o = c \/ p = c
    BY <2>1, <2>2 DEF Apart, ExtIds
  <2>3. CASE o # c /\ p # c
    <3>1. importer'[o] = importer[o] /\ importer'[p] = importer[p]
      BY <1>1, <2>3
    <3>2. Apart(o, p)
      BY <1>6 DEF ImportInv
    <3>3. ExtIds(importer'[o].pending) \intersect ExtIds(importer'[p].pending) = {}
      BY <3>1, <3>2 DEF Apart
    <3>4. QED
      BY <3>3 DEF Apart, ExtIds
  <2>4. QED
    BY <2>2, <2>3
<1>7. QED
  BY <1>1, <1>4, <1>5, <1>6 DEF ImportInv

LEMMA AbortImportKeeps ==
    ASSUME ImportInv, NEW c \in Importers, AbortImport(c)
    PROVE  ImportInv'
<1>1. /\ importer'[c] = IdleImporter
      /\ \A o \in Importers \ {c} : importer'[o] = importer[o]
      /\ DOMAIN importer' = Importers
      /\ UNCHANGED << ledger, nextId >>
  BY DEF AbortImport, ImportInv
<1>2. ImporterOK(c)'
  BY <1>1, EmptyHasNoRows, IdleHasNoRows DEF ImporterOK, ExtIds, UniqueExt, Numbers
<1>3. \A o \in Importers \ {c} :
          ExtIds(importer'[c].pending) \intersect ExtIds(importer[o].pending) = {}
  BY <1>1, EmptyHasNoRows, IdleHasNoRows
<1>4. nextId' \in Nat
  BY <1>1 DEF ImportInv
<1>5. QED
  BY <1>1, <1>2, <1>3, <1>4, OthersKeep

LEMMA UntouchedKeeps ==
    ASSUME ImportInv, UNCHANGED << ledger, nextId, importer >>
    PROVE  ImportInv'
<1>1. \A c \in Importers : ImporterOK(c)'
  BY DEF ImportInv, ImporterOK, ExtIds, UniqueExt, Numbers
<1>2. ASSUME NEW c \in Importers, NEW o \in Importers, c # o PROVE Apart(c, o)'
  <2>1. Apart(c, o)
    BY <1>2 DEF ImportInv
  <2>2. QED
    BY <2>1 DEF Apart, ExtIds
<1>3. QED
  BY <1>1, <1>2 DEF ImportInv, ImportOnce

LEMMA NextImportInv == ImportInv /\ [Next]_vars => ImportInv'
<1> SUFFICES ASSUME ImportInv, [Next]_vars PROVE ImportInv'
  OBVIOUS
<1>1. ASSUME NEW c \in Importers, Import(c) PROVE ImportInv'
  BY <1>1, BeginImportKeeps, AppendRowsKeeps, CommitImportKeeps, AbortImportKeeps DEF Import
<1>2. ASSUME NEW r \in Rebuilders, RebuildStep(r) \/ CrashRebuild(r) PROVE ImportInv'
  BY <1>2, UntouchedKeeps DEF RebuildStep, ReadLedger, DeleteClosures, DeleteLots, RejectDelete, InsertLots,
     BuildSnapshots, FailBuild, CommitRebuild, CrashRebuild
<1>3. ASSUME NEW i \in Instruments, NEW d \in TradingDays, Price(i, d) PROVE ImportInv'
  BY <1>3, UntouchedKeeps DEF Price
<1>4. CASE UNCHANGED vars
  BY <1>4, UntouchedKeeps DEF vars
<1>5. QED
  BY <1>1, <1>2, <1>3, <1>4 DEF Next

\* No transaction of the broker is in the ledger twice, whatever files are
\* imported by however many importers that interleave, fail and try again: the
\* check against the ledger and the unique index behind it leave no gap between
\* them (repositories/portfolio.py:61).
THEOREM NoDoubleImport == Spec => []ImportOnce
<1>1. ImportInv => ImportOnce
  BY DEF ImportInv
<1>2. QED
  BY <1>1, InitImportInv, NextImportInv, PTL DEF Spec

-----------------------------------------------------------------------------
(* Sums of shares. *)

SharesOf(txns, ids) == MapThenSumSet(LAMBDA id : txns[id].quantity, ids)

\* The recursive functions behind ClosedShares and SharesOf.
IsClosedSum(g, S) ==
    g = [ T \in SUBSET S |-> IF T = {} THEN 0 ELSE Chosen(T).quantity + g[T \ {Chosen(T)}] ]

IsSharesSum(g, txns, S) ==
    g = [ T \in SUBSET S |-> IF T = {} THEN 0 ELSE txns[Chosen(T)].quantity + g[T \ {Chosen(T)}] ]

LEMMA ClosedIsSum ==
    ASSUME NEW S, IsFiniteSet(S), NEW f, \A c \in S : f[c] = c.quantity
    PROVE  ClosedShares(S) = SumOver(f, S)
<1> DEFINE h == [ T \in SUBSET S |-> SumOver(f, T) ]
<1>1. ClosedShares(S) = (CHOOSE g : IsClosedSum(g, S))[S]
  BY DEF ClosedShares, MapThenSumSet, MapThenFoldSet, IsClosedSum, Chosen
<1>2. \A T \in SUBSET S : T # {} => Chosen(T) \in S
  BY DEF Chosen
<1>3. ASSUME NEW g PROVE IsClosedSum(g, S) <=> IsSumOf(g, f, S)
  <2>1. \A T \in SUBSET S : T # {} => Chosen(T).quantity = f[Chosen(T)]
    BY <1>2
  <2>2. [ T \in SUBSET S |-> IF T = {} THEN 0 ELSE Chosen(T).quantity + g[T \ {Chosen(T)}] ]
        = [ T \in SUBSET S |-> IF T = {} THEN 0 ELSE f[Chosen(T)] + g[T \ {Chosen(T)}] ]
    BY <2>1
  <2>3. QED
    BY <2>2 DEF IsClosedSum, IsSumOf
<1>4. IsSumOf(h, f, S)
  BY SumsExist
<1>5. IsClosedSum(CHOOSE g : IsClosedSum(g, S), S)
  BY <1>3, <1>4
<1>6. (CHOOSE g : IsClosedSum(g, S)) = h
  BY <1>3, <1>4, <1>5, SumsUnique
<1>7. QED
  BY <1>1, <1>6

LEMMA SharesIsSum ==
    ASSUME NEW txns, NEW S, IsFiniteSet(S), NEW f, \A id \in S : f[id] = txns[id].quantity
    PROVE  SharesOf(txns, S) = SumOver(f, S)
<1> DEFINE h == [ T \in SUBSET S |-> SumOver(f, T) ]
<1>1. SharesOf(txns, S) = (CHOOSE g : IsSharesSum(g, txns, S))[S]
  BY DEF SharesOf, MapThenSumSet, MapThenFoldSet, IsSharesSum, Chosen
<1>2. \A T \in SUBSET S : T # {} => Chosen(T) \in S
  BY DEF Chosen
<1>3. ASSUME NEW g PROVE IsSharesSum(g, txns, S) <=> IsSumOf(g, f, S)
  <2>1. \A T \in SUBSET S : T # {} => txns[Chosen(T)].quantity = f[Chosen(T)]
    BY <1>2
  <2>2. [ T \in SUBSET S |-> IF T = {} THEN 0 ELSE txns[Chosen(T)].quantity + g[T \ {Chosen(T)}] ]
        = [ T \in SUBSET S |-> IF T = {} THEN 0 ELSE f[Chosen(T)] + g[T \ {Chosen(T)}] ]
    BY <2>1
  <2>3. QED
    BY <2>2 DEF IsSharesSum, IsSumOf
<1>4. IsSumOf(h, f, S)
  BY SumsExist
<1>5. IsSharesSum(CHOOSE g : IsSharesSum(g, txns, S), txns, S)
  BY <1>3, <1>4
<1>6. (CHOOSE g : IsSharesSum(g, txns, S)) = h
  BY <1>3, <1>4, <1>5, SumsUnique
<1>7. QED
  BY <1>1, <1>6

\* Finitely many closures of whole shares.
Closures(S) == IsFiniteSet(S) /\ \A c \in S : c.quantity \in Nat

LEMMA ClosedNat == ASSUME NEW S, Closures(S) PROVE ClosedShares(S) \in Nat
<1> DEFINE f == [ c \in S |-> c.quantity ]
<1>1. ClosedShares(S) = SumOver(f, S)
  BY ClosedIsSum DEF Closures
<1>2. SumOver(f, S) \in Nat
  BY SumNat DEF Closures
<1>3. QED
  BY <1>1, <1>2

LEMMA ClosedUnion ==
    ASSUME NEW S, NEW T, Closures(S), Closures(T), S \intersect T = {}
    PROVE  /\ Closures(S \union T)
           /\ ClosedShares(S \union T) = ClosedShares(S) + ClosedShares(T)
<1> DEFINE U == S \union T
           f == [ c \in U |-> c.quantity ]
<1>1. Closures(U)
  BY FS_Union DEF Closures
<1>2. /\ ClosedShares(U) = SumOver(f, U)
      /\ ClosedShares(S) = SumOver(f, S)
      /\ ClosedShares(T) = SumOver(f, T)
  BY <1>1, ClosedIsSum DEF Closures
<1>3. U \ S = T
  OBVIOUS
<1>4. SumOver(f, U) = SumOver(f, S) + SumOver(f, T)
  <2> \A c \in U : f[c] \in Int
    BY <1>1 DEF Closures
  <2>1. IsFiniteSet(U) /\ S \in SUBSET U
    BY <1>1 DEF Closures
  <2> HIDE DEF f, U
  <2>2. QED
    BY <1>3, <2>1, SumSplit
<1>5. QED
  BY <1>1, <1>2, <1>4

LEMMA ClosedFew ==
    /\ Closures({}) /\ ClosedShares({}) = 0
    /\ \A c : c.quantity \in Nat => Closures({c}) /\ ClosedShares({c}) = c.quantity
<1>1. Closures({}) /\ ClosedShares({}) = 0
  <2>1. IsFiniteSet({})
    BY FS_EmptySet
  <2>2. ClosedShares({}) = SumOver(<< >>, {})
    BY <2>1, ClosedIsSum
  <2>3. QED
    BY <2>1, <2>2, SumEmpty DEF Closures
<1>2. ASSUME NEW c, c.quantity \in Nat PROVE Closures({c}) /\ ClosedShares({c}) = c.quantity
  <2> DEFINE f == [ e \in {c} |-> e.quantity ]
  <2>1. IsFiniteSet({c})
    BY FS_Singleton
  <2>2. ClosedShares({c}) = SumOver(f, {c})
    BY <2>1, ClosedIsSum
  <2>3. SumOver(f, {c}) = f[c]
    BY <1>2, SumSingle
  <2>4. QED
    BY <1>2, <2>1, <2>2, <2>3 DEF Closures
<1>3. QED
  BY <1>1, <1>2

\* Closures are counted lot by lot.
LEMMA ClosedByLot ==
    ASSUME NEW S, Closures(S), NEW L, IsFiniteSet(L), \A c \in S : c.lot \in L,
           NEW f, \A l \in L : f[l] = ClosedShares({ c \in S : c.lot = l })
    PROVE  ClosedShares(S) = SumOver(f, L)
<1> DEFINE In(T) == { c \in S : c.lot \in T }
           Bad == { T \in SUBSET L : ClosedShares(In(T)) # SumOver(f, T) }
<1>1. \A T : Closures({ c \in S : c.lot \in T }) /\ Closures({ c \in S : c.lot = T })
  <2>1. \A T : { c \in S : c.lot \in T } \in SUBSET S /\ { c \in S : c.lot = T } \in SUBSET S
    OBVIOUS
  <2>2. QED
    BY <2>1, FS_Subset DEF Closures
<1>2. ASSUME NEW T \in Bad PROVE \E U \in Bad : U \subseteq T /\ U # T
  <2>1. T # {}
    <3>1. In({}) = {}
      OBVIOUS
    <3>2. ClosedShares(In({})) = SumOver(f, {})
      BY <3>1, ClosedFew, SumEmpty
    <3>3. QED
      BY <3>2
  <2>2. PICK l \in T : TRUE
    BY <2>1
  <2> DEFINE own == { c \in S : c.lot = l }
             rest == In(T \ {l})
  <2>3. In(T) = rest \union own /\ rest \intersect own = {}
    OBVIOUS
  <2>4. ClosedShares(In(T)) = ClosedShares(rest) + ClosedShares(own)
    <3>1. Closures(rest) /\ Closures(own)
      BY <1>1
    <3> HIDE DEF rest, own, In
    <3>2. QED
      BY <2>3, <3>1, ClosedUnion
  <2>5. SumOver(f, T) = f[l] + SumOver(f, T \ {l})
    <3>1. ASSUME NEW x \in T PROVE f[x] \in Int
      <4>1. ClosedShares({ c \in S : c.lot = x }) \in Nat
        BY <1>1, ClosedNat
      <4>2. f[x] = ClosedShares({ c \in S : c.lot = x })
        OBVIOUS
      <4>3. QED
        BY <4>1, <4>2
    <3>2. IsFiniteSet(T)
      BY FS_Subset
    <3>3. QED
      BY <3>1, <3>2, SumRemove
  <2>6. f[l] = ClosedShares(own)
    OBVIOUS
  <2>7. ClosedShares(own) \in Nat /\ ClosedShares(rest) \in Nat
    BY <1>1, ClosedNat
  <2>8. ClosedShares(rest) # SumOver(f, T \ {l})
    BY <2>4, <2>5, <2>6, <2>7
  <2>9. T \ {l} \in Bad
    BY <2>8
  <2>10. QED
    BY <2>9
<1>3. Bad = {}
  <2> HIDE DEF Bad
  <2>1. Bad \in SUBSET SUBSET L
    BY DEF Bad
  <2>2. QED
    BY <1>2, <2>1, SubsetDescent
<1>4. In(L) = S
  OBVIOUS
<1>5. QED
  BY <1>3, <1>4
-----------------------------------------------------------------------------
(* Replay order. *)

\* A row that was validated (CanonicalTransaction.validate).
RowOK(t) ==
    /\ t.type \in Opening \union Closing \union CashOnly
    /\ t.instr \in Instruments \union {None}
    /\ t.date \in Int /\ t.quantity \in Int
    /\ t.type \in Opening \union Closing => t.instr \in Instruments /\ t.quantity > 0

\* Finitely many valid transactions.
Book(txns) ==
    /\ IsFiniteSet(DOMAIN txns) /\ DOMAIN txns \subseteq Int
    /\ \A id \in DOMAIN txns : RowOK(txns[id])

LEMMA ReplayOrder ==
    ASSUME NEW txns, Book(txns)
    PROVE  /\ \A a, b \in DOMAIN txns : a # b => Before(txns, a, b) \/ Before(txns, b, a)
           /\ \A a, b \in DOMAIN txns : ~ (Before(txns, a, b) /\ Before(txns, b, a))
           /\ \A a, b, c \in DOMAIN txns : Before(txns, a, b) /\ Before(txns, b, c) => Before(txns, a, c)
  BY DEF Book, RowOK, Before

\* Some transaction is the latest of those that are to be replayed.
LEMMA LatestIsLast ==
    ASSUME NEW txns, Book(txns), NEW ids \in SUBSET DOMAIN txns, ids # {}
    PROVE  /\ LatestOf(txns, ids) \in ids
           /\ \A b \in ids \ {LatestOf(txns, ids)} : Before(txns, b, LatestOf(txns, ids))
<1> DEFINE Last(T, a) == \A b \in T \ {a} : Before(txns, b, a)
           Bad == { T \in SUBSET ids : T # {} /\ \A a \in T : ~ Last(T, a) }
<1>1. ASSUME NEW T \in Bad PROVE \E U \in Bad : U \subseteq T /\ U # T
  <2>1. PICK y \in T : TRUE
    OBVIOUS
  <2>2. T \ {y} # {}
    OBVIOUS
  <2>3. ASSUME NEW a \in T \ {y}, Last(T \ {y}, a) PROVE FALSE
    <3>1. Before(txns, y, a) \/ Before(txns, a, y)
      BY ReplayOrder
    <3>2. CASE Before(txns, y, a)
      BY <2>3, <3>2
    <3>3. CASE Before(txns, a, y)
      <4>1. \A b \in T \ {y} : Before(txns, b, y)
        BY <2>3, <3>3, ReplayOrder
      <4>2. QED
        BY <4>1
    <3>4. QED
      BY <3>1, <3>2, <3>3
  <2>4. T \ {y} \in Bad
    BY <2>2, <2>3
  <2>5. QED
    BY <2>4
<1>2. Bad = {}
  <2>1. Bad \in SUBSET SUBSET ids /\ IsFiniteSet(ids)
    BY FS_Subset DEF Book
  <2> HIDE DEF Bad
  <2>2. QED
    BY <1>1, <2>1, SubsetDescent
<1>3. PICK a \in ids : \A b \in ids \ {a} : Before(txns, b, a)
  BY <1>2
<1>4. QED
  BY <1>3, Zenon DEF LatestOf

Start == [ remaining |-> Empty, closures |-> {}, ok |-> TRUE ]

After(txns, id, state) == CHOOSE next \in { Step(txns, id, s) : s \in {state} } : TRUE

\* g is the recursive function behind Replay.
IsReplay(g, txns, ids) ==
    g = [ T \in SUBSET ids |->
            IF T = {} THEN Start
            ELSE After(txns, LatestOf(txns, T), g[T \ {LatestOf(txns, T)}]) ]

LEMMA ReplayIsChosen ==
    ASSUME NEW txns, NEW ids
    PROVE  Replay(txns, ids) = (CHOOSE g : IsReplay(g, txns, ids))[ids]
  BY DEF Replay, MapThenFoldSet, IsReplay, After, Start

LEMMA OneStep == \A txns, id, state : After(txns, id, state) = Step(txns, id, state)
<1> TAKE txns, id, state
<1>1. { Step(txns, id, s) : s \in {state} } = { Step(txns, id, state) }
  OBVIOUS
<1>2. (CHOOSE next \in { Step(txns, id, state) } : TRUE) = Step(txns, id, state)
  OBVIOUS
<1>3. QED
  BY <1>1, <1>2 DEF After

LEMMA ReplayUnique ==
    ASSUME NEW txns, Book(txns), NEW ids \in SUBSET DOMAIN txns,
           NEW g, NEW h, IsReplay(g, txns, ids), IsReplay(h, txns, ids)
    PROVE  g = h
<1> DEFINE Bad == { T \in SUBSET ids : g[T] # h[T] }
<1>1. ASSUME NEW T \in Bad PROVE \E U \in Bad : U \subseteq T /\ U # T
  <2> DEFINE x == LatestOf(txns, T)
  <2>1. T # {}
    BY DEF IsReplay
  <2>2. x \in T
    BY <2>1, LatestIsLast
  <2>3. g[T] = Step(txns, x, g[T \ {x}]) /\ h[T] = Step(txns, x, h[T \ {x}])
    BY <2>1, OneStep DEF IsReplay
  <2>4. T \ {x} \in Bad
    BY <2>3
  <2>5. QED
    BY <2>2, <2>4
<1>2. Bad = {}
  <2>1. Bad \in SUBSET SUBSET ids /\ IsFiniteSet(ids)
    BY FS_Subset DEF Book
  <2> HIDE DEF Bad
  <2>2. QED
    BY <1>1, <2>1, SubsetDescent
<1>3. g = [ T \in SUBSET ids |-> g[T] ] /\ h = [ T \in SUBSET ids |-> h[T] ]
  BY DEF IsReplay
<1>4. QED
  BY <1>2, <1>3

\* A replay takes the transactions one after another, the latest last.
LEMMA ReplayEquation ==
    ASSUME NEW txns, Book(txns), NEW ids \in SUBSET DOMAIN txns
    PROVE  Replay(txns, ids) =
             IF ids = {} THEN Start
             ELSE Step(txns, LatestOf(txns, ids), Replay(txns, ids \ {LatestOf(txns, ids)}))
<1> DEFINE x(T) == LatestOf(txns, T)
           Right(T) == IF T = {} THEN Start ELSE Step(txns, x(T), Replay(txns, T \ {x(T)}))
           Bad == { T \in SUBSET ids : Replay(txns, T) # Right(T) }
<1>1. ASSUME NEW T \in Bad, \A U \in Bad : U \subseteq T => U = T PROVE FALSE
  <2> DEFINE h == [ U \in SUBSET T |-> Right(U) ]
  <2>1. ASSUME NEW U \in SUBSET T
        PROVE  h[U] = IF U = {} THEN Start
                      ELSE After(txns, x(U), h[U \ {x(U)}])
    <3>1. CASE U = {}
      BY <3>1
    <3>2. CASE U # {}
      <4>1. x(U) \in U
        BY <3>2, LatestIsLast
      <4>2. U \ {x(U)} \in SUBSET T /\ U \ {x(U)} # T
        BY <4>1
      <4>3. U \ {x(U)} \notin Bad
        BY <1>1, <4>2
      <4>4. Replay(txns, U \ {x(U)}) = Right(U \ {x(U)})
        BY <4>2, <4>3
      <4>5. h[U \ {x(U)}] = Replay(txns, U \ {x(U)})
        BY <4>2, <4>4
      <4>6. h[U] = Step(txns, x(U), h[U \ {x(U)}])
        BY <3>2, <4>5
      <4>7. QED
        BY <3>2, <4>6, OneStep
    <3>3. QED
      BY <3>1, <3>2
  <2>2. IsReplay(h, txns, T)
    <3>1. h = [ U \in SUBSET T |-> h[U] ]
      OBVIOUS
    <3> HIDE DEF h
    <3>2. QED
      BY <2>1, <3>1 DEF IsReplay
  <2>3. T \in SUBSET DOMAIN txns
    OBVIOUS
  <2>4. IsReplay(CHOOSE g : IsReplay(g, txns, T), txns, T)
    BY <2>2
  <2>5. (CHOOSE g : IsReplay(g, txns, T)) = h
    BY <2>2, <2>3, <2>4, ReplayUnique
  <2>6. Replay(txns, T) = h[T]
    BY <2>5, ReplayIsChosen
  <2>7. QED
    BY <2>6
<1>2. Bad = {}
  <2>1. Bad \in SUBSET SUBSET ids /\ IsFiniteSet(ids)
    BY FS_Subset DEF Book
  <2> HIDE DEF Bad
  <2>2. QED
    BY <1>1, <2>1, SubsetDescent
<1>3. QED
  BY <1>2
-----------------------------------------------------------------------------
(* One step of the replay. *)

\* What a disposal takes from a lot is there, and where it takes anything the
\* lots before are emptied.
LEMMA TakenInOrder ==
    ASSUME NEW txns, Book(txns), NEW held \in SUBSET DOMAIN txns,
           NEW remaining, \A m \in held : remaining[m] \in Nat, NEW q \in Int
    PROVE  /\ \A l \in held : Taken(txns, remaining, held, q, l) \in 0 .. remaining[l]
           /\ \A a, b \in held :
                 Before(txns, a, b) /\ Taken(txns, remaining, held, q, b) > 0
                     => Taken(txns, remaining, held, q, a) = remaining[a]
<1> DEFINE Up(l) == { m \in held : Before(txns, m, l) }
           Sum(l) == SumOver(remaining, Up(l))
<1>1. IsFiniteSet(held)
  BY FS_Subset DEF Book
<1>2. \A l : IsFiniteSet(Up(l)) /\ Sum(l) \in Nat
  <2>1. ASSUME NEW l PROVE IsFiniteSet(Up(l)) /\ \A m \in Up(l) : remaining[m] \in Nat
    BY <1>1, FS_Subset
  <2> HIDE DEF Up
  <2>2. QED
    BY <2>1, SumNat
<1>3. ASSUME NEW l \in held
      PROVE  /\ remaining[l] <= q - Sum(l) => Taken(txns, remaining, held, q, l) = remaining[l]
             /\ Taken(txns, remaining, held, q, l) > 0 => Sum(l) < q
             /\ Taken(txns, remaining, held, q, l) \in 0 .. remaining[l]
  <2>1. Taken(txns, remaining, held, q, l) = Min({remaining[l], Max({0, q - Sum(l)})})
    BY DEF Taken, SumOver
  <2>2. Sum(l) \in Int /\ remaining[l] \in Nat /\ 0 \in Int
    BY <1>2
  <2> HIDE DEF Sum
  <2>3. Max({0, q - Sum(l)}) = IF 0 >= q - Sum(l) THEN 0 ELSE q - Sum(l)
    BY <2>2, MaxOfTwo
  <2> DEFINE more == Max({0, q - Sum(l)})
  <2>4. more \in Int
    BY <2>2, <2>3
  <2>5. Min({remaining[l], more}) = IF remaining[l] <= more THEN remaining[l] ELSE more
    <3> HIDE DEF more
    <3>1. QED
      BY <2>2, <2>4, MinOfTwo
  <2>6. QED
    BY <2>1, <2>2, <2>3, <2>5
<1>4. ASSUME NEW a \in held, NEW b \in held, Before(txns, a, b) PROVE Sum(a) + remaining[a] <= Sum(b)
  <2>1. a \notin Up(a) /\ Up(a) \union {a} \in SUBSET Up(b)
    BY <1>4, ReplayOrder
  <2>2. \A m \in Up(b) : remaining[m] \in Nat
    OBVIOUS
  <2>3. SumOver(remaining, Up(a) \union {a}) = remaining[a] + Sum(a)
    <3>1. IsFiniteSet(Up(a)) /\ a \notin Up(a) /\ remaining[a] \in Int /\ \A m \in Up(a) : remaining[m] \in Int
      BY <1>2, <2>1
    <3> HIDE DEF Up
    <3>2. QED
      BY <3>1, SumAdd
  <2>4. SumOver(remaining, Up(a) \union {a}) <= Sum(b)
    <3> HIDE DEF Up
    <3>1. QED
      BY <1>2, <2>1, <2>2, SumPart
  <2>5. QED
    BY <1>2, <2>3, <2>4
<1>5. ASSUME NEW a \in held, NEW b \in held, Before(txns, a, b), Taken(txns, remaining, held, q, b) > 0
      PROVE  Taken(txns, remaining, held, q, a) = remaining[a]
  <2>1. Sum(b) < q /\ Sum(a) + remaining[a] <= Sum(b) /\ Sum(a) \in Nat /\ Sum(b) \in Nat
    BY <1>2, <1>3, <1>4, <1>5
  <2>2. remaining[a] <= q - Sum(a)
    <3> HIDE DEF Sum
    <3>1. QED
      BY <2>1
  <2>3. QED
    BY <1>3, <2>2
<1>6. QED
  BY <1>3, <1>5

\* The slices of a disposal: one for each lot that something is taken from.
LEMMA SliceOfEachLot ==
    ASSUME NEW txns, Book(txns), NEW state, DOMAIN state.remaining \in SUBSET DOMAIN txns,
           \A l \in DOMAIN state.remaining : state.remaining[l] \in Nat,
           NEW id \in DOMAIN txns,
           NEW held, held = LotsOf(txns, DOMAIN state.remaining, txns[id].instr),
           NEW taken, taken = [ l \in held |-> Taken(txns, state.remaining, held, txns[id].quantity, l) ]
    PROVE  /\ Closures(Slices(txns, state, id))
           /\ \A c \in Slices(txns, state, id) :
                 c.lot \in held /\ c.by = id /\ c.quantity = taken[c.lot] /\ c.quantity \in Nat \ {0}
           /\ \A l \in held : ClosedShares({ c \in Slices(txns, state, id) : c.lot = l }) = taken[l]
           /\ \A l : l \notin held => { c \in Slices(txns, state, id) : c.lot = l } = {}
           /\ \A l \in held : taken[l] \in Nat
<1> DEFINE Slice(l) == [ lot |-> l, by |-> id, quantity |-> taken[l],
                         atCost |-> txns[id].type = "transfer_out",
                         term |-> IF txns[id].date - txns[l].date > LongTerm THEN "long" ELSE "short" ]
           some == { m \in held : taken[m] > 0 }
           slices == { Slice(l) : l \in some }
<1>1. Slices(txns, state, id) = slices
  BY DEF Slices
<1>2. held \in SUBSET DOMAIN txns /\ IsFiniteSet(held) /\ IsFiniteSet(some)
  <2>1. held \in SUBSET DOMAIN txns
    BY DEF LotsOf
  <2>2. QED
    BY <2>1, FS_Subset DEF Book
<1>3. \A l \in held : taken[l] \in Nat
  <2>1. txns[id].quantity \in Int /\ \A m \in held : state.remaining[m] \in Nat
    BY DEF Book, RowOK, LotsOf
  <2>2. \A l \in held : Taken(txns, state.remaining, held, txns[id].quantity, l) \in 0 .. state.remaining[l]
    BY <1>2, <2>1, TakenInOrder
  <2>3. QED
    BY <2>1, <2>2
<1>4. \A c \in slices : c.lot \in held /\ c.by = id /\ c.quantity = taken[c.lot] /\ c.quantity \in Nat \ {0}
  BY <1>3
<1>5. Closures(slices)
  <2> DEFINE f == [ l \in some |-> Slice(l) ]
  <2>1. f \in Surjection(some, slices)
    BY DEF Surjection
  <2>2. IsFiniteSet(slices)
    <3> HIDE DEF f, some, slices
    <3>1. QED
      BY <1>2, <2>1, FS_Surjection
  <2>3. QED
    BY <1>4, <2>2 DEF Closures
<1>6. ASSUME NEW l \in held PROVE ClosedShares({ c \in slices : c.lot = l }) = taken[l]
  <2>1. CASE taken[l] > 0
    <3>1. { c \in slices : c.lot = l } = { Slice(l) }
      BY <2>1
    <3>2. Slice(l).quantity = taken[l]
      OBVIOUS
    <3> HIDE DEF Slice
    <3>3. QED
      BY <1>3, <3>1, <3>2, ClosedFew
  <2>2. CASE taken[l] = 0
    <3>1. { c \in slices : c.lot = l } = {}
      BY <1>4, <2>2
    <3>2. QED
      BY <2>2, <3>1, ClosedFew
  <2>3. QED
    BY <1>3, <2>1, <2>2
<1>7. \A l : l \notin held => { c \in slices : c.lot = l } = {}
  BY <1>4
<1>8. QED
  BY <1>1, <1>3, <1>4, <1>5, <1>6, <1>7
Side(txns, ids, types, i) == { id \in ids : txns[id].instr = i /\ txns[id].type \in types }

\* What was bought less what was sold.
Net(txns, ids, i) ==
    SharesOf(txns, Side(txns, ids, Opening, i)) - SharesOf(txns, Side(txns, ids, Closing, i))

StateShape(s) ==
    s = [ remaining |-> s.remaining, closures |-> s.closures, ok |-> s.ok ] /\ s.ok \in BOOLEAN

\* A lot of each transaction that opens one.
LotsOK(txns, ids, s) ==
    /\ DOMAIN s.remaining = { id \in ids : txns[id].type \in Opening }
    /\ \A l \in DOMAIN s.remaining : s.remaining[l] \in Nat

ClosuresOK(txns, ids, s) ==
    /\ Closures(s.closures)
    /\ \A c \in s.closures :
          /\ c.quantity \in Nat \ {0}
          /\ c.lot \in DOMAIN s.remaining
          /\ c.by \in ids

\* A lot's shares remain or were closed.
LotsConserve(txns, s) ==
    \A l \in DOMAIN s.remaining :
        txns[l].quantity = s.remaining[l] + ClosedShares({ c \in s.closures : c.lot = l })

\* A disposal closed what it sold.
DisposalsConserve(txns, s) ==
    \A c \in s.closures : ClosedShares({ e \in s.closures : e.by = c.by }) = txns[c.by].quantity

\* A lot was emptied before a disposal took from a later one.
InOrder(txns, s) ==
    \A a \in DOMAIN s.remaining, c \in s.closures :
        txns[a].instr = txns[c.lot].instr /\ Before(txns, a, c.lot) =>
            txns[a].quantity =
                ClosedShares({ e \in s.closures : e.lot = a /\ (e.by = c.by \/ Before(txns, e.by, c.by)) })

\* What the lots hold is what was bought less what was sold.
NetHeld(txns, ids, s) == \A i \in Instruments : HeldShares(txns, s, i) = Net(txns, ids, i)

Faithful(txns, ids, s) ==
    /\ LotsOK(txns, ids, s) /\ ClosuresOK(txns, ids, s)
    /\ LotsConserve(txns, s) /\ DisposalsConserve(txns, s) /\ InOrder(txns, s)
    /\ NetHeld(txns, ids, s)

LEMMA SharesSplit ==
    ASSUME NEW txns, Book(txns), NEW S \in SUBSET DOMAIN txns
    PROVE  /\ SharesOf(txns, S) \in Int
           /\ \A id \in DOMAIN txns \ S :
                 SharesOf(txns, S \union {id}) = SharesOf(txns, S) + txns[id].quantity
           /\ SharesOf(txns, {}) = 0
<1> DEFINE f == [ id \in DOMAIN txns |-> txns[id].quantity ]
<1>1. \A T \in SUBSET DOMAIN txns : IsFiniteSet(T) /\ SharesOf(txns, T) = SumOver(f, T)
  <2>1. \A T \in SUBSET DOMAIN txns : IsFiniteSet(T)
    BY FS_Subset DEF Book
  <2>2. QED
    BY <2>1, SharesIsSum
<1>2. \A id \in DOMAIN txns : f[id] \in Int /\ f[id] = txns[id].quantity
  BY DEF Book, RowOK
<1> HIDE DEF f
<1>3. SumOver(f, S) \in Int
  BY <1>1, <1>2, SumInt
<1>4. ASSUME NEW id \in DOMAIN txns \ S
      PROVE  SharesOf(txns, S \union {id}) = SharesOf(txns, S) + txns[id].quantity
  <2>1. SumOver(f, S \union {id}) = f[id] + SumOver(f, S)
    BY <1>1, <1>2, SumAdd
  <2>2. QED
    BY <1>1, <1>2, <1>3, <2>1
<1>5. SharesOf(txns, {}) = 0
  BY <1>1, SumEmpty
<1>6. QED
  BY <1>1, <1>3, <1>4, <1>5

LEMMA StartIsFaithful == \A txns : Book(txns) => Faithful(txns, {}, Start) /\ StateShape(Start)
<1> TAKE txns
<1> SUFFICES ASSUME Book(txns) PROVE Faithful(txns, {}, Start) /\ StateShape(Start)
  OBVIOUS
<1>1. DOMAIN Empty = {}
  BY DEF Empty
<1>2. Start.remaining = Empty /\ Start.closures = {} /\ StateShape(Start)
  BY DEF Start, StateShape
<1>3. NetHeld(txns, {}, Start)
  <2>1. ASSUME NEW i \in Instruments PROVE HeldShares(txns, Start, i) = Net(txns, {}, i)
    <3>1. LotsOf(txns, DOMAIN Start.remaining, i) = {}
      BY <1>1, <1>2 DEF LotsOf
    <3>2. HeldShares(txns, Start, i) = SumOver(Start.remaining, {})
      BY <3>1 DEF HeldShares, SumOver
    <3>3. Side(txns, {}, Opening, i) = {} /\ Side(txns, {}, Closing, i) = {}
      BY DEF Side
    <3>4. SharesOf(txns, {}) = 0
      BY SharesSplit
    <3>5. QED
      BY <3>2, <3>3, <3>4, SumEmpty DEF Net
  <2>2. QED
    BY <2>1 DEF NetHeld
<1>4. QED
  BY <1>1, <1>2, <1>3, ClosedFew
     DEF Faithful, LotsOK, ClosuresOK, LotsConserve, DisposalsConserve, InOrder

\* What was bought and sold, with one transaction more.
LEMMA NetWithOneMore ==
    ASSUME NEW txns, Book(txns), NEW ids \in SUBSET DOMAIN txns, NEW id \in DOMAIN txns \ ids, NEW i
    PROVE  /\ Net(txns, ids, i) \in Int
           /\ Net(txns, ids \union {id}, i) = Net(txns, ids, i)
                 + (IF txns[id].instr = i /\ txns[id].type \in Opening THEN txns[id].quantity
                    ELSE IF txns[id].instr = i /\ txns[id].type \in Closing THEN - txns[id].quantity
                    ELSE 0)
<1> DEFINE new == ids \union {id}
           q == txns[id].quantity
<1>1. ASSUME NEW types
      PROVE  /\ Side(txns, ids, types, i) \in SUBSET DOMAIN txns
             /\ id \notin Side(txns, ids, types, i)
             /\ Side(txns, new, types, i) =
                  IF txns[id].instr = i /\ txns[id].type \in types
                  THEN Side(txns, ids, types, i) \union {id} ELSE Side(txns, ids, types, i)
  BY DEF Side
<1>2. ASSUME NEW types
      PROVE  /\ SharesOf(txns, Side(txns, ids, types, i)) \in Int
             /\ SharesOf(txns, Side(txns, new, types, i)) = SharesOf(txns, Side(txns, ids, types, i))
                  + (IF txns[id].instr = i /\ txns[id].type \in types THEN q ELSE 0)
  <2>1. SharesOf(txns, Side(txns, ids, types, i)) \in Int
    BY <1>1, SharesSplit
  <2>2. CASE txns[id].instr = i /\ txns[id].type \in types
    BY <1>1, <2>2, SharesSplit
  <2>3. CASE ~ (txns[id].instr = i /\ txns[id].type \in types)
    <3>1. Side(txns, new, types, i) = Side(txns, ids, types, i)
      BY <1>1, <2>3
    <3>2. SharesOf(txns, Side(txns, ids, types, i)) = SharesOf(txns, Side(txns, ids, types, i)) + 0
      BY <2>1
    <3>3. QED
      BY <2>1, <2>3, <3>1, <3>2
  <2>4. QED
    BY <2>2, <2>3
<1>3. q \in Int /\ Opening \intersect Closing = {}
  BY DEF Book, RowOK, Opening, Closing
<1> DEFINE bought(T) == SharesOf(txns, Side(txns, T, Opening, i))
           sold(T) == SharesOf(txns, Side(txns, T, Closing, i))
<1>4. /\ bought(ids) \in Int /\ sold(ids) \in Int
      /\ bought(new) = bought(ids) + (IF txns[id].instr = i /\ txns[id].type \in Opening THEN q ELSE 0)
      /\ sold(new) = sold(ids) + (IF txns[id].instr = i /\ txns[id].type \in Closing THEN q ELSE 0)
  BY <1>2
<1>5. Net(txns, ids, i) = bought(ids) - sold(ids) /\ Net(txns, new, i) = bought(new) - sold(new)
  BY DEF Net
<1> HIDE DEF bought, sold, new, q
<1>6. QED
  BY <1>3, <1>4, <1>5 DEF new, q

\* t is what a transaction id that opens a lot makes of s.
Opened(txns, id, s, t) ==
    /\ t.closures = s.closures
    /\ t.remaining = [ l \in DOMAIN s.remaining \union {id} |->
                         IF l = id THEN txns[id].quantity ELSE s.remaining[l] ]

\* t is what a disposal that closes the slices makes of s.
Disposed(s, slices, t) ==
    /\ t.closures = s.closures \union slices
    /\ t.remaining = [ l \in DOMAIN s.remaining |->
                         s.remaining[l] - ClosedShares({ c \in slices : c.lot = l }) ]

\* One step of a replay, by the type of the transaction.
LEMMA OpensALot ==
    ASSUME NEW txns, NEW id, NEW s, StateShape(s), s.ok, txns[id].type \in Opening
    PROVE  StateShape(Step(txns, id, s)) /\ Opened(txns, id, s, Step(txns, id, s))
<1>1. txns[id].type \notin Closing
  BY DEF Opening, Closing
<1>2. Step(txns, id, s) =
          [ s EXCEPT !.remaining =
                 [ l \in DOMAIN s.remaining \union {id} |->
                       IF l = id THEN txns[id].quantity ELSE s.remaining[l] ] ]
  BY <1>1 DEF Step
<1>3. Step(txns, id, s) =
          [ remaining |-> [ l \in DOMAIN s.remaining \union {id} |->
                              IF l = id THEN txns[id].quantity ELSE s.remaining[l] ],
            closures |-> s.closures, ok |-> TRUE ]
  BY <1>2 DEF StateShape
<1>4. QED
  BY <1>3 DEF StateShape, Opened

LEMMA ClosesSlices ==
    ASSUME NEW txns, NEW id, NEW s, StateShape(s), s.ok, txns[id].type \in Closing,
           ClosedShares(Slices(txns, s, id)) = txns[id].quantity
    PROVE  StateShape(Step(txns, id, s)) /\ Disposed(s, Slices(txns, s, id), Step(txns, id, s))
<1>1. txns[id].type \notin Opening
  BY DEF Opening, Closing
<1>2. Step(txns, id, s) =
          [ s EXCEPT !.remaining =
                 [ l \in DOMAIN s.remaining |->
                       s.remaining[l] - ClosedShares({ c \in Slices(txns, s, id) : c.lot = l }) ],
                     !.closures = s.closures \union Slices(txns, s, id) ]
  BY <1>1 DEF Step, ClosedShares
<1>3. Step(txns, id, s) =
          [ remaining |-> [ l \in DOMAIN s.remaining |->
                              s.remaining[l] - ClosedShares({ c \in Slices(txns, s, id) : c.lot = l }) ],
            closures |-> s.closures \union Slices(txns, s, id), ok |-> TRUE ]
  BY <1>2 DEF StateShape
<1>4. QED
  BY <1>3 DEF StateShape, Disposed

LEMMA Oversells ==
    ASSUME NEW txns, NEW id, NEW s, StateShape(s), s.ok, txns[id].type \in Closing,
           ClosedShares(Slices(txns, s, id)) # txns[id].quantity
    PROVE  ~ Step(txns, id, s).ok /\ StateShape(Step(txns, id, s))
<1>1. txns[id].type \notin Opening
  BY DEF Opening, Closing
<1>2. Step(txns, id, s) = [ s EXCEPT !.ok = FALSE ]
  BY <1>1 DEF Step, ClosedShares
<1>3. Step(txns, id, s) = [ remaining |-> s.remaining, closures |-> s.closures, ok |-> FALSE ]
  BY <1>2 DEF StateShape
<1>4. QED
  BY <1>3 DEF StateShape

LEMMA PassesBy ==
    ASSUME NEW txns, NEW id, NEW s, ~ s.ok \/ txns[id].type \notin Opening \union Closing
    PROVE  Step(txns, id, s) = s
<1>1. CASE ~ s.ok
  BY <1>1 DEF Step
<1>2. CASE txns[id].type \notin Opening \union Closing
  BY <1>2 DEF Step
<1>3. QED
  BY <1>1, <1>2

\* An opening transaction adds a lot, which nothing has taken from.
LEMMA OpeningStep ==
    ASSUME NEW txns, Book(txns), NEW ids \in SUBSET DOMAIN txns, NEW id \in DOMAIN txns \ ids,
           \A b \in ids : Before(txns, b, id),
           NEW s, Faithful(txns, ids, s), txns[id].type \in Opening,
           NEW t, Opened(txns, id, s, t)
    PROVE  Faithful(txns, ids \union {id}, t)
<1> DEFINE q == txns[id].quantity
<1>1. q \in Nat /\ txns[id].instr \in Instruments
  BY DEF Book, RowOK
<1>2. /\ DOMAIN s.remaining \subseteq ids /\ id \notin DOMAIN s.remaining
      /\ DOMAIN t.remaining = DOMAIN s.remaining \union {id}
      /\ t.remaining[id] = q
      /\ \A l \in DOMAIN s.remaining : t.remaining[l] = s.remaining[l] /\ s.remaining[l] \in Nat
      /\ \A c \in s.closures : c.lot \in DOMAIN s.remaining
      /\ t.closures = s.closures
  BY DEF Faithful, LotsOK, ClosuresOK, Opened
<1>3. LotsOK(txns, ids \union {id}, t)
  BY <1>1, <1>2 DEF Faithful, LotsOK
<1>4. ClosuresOK(txns, ids \union {id}, t)
  BY <1>2 DEF Faithful, ClosuresOK
<1>5. LotsConserve(txns, t)
  <2>1. \A l \in DOMAIN s.remaining :
            txns[l].quantity = t.remaining[l] + ClosedShares({ c \in t.closures : c.lot = l })
    BY <1>2 DEF Faithful, LotsConserve
  <2>2. { c \in t.closures : c.lot = id } = {}
    BY <1>2
  <2>3. txns[id].quantity = t.remaining[id] + ClosedShares({ c \in t.closures : c.lot = id })
    <3>1. ClosedShares({ c \in t.closures : c.lot = id }) = 0
      BY <2>2, ClosedFew
    <3>2. q = q + 0 /\ t.remaining[id] = q
      BY <1>1, <1>2
    <3>3. QED
      BY <3>1, <3>2
  <2>4. QED
    BY <1>2, <2>1, <2>3 DEF LotsConserve
<1>6. DisposalsConserve(txns, t)
  BY <1>2 DEF Faithful, DisposalsConserve
<1>7. InOrder(txns, t)
  <2>1. \A l \in DOMAIN s.remaining : ~ Before(txns, id, l)
    BY <1>2, ReplayOrder
  <2>2. QED
    BY <1>2, <2>1 DEF Faithful, InOrder
<1>8. NetHeld(txns, ids \union {id}, t)
  <2>1. ASSUME NEW i \in Instruments PROVE HeldShares(txns, t, i) = Net(txns, ids \union {id}, i)
    <3> DEFINE held == LotsOf(txns, DOMAIN s.remaining, i)
               held2 == LotsOf(txns, DOMAIN t.remaining, i)
    <3>1. HeldShares(txns, s, i) = SumOver(s.remaining, held) /\ HeldShares(txns, t, i) = SumOver(t.remaining, held2)
      BY DEF HeldShares, SumOver
    <3>2. HeldShares(txns, s, i) = Net(txns, ids, i) /\ Net(txns, ids, i) \in Int
      BY NetWithOneMore DEF Faithful, NetHeld
    <3>3. held \in SUBSET DOMAIN txns /\ IsFiniteSet(held) /\ held \in SUBSET DOMAIN s.remaining
      <4>1. held \in SUBSET DOMAIN txns /\ held \in SUBSET DOMAIN s.remaining
        BY <1>2 DEF LotsOf
      <4>2. QED
        BY <4>1, FS_Subset DEF Book
    <3>4. SumOver(t.remaining, held) = SumOver(s.remaining, held)
      <4> HIDE DEF held
      <4>1. \A l \in held : t.remaining[l] = s.remaining[l]
        BY <1>2, <3>3
      <4>2. QED
        BY <3>3, <4>1, SumSame
    <3>5. CASE txns[id].instr = i
      <4>1. held2 = held \union {id} /\ id \notin held
        BY <1>2, <3>5 DEF LotsOf
      <4>2. IsFiniteSet(held) /\ \A l \in held : t.remaining[l] \in Int
        <5> HIDE DEF held
        <5>1. ASSUME NEW l \in held PROVE t.remaining[l] \in Int
          <6>1. l \in DOMAIN s.remaining
            BY <3>3
          <6>2. QED
            BY <1>2, <6>1
        <5>2. QED
          BY <3>3, <5>1
      <4>3. SumOver(t.remaining, held2) = q + SumOver(t.remaining, held)
        <5>1. t.remaining[id] \in Int /\ t.remaining[id] = q
          BY <1>1, <1>2
        <5> HIDE DEF held, held2, q
        <5>2. QED
          BY <4>1, <4>2, <5>1, SumAdd
      <4>4. Net(txns, ids \union {id}, i) = Net(txns, ids, i) + q
        BY <3>5, NetWithOneMore
      <4>5. q \in Int
        BY <1>1
      <4> HIDE DEF q, held, held2
      <4>6. HeldShares(txns, t, i) = q + Net(txns, ids, i)
        BY <3>1, <3>2, <3>4, <4>3
      <4>7. q + Net(txns, ids, i) = Net(txns, ids, i) + q
        BY <3>2, <4>5
      <4>8. QED
        BY <4>4, <4>6, <4>7
    <3>6. CASE txns[id].instr # i
      <4>1. held2 = held
        BY <1>2, <3>6 DEF LotsOf
      <4>2. Net(txns, ids \union {id}, i) = Net(txns, ids, i) + 0
        BY <3>6, NetWithOneMore
      <4>3. Net(txns, ids, i) + 0 = Net(txns, ids, i)
        BY <3>2
      <4> HIDE DEF held, held2
      <4>4. QED
        BY <3>1, <3>2, <3>4, <4>1, <4>2, <4>3
    <3>7. QED
      BY <3>5, <3>6
  <2>2. QED
    BY <2>1 DEF NetHeld
<1>9. QED
  BY <1>3, <1>4, <1>5, <1>6, <1>7, <1>8 DEF Faithful

\* A disposal closes what it takes, first in, first out.
LEMMA ClosingStep ==
    ASSUME NEW txns, Book(txns), NEW ids \in SUBSET DOMAIN txns, NEW id \in DOMAIN txns \ ids,
           \A b \in ids : Before(txns, b, id),
           NEW s, Faithful(txns, ids, s), txns[id].type \in Closing,
           NEW slices, slices = Slices(txns, s, id), ClosedShares(slices) = txns[id].quantity,
           NEW t, Disposed(s, slices, t)
    PROVE  Faithful(txns, ids \union {id}, t)
<1> DEFINE D == DOMAIN s.remaining
           q == txns[id].quantity
           here == txns[id].instr
           held == LotsOf(txns, D, here)
           taken == [ l \in held |-> Taken(txns, s.remaining, held, q, l) ]
           Old(l) == { c \in s.closures : c.lot = l }
           Own(l) == { c \in slices : c.lot = l }
           All(l) == { c \in t.closures : c.lot = l }
<1>1. q \in Int /\ here \in Instruments
  BY DEF Book, RowOK
<1>2. /\ D \in SUBSET ids /\ D \in SUBSET DOMAIN txns /\ DOMAIN t.remaining = D
      /\ D = { x \in ids : txns[x].type \in Opening }
      /\ \A l \in D : s.remaining[l] \in Nat
      /\ \A c \in s.closures : c.lot \in D /\ c.by \in ids /\ c.quantity \in Nat \ {0}
      /\ Closures(s.closures)
  BY DEF Faithful, LotsOK, ClosuresOK, Disposed
<1>3. /\ Closures(slices)
      /\ \A c \in slices : c.lot \in held /\ c.by = id /\ c.quantity = taken[c.lot] /\ c.quantity \in Nat \ {0}
      /\ \A l \in held : ClosedShares(Own(l)) = taken[l]
      /\ \A l : l \notin held => Own(l) = {}
      /\ \A l \in held : taken[l] \in Nat
  <2>1. DOMAIN s.remaining \in SUBSET DOMAIN txns /\ \A l \in DOMAIN s.remaining : s.remaining[l] \in Nat
    BY <1>2
  <2>2. id \in DOMAIN txns /\ held = LotsOf(txns, DOMAIN s.remaining, txns[id].instr)
    OBVIOUS
  <2>3. taken = [ l \in held |-> Taken(txns, s.remaining, held, txns[id].quantity, l) ]
    OBVIOUS
  <2> HIDE DEF held, taken
  <2>4. QED
    BY <2>1, <2>2, <2>3, SliceOfEachLot
<1>4. /\ held = { l \in D : txns[l].instr = here }
      /\ \A l \in held : taken[l] <= s.remaining[l]
      /\ \A a, b \in held : Before(txns, a, b) /\ taken[b] > 0 => taken[a] = s.remaining[a]
  <2>1. held = { l \in D : txns[l].instr = here }
    BY DEF LotsOf
  <2>2. held \in SUBSET DOMAIN txns /\ \A l \in held : s.remaining[l] \in Nat
    BY <1>2, <2>1
  <2>3. \A l \in held : taken[l] = Taken(txns, s.remaining, held, q, l)
    OBVIOUS
  <2> HIDE DEF held, taken
  <2>4. /\ \A l \in held : Taken(txns, s.remaining, held, q, l) \in 0 .. s.remaining[l]
        /\ \A a, b \in held : Before(txns, a, b) /\ Taken(txns, s.remaining, held, q, b) > 0
                                => Taken(txns, s.remaining, held, q, a) = s.remaining[a]
    BY <1>1, <2>2, TakenInOrder
  <2>5. QED
    BY <2>1, <2>2, <2>3, <2>4
<1> HIDE DEF held, taken
<1>5. ASSUME NEW l
      PROVE  /\ Closures(Old(l)) /\ Closures(Own(l))
             /\ ClosedShares(Old(l)) \in Nat /\ ClosedShares(Own(l)) \in Nat
             /\ ClosedShares(All(l)) = ClosedShares(Old(l)) + ClosedShares(Own(l))
  <2>1. Old(l) \in SUBSET s.closures /\ Own(l) \in SUBSET slices
    OBVIOUS
  <2>2. Closures(Old(l)) /\ Closures(Own(l))
    BY <1>2, <1>3, <2>1, FS_Subset DEF Closures
  <2>3. All(l) = Old(l) \union Own(l)
    BY DEF Disposed
  <2>4. Old(l) \intersect Own(l) = {}
    BY <1>2, <1>3
  <2> HIDE DEF Old, Own, All
  <2>5. QED
    BY <2>2, <2>3, <2>4, ClosedUnion, ClosedNat
<1>6. /\ \A l \in D : t.remaining[l] = s.remaining[l] - ClosedShares(Own(l))
      /\ \A l \in held : t.remaining[l] = s.remaining[l] - taken[l]
      /\ \A l \in D \ held : ClosedShares(Own(l)) = 0 /\ t.remaining[l] = s.remaining[l]
  <2>1. \A l \in D : t.remaining[l] = s.remaining[l] - ClosedShares(Own(l))
    BY DEF Disposed
  <2>2. \A l \in D \ held : ClosedShares(Own(l)) = 0
    BY <1>3, ClosedFew
  <2>3. held \subseteq D
    BY <1>4
  <2> HIDE DEF Own
  <2>4. \A l \in D \ held : t.remaining[l] = s.remaining[l]
    BY <1>2, <2>1, <2>2
  <2>5. QED
    BY <1>3, <2>1, <2>2, <2>3, <2>4
<1>7. \A l \in D : t.remaining[l] \in Nat
  <2>1. \A l \in held : t.remaining[l] \in Nat
    BY <1>2, <1>3, <1>4, <1>6
  <2>2. QED
    BY <1>2, <1>6, <2>1
<1>8. LotsOK(txns, ids \union {id}, t)
  <2>1. txns[id].type \notin Opening
    BY DEF Opening, Closing
  <2>2. D = { x \in ids \union {id} : txns[x].type \in Opening }
    BY <1>2, <2>1
  <2>3. QED
    BY <1>2, <1>7, <2>2 DEF LotsOK
<1>9. ClosuresOK(txns, ids \union {id}, t)
  <2>1. Closures(t.closures)
    <3>1. IsFiniteSet(s.closures \union slices)
      BY <1>2, <1>3, FS_Union DEF Closures
    <3>2. t.closures = s.closures \union slices
      BY DEF Disposed
    <3>3. QED
      BY <1>2, <1>3, <3>1, <3>2 DEF Closures
  <2>2. held \subseteq D
    BY <1>4
  <2>3. QED
    BY <1>2, <1>3, <2>1, <2>2 DEF ClosuresOK, Disposed
<1>10. LotsConserve(txns, t)
  <2>1. ASSUME NEW l \in D PROVE txns[l].quantity = t.remaining[l] + ClosedShares(All(l))
    <3>1. txns[l].quantity = s.remaining[l] + ClosedShares(Old(l))
      BY DEF Faithful, LotsConserve
    <3>2. t.remaining[l] = s.remaining[l] - ClosedShares(Own(l)) /\ s.remaining[l] \in Nat
      BY <1>2, <1>6
    <3> HIDE DEF Old, Own, All
    <3>3. QED
      BY <1>5, <3>1, <3>2
  <2>2. QED
    BY <1>2, <2>1 DEF LotsConserve
<1>11. DisposalsConserve(txns, t)
  <2>1. ASSUME NEW c \in s.closures
        PROVE  ClosedShares({ e \in t.closures : e.by = c.by }) = txns[c.by].quantity
    <3>1. { e \in t.closures : e.by = c.by } = { e \in s.closures : e.by = c.by }
      BY <1>2, <1>3 DEF Disposed
    <3>2. QED
      BY <3>1 DEF Faithful, DisposalsConserve
  <2>2. ASSUME NEW c \in slices
        PROVE  ClosedShares({ e \in t.closures : e.by = c.by }) = txns[c.by].quantity
    <3>1. { e \in t.closures : e.by = c.by } = slices /\ c.by = id
      BY <1>2, <1>3 DEF Disposed
    <3>2. QED
      BY <3>1
  <2>3. QED
    BY <2>1, <2>2 DEF DisposalsConserve, Disposed
<1>12. InOrder(txns, t)
  <2>1. ASSUME NEW a \in D, NEW c \in s.closures,
               txns[a].instr = txns[c.lot].instr, Before(txns, a, c.lot)
        PROVE  txns[a].quantity =
                 ClosedShares({ e \in t.closures : e.lot = a /\ (e.by = c.by \/ Before(txns, e.by, c.by)) })
    <3>1. c.by \in ids /\ c.by # id /\ ~ Before(txns, id, c.by)
      BY <1>2, ReplayOrder
    <3>2. { e \in t.closures : e.lot = a /\ (e.by = c.by \/ Before(txns, e.by, c.by)) }
          = { e \in s.closures : e.lot = a /\ (e.by = c.by \/ Before(txns, e.by, c.by)) }
      BY <1>3, <3>1 DEF Disposed
    <3>3. txns[a].quantity =
            ClosedShares({ e \in s.closures : e.lot = a /\ (e.by = c.by \/ Before(txns, e.by, c.by)) })
      BY <2>1 DEF Faithful, InOrder
    <3>4. QED
      BY <3>2, <3>3
  <2>2. ASSUME NEW a \in D, NEW c \in slices,
               txns[a].instr = txns[c.lot].instr, Before(txns, a, c.lot)
        PROVE  txns[a].quantity =
                 ClosedShares({ e \in t.closures : e.lot = a /\ (e.by = c.by \/ Before(txns, e.by, c.by)) })
    <3>1. c.by = id /\ c.lot \in held /\ taken[c.lot] > 0
      BY <1>3
    <3>2. a \in held
      BY <1>4, <2>2, <3>1
    <3>3. taken[a] = s.remaining[a]
      BY <1>4, <2>2, <3>1, <3>2
    <3>4. { e \in t.closures : e.lot = a /\ (e.by = c.by \/ Before(txns, e.by, c.by)) } = All(a)
      BY <1>2, <1>3, <3>1 DEF Disposed
    <3>5. txns[a].quantity = s.remaining[a] + ClosedShares(Old(a))
      BY DEF Faithful, LotsConserve
    <3>6. ClosedShares(All(a)) = ClosedShares(Old(a)) + taken[a]
      <4>1. ClosedShares(Own(a)) = taken[a]
        BY <1>3, <3>2
      <4>2. ClosedShares(All(a)) = ClosedShares(Old(a)) + ClosedShares(Own(a))
        BY <1>5
      <4> HIDE DEF Old, Own, All
      <4>3. QED
        BY <4>1, <4>2
    <3>7. s.remaining[a] \in Nat /\ ClosedShares(Old(a)) \in Nat
      BY <1>2, <1>5
    <3> HIDE DEF Old, All
    <3>8. txns[a].quantity = ClosedShares(All(a))
      BY <3>3, <3>5, <3>6, <3>7
    <3>9. QED
      BY <3>4, <3>8
  <2>3. QED
    BY <1>2, <2>1, <2>2 DEF InOrder, Disposed
<1>13. NetHeld(txns, ids \union {id}, t)
  <2>1. ASSUME NEW i \in Instruments PROVE HeldShares(txns, t, i) = Net(txns, ids \union {id}, i)
    <3> DEFINE mine == LotsOf(txns, D, i)
    <3>1. HeldShares(txns, s, i) = SumOver(s.remaining, mine) /\ HeldShares(txns, t, i) = SumOver(t.remaining, mine)
      BY <1>2 DEF HeldShares, SumOver
    <3>2. HeldShares(txns, s, i) = Net(txns, ids, i) /\ Net(txns, ids, i) \in Int
      BY NetWithOneMore DEF Faithful, NetHeld
    <3>3. mine \in SUBSET D /\ IsFiniteSet(mine) /\ mine = { l \in D : txns[l].instr = i }
      <4>1. mine \in SUBSET DOMAIN txns /\ mine \in SUBSET D /\ mine = { l \in D : txns[l].instr = i }
        BY <1>2 DEF LotsOf
      <4>2. QED
        BY <4>1, FS_Subset DEF Book
    <3> HIDE DEF mine
    <3>4. CASE here = i
      <4>1. mine = held
        BY <1>4, <3>3, <3>4
      <4>2. \A l \in held : s.remaining[l] \in Int /\ taken[l] \in Int /\ t.remaining[l] = s.remaining[l] - taken[l]
        BY <1>2, <1>3, <1>4, <1>6
      <4> IsFiniteSet(held)
        BY <3>3, <4>1
      <4>3. SumOver(t.remaining, held) = SumOver(s.remaining, held) - SumOver(taken, held)
        BY <4>2, SumMinus
      <4>4. ClosedShares(slices) = SumOver(taken, held)
        <5>1. /\ \A c \in slices : c.lot \in held
              /\ \A l \in held : taken[l] = ClosedShares({ c \in slices : c.lot = l })
          BY <1>3
        <5>2. Closures(slices)
          BY <1>3
        <5>3. QED
          BY <5>1, <5>2, ClosedByLot
      <4>5. Net(txns, ids \union {id}, i) = Net(txns, ids, i) + (- q)
        <5>1. txns[id].type \notin Opening
          BY DEF Opening, Closing
        <5>2. QED
          BY <3>4, <5>1, NetWithOneMore
      <4>6. q = ClosedShares(slices)
        OBVIOUS
      <4> HIDE DEF q
      <4>7. QED
        BY <1>1, <3>1, <3>2, <4>1, <4>3, <4>4, <4>5, <4>6
    <3>5. CASE here # i
      <4>1. mine \intersect held = {}
        BY <1>4, <3>3, <3>5
      <4>2. \A l \in mine : t.remaining[l] = s.remaining[l]
        BY <1>6, <3>3, <4>1
      <4>3. SumOver(t.remaining, mine) = SumOver(s.remaining, mine)
        BY <3>3, <4>2, SumSame
      <4>4. Net(txns, ids \union {id}, i) = Net(txns, ids, i) + 0
        BY <3>5, NetWithOneMore
      <4>5. Net(txns, ids, i) + 0 = Net(txns, ids, i)
        BY <3>2
      <4>6. QED
        BY <3>1, <3>2, <4>3, <4>4, <4>5
    <3>6. QED
      BY <3>4, <3>5
  <2>2. QED
    BY <2>1 DEF NetHeld
<1>14. QED
  BY <1>8, <1>9, <1>10, <1>11, <1>12, <1>13 DEF Faithful
\* Dividends, fees, deposits and withdrawals are no concern of the lots.
LEMMA OtherStep ==
    ASSUME NEW txns, Book(txns), NEW ids \in SUBSET DOMAIN txns, NEW id \in DOMAIN txns \ ids,
           NEW s, Faithful(txns, ids, s), txns[id].type \notin Opening \union Closing
    PROVE  Faithful(txns, ids \union {id}, s)
<1>1. LotsOK(txns, ids \union {id}, s)
  BY DEF Faithful, LotsOK
<1>2. ClosuresOK(txns, ids \union {id}, s)
  BY DEF Faithful, ClosuresOK
<1>3. NetHeld(txns, ids \union {id}, s)
  <2>1. ASSUME NEW i \in Instruments PROVE Net(txns, ids \union {id}, i) = Net(txns, ids, i)
    <3>1. Net(txns, ids \union {id}, i) = Net(txns, ids, i) + 0 /\ Net(txns, ids, i) \in Int
      BY NetWithOneMore
    <3>2. QED
      BY <3>1
  <2>2. QED
    BY <2>1 DEF Faithful, NetHeld
<1>4. QED
  BY <1>1, <1>2, <1>3 DEF Faithful

\* Whatever was replayed without an oversell is accounted for.
Accounted(txns, ids, s) == StateShape(s) /\ (s.ok => Faithful(txns, ids, s))

LEMMA StepAccounts ==
    ASSUME NEW txns, Book(txns), NEW ids \in SUBSET DOMAIN txns, NEW id \in DOMAIN txns \ ids,
           \A b \in ids : Before(txns, b, id),
           NEW s, Accounted(txns, ids, s)
    PROVE  Accounted(txns, ids \union {id}, Step(txns, id, s))
<1> DEFINE t == Step(txns, id, s)
           slices == Slices(txns, s, id)
<1>1. StateShape(s)
  BY DEF Accounted
<1>2. CASE ~ s.ok
  BY <1>2, PassesBy DEF Accounted
<1>3. CASE s.ok /\ txns[id].type \in Opening
  <2>1. StateShape(t) /\ Opened(txns, id, s, t)
    BY <1>1, <1>3, OpensALot
  <2> HIDE DEF t
  <2>2. Faithful(txns, ids, s)
    BY <1>3 DEF Accounted
  <2>3. Faithful(txns, ids \union {id}, t)
    BY <1>3, <2>1, <2>2, OpeningStep
  <2>4. QED
    BY <2>1, <2>3 DEF Accounted, t
<1>4. CASE s.ok /\ txns[id].type \in Closing /\ ClosedShares(slices) = txns[id].quantity
  <2>1. StateShape(t) /\ Disposed(s, slices, t)
    BY <1>1, <1>4, ClosesSlices
  <2> HIDE DEF t
  <2>2. Faithful(txns, ids, s)
    BY <1>4 DEF Accounted
  <2>3. Faithful(txns, ids \union {id}, t)
    BY <1>4, <2>1, <2>2, ClosingStep
  <2>4. QED
    BY <2>1, <2>3 DEF Accounted, t
<1>5. CASE s.ok /\ txns[id].type \in Closing /\ ClosedShares(slices) # txns[id].quantity
  BY <1>1, <1>5, Oversells DEF Accounted
<1>6. CASE s.ok /\ txns[id].type \notin Opening \union Closing
  <2>1. t = s
    BY <1>6, PassesBy
  <2> HIDE DEF t
  <2>2. Faithful(txns, ids \union {id}, s)
    BY <1>6, OtherStep DEF Accounted
  <2>3. QED
    BY <1>1, <2>1, <2>2 DEF Accounted, t
<1>7. QED
  <2>1. s.ok \in BOOLEAN
    BY <1>1 DEF StateShape
  <2>2. QED
    BY <1>2, <1>3, <1>4, <1>5, <1>6, <2>1

LEMMA ReplayAccounts ==
    ASSUME NEW txns, Book(txns), NEW ids \in SUBSET DOMAIN txns
    PROVE  Accounted(txns, ids, Replay(txns, ids))
<1> DEFINE Bad == { T \in SUBSET ids : ~ Accounted(txns, T, Replay(txns, T)) }
<1>1. ASSUME NEW T \in Bad PROVE \E U \in Bad : U \subseteq T /\ U # T
  <2> DEFINE x == LatestOf(txns, T)
             rest == T \ {x}
  <2>1. T \in SUBSET DOMAIN txns
    OBVIOUS
  <2>2. T # {}
    BY <2>1, ReplayEquation, StartIsFaithful DEF Accounted
  <2>3. x \in T /\ \A b \in rest : Before(txns, b, x)
    BY <2>1, <2>2, LatestIsLast
  <2>4. Replay(txns, T) = Step(txns, x, Replay(txns, rest))
    BY <2>1, <2>2, ReplayEquation
  <2>5. rest \in SUBSET DOMAIN txns /\ x \in DOMAIN txns \ rest /\ T = rest \union {x}
    BY <2>3
  <2> HIDE DEF x, rest
  <2>6. ~ Accounted(txns, rest, Replay(txns, rest))
    BY <2>3, <2>4, <2>5, StepAccounts
  <2>7. rest \in Bad /\ rest \subseteq T /\ rest # T
    BY <2>3, <2>6 DEF rest
  <2>8. QED
    BY <2>7
<1>2. Bad = {}
  <2>1. Bad \in SUBSET SUBSET ids /\ IsFiniteSet(ids)
    BY FS_Subset DEF Book
  <2> HIDE DEF Bad
  <2>2. QED
    BY <1>1, <2>1, SubsetDescent
<1>3. QED
  BY <1>2

\* What does not oversell in the end did not oversell on the way.
LEMMA ReplayOfPrefix ==
    ASSUME NEW txns, Book(txns), NEW ids \in SUBSET DOMAIN txns, NEW P \in SUBSET ids,
           \A a \in P, b \in ids \ P : Before(txns, a, b),
           Replay(txns, ids).ok
    PROVE  Replay(txns, P).ok
<1> SUFFICES ASSUME ~ Replay(txns, P).ok PROVE FALSE
  OBVIOUS
<1> DEFINE Bad == { T \in SUBSET ids : P \subseteq T /\ Replay(txns, T).ok }
<1>1. ASSUME NEW T \in Bad PROVE \E U \in Bad : U \subseteq T /\ U # T
  <2> DEFINE x == LatestOf(txns, T)
             rest == T \ {x}
  <2>1. PICK y \in T : y \notin P
    OBVIOUS
  <2>2. T \in SUBSET DOMAIN txns /\ T # {} /\ rest \in SUBSET DOMAIN txns
    BY <2>1
  <2>3. x \in T /\ \A b \in rest : Before(txns, b, x)
    BY <2>2, LatestIsLast
  <2>4. x \notin P
    <3>1. ASSUME x \in P PROVE FALSE
      <4>1. Before(txns, x, y) /\ y \in rest
        BY <2>1, <3>1
      <4>2. Before(txns, y, x)
        BY <2>3, <4>1
      <4>3. QED
        BY <2>2, <2>3, <4>1, <4>2, ReplayOrder
    <3>2. QED
      BY <3>1
  <2>5. Replay(txns, T) = Step(txns, x, Replay(txns, rest))
    BY <2>2, ReplayEquation
  <2> HIDE DEF x, rest
  <2>6. Replay(txns, rest).ok
    BY <2>5, PassesBy
  <2>7. rest \in Bad /\ rest \subseteq T /\ rest # T
    BY <2>3, <2>4, <2>6 DEF rest
  <2>8. QED
    BY <2>7
<1>2. Bad = {}
  <2>1. Bad \in SUBSET SUBSET ids /\ IsFiniteSet(ids)
    BY FS_Subset DEF Book
  <2> HIDE DEF Bad
  <2>2. QED
    BY <1>1, <2>1, SubsetDescent
<1>3. ids \in Bad
  OBVIOUS
<1>4. QED
  BY <1>2, <1>3

-----------------------------------------------------------------------------
(* Lots. *)

\* The ledger only grows: txns is what book was at some time.
Earlier(txns, book) == DOMAIN txns \subseteq DOMAIN book /\ \A id \in DOMAIN txns : book[id] = txns[id]

\* The rows are those of a replay of the ledger as it is or was.
Replayed(r, rows, book) ==
    \E txns : /\ Book(txns) /\ Earlier(txns, book)
              /\ Replay(txns, Positions(txns)).ok
              /\ rows = LotRows(r, txns, Replay(txns, Positions(txns)))

\* Among the rows, every disposal took from the oldest lots first.
OldestFirst(rows) ==
    \A a, b \in rows : \A c \in b.closures :
        a.instr = b.instr /\ Before(ledger, a.open, b.open) =>
            a.opened = ClosedShares({ e \in a.closures : e.by = c.by \/ Before(ledger, e.by, c.by) })

LEMMA ReplayedLots ==
    ASSUME NEW r, NEW rows, Replayed(r, rows, ledger)
    PROVE  Conserve(rows) /\ OldestFirst(rows) /\ \A lot \in rows : lot.by = r
<1>1. PICK txns : /\ Book(txns) /\ Earlier(txns, ledger)
                  /\ Replay(txns, Positions(txns)).ok
                  /\ rows = LotRows(r, txns, Replay(txns, Positions(txns)))
  BY DEF Replayed
<1> DEFINE ids == Positions(txns)
           s == Replay(txns, ids)
           Of(l) == { c \in s.closures : c.lot = l }
           Row(l) == [ by |-> r, open |-> l, instr |-> txns[l].instr, opened |-> txns[l].quantity,
                       remaining |-> s.remaining[l], closures |-> Of(l) ]
<1>2. ids \in SUBSET DOMAIN txns
  BY DEF Positions
<1>3. Faithful(txns, ids, s)
  BY <1>1, <1>2, ReplayAccounts DEF Accounted
<1>4. rows = { Row(l) : l \in DOMAIN s.remaining }
  BY <1>1 DEF LotRows
<1> HIDE DEF s
<1>5. /\ DOMAIN s.remaining \subseteq DOMAIN txns
      /\ \A l \in DOMAIN s.remaining : s.remaining[l] \in Nat
      /\ \A c \in s.closures : c.lot \in DOMAIN s.remaining /\ c.by \in DOMAIN txns
  BY <1>2, <1>3 DEF Faithful, LotsOK, ClosuresOK
<1>6. ClosuresOf(rows) = s.closures
  <2>1. \A c \in s.closures : c \in Of(c.lot)
    OBVIOUS
  <2>2. \A l \in DOMAIN s.remaining : Row(l).closures = Of(l) /\ Of(l) \subseteq s.closures
    OBVIOUS
  <2> HIDE DEF Row
  <2>3. QED
    BY <1>4, <1>5, <2>1, <2>2 DEF ClosuresOf
<1>7. \A id \in DOMAIN txns : id \in DOMAIN ledger /\ ledger[id] = txns[id]
  BY <1>1 DEF Earlier
<1>8. Conserve(rows)
  <2>1. ASSUME NEW a \in rows, NEW b \in rows, a.open = b.open PROVE a = b
    <3>1. PICK k \in DOMAIN s.remaining : a = Row(k)
      BY <1>4
    <3>2. PICK l \in DOMAIN s.remaining : b = Row(l)
      BY <1>4
    <3>3. Row(k).open = k /\ Row(l).open = l
      OBVIOUS
    <3> HIDE DEF Row
    <3>4. QED
      BY <2>1, <3>1, <3>2, <3>3
  <2>2. ASSUME NEW lot \in rows
        PROVE  /\ lot.open \in DOMAIN ledger
               /\ lot.opened = ledger[lot.open].quantity
               /\ lot.remaining >= 0
               /\ lot.opened = lot.remaining + ClosedShares(lot.closures)
    <3>1. PICK l \in DOMAIN s.remaining : lot = Row(l)
      BY <1>4
    <3>2. /\ lot.open = l /\ lot.opened = txns[l].quantity
          /\ lot.remaining = s.remaining[l] /\ lot.closures = Of(l)
      BY <3>1
    <3>3. txns[l].quantity = s.remaining[l] + ClosedShares(Of(l))
      BY <1>3 DEF Faithful, LotsConserve
    <3>4. s.remaining[l] >= 0
      BY <1>5
    <3> HIDE DEF Of
    <3>5. QED
      BY <1>5, <1>7, <3>2, <3>3, <3>4
  <2>3. ASSUME NEW c \in ClosuresOf(rows)
        PROVE  ClosedShares({ e \in ClosuresOf(rows) : e.by = c.by }) = ledger[c.by].quantity
    <3>1. ClosedShares({ e \in s.closures : e.by = c.by }) = txns[c.by].quantity
      BY <1>3, <1>6 DEF Faithful, DisposalsConserve
    <3>2. txns[c.by] = ledger[c.by]
      BY <1>5, <1>6, <1>7
    <3>3. QED
      BY <1>6, <3>1, <3>2
  <2>4. QED
    BY <2>1, <2>2, <2>3 DEF Conserve
<1>9. OldestFirst(rows)
  <2>1. \A x, y \in DOMAIN txns : Before(ledger, x, y) <=> Before(txns, x, y)
    BY <1>7 DEF Before
  <2>2. ASSUME NEW a \in rows, NEW b \in rows, NEW c \in b.closures,
               a.instr = b.instr, Before(ledger, a.open, b.open)
        PROVE  a.opened = ClosedShares({ e \in a.closures : e.by = c.by \/ Before(ledger, e.by, c.by) })
    <3>1. PICK k \in DOMAIN s.remaining : a = Row(k)
      BY <1>4
    <3>2. PICK l \in DOMAIN s.remaining : b = Row(l)
      BY <1>4
    <3>3. /\ a.open = k /\ a.opened = txns[k].quantity /\ a.instr = txns[k].instr /\ a.closures = Of(k)
          /\ b.open = l /\ b.instr = txns[l].instr /\ b.closures = Of(l)
      BY <3>1, <3>2
    <3>4. c \in s.closures /\ c.lot = l
      BY <3>3
    <3>5. txns[k].instr = txns[c.lot].instr /\ Before(txns, k, c.lot)
      BY <1>5, <2>1, <2>2, <3>3, <3>4
    <3>6. txns[k].quantity =
            ClosedShares({ e \in s.closures : e.lot = k /\ (e.by = c.by \/ Before(txns, e.by, c.by)) })
      BY <1>3, <3>4, <3>5 DEF Faithful, InOrder
    <3>7. { e \in s.closures : e.lot = k /\ (e.by = c.by \/ Before(txns, e.by, c.by)) }
          = { e \in a.closures : e.by = c.by \/ Before(ledger, e.by, c.by) }
      BY <1>5, <2>1, <3>3, <3>4
    <3>8. QED
      BY <3>3, <3>6, <3>7
  <2>3. QED
    BY <2>2 DEF OldestFirst
<1>10. \A lot \in rows : lot.by = r
  BY <1>4
<1>11. QED
  BY <1>8, <1>9, <1>10

-----------------------------------------------------------------------------
(* Snapshots. *)

PointInTime(txns, days, rows) ==
    \A i \in Instruments, d \in days :
        LET net == NetShares(txns, i, d)
            mine == { row \in rows : row.instr = i /\ row.day = d }
        IN  /\ net >= 0
            /\ { row.quantity : row \in mine } = {net} \ {0}
            /\ \A row \in mine : row.close = None \/ row.close <= d

PricesOK == \A i \in Instruments : priced[i] \subseteq TradingDays

LEMMA NetOfTheDay ==
    ASSUME NEW txns, NEW i, NEW d
    PROVE  NetShares(txns, i, d) = Net(txns, Through(txns, d), i)
  BY DEF NetShares, Net, Side, SharesOf

\* What is held is never negative, and nothing is held of what was not traded.
LEMMA HeldIsNat ==
    ASSUME NEW txns, Book(txns), NEW ids \in SUBSET Positions(txns), NEW s, Faithful(txns, ids, s), NEW i
    PROVE  HeldShares(txns, s, i) \in Nat /\ (HeldShares(txns, s, i) > 0 => i \in Traded(txns))
<1> DEFINE held == LotsOf(txns, DOMAIN s.remaining, i)
<1>1. HeldShares(txns, s, i) = SumOver(s.remaining, held)
  BY DEF HeldShares, SumOver
<1>2. held \in SUBSET Positions(txns) /\ held \in SUBSET DOMAIN txns /\ \A l \in held : s.remaining[l] \in Nat
  BY DEF Faithful, LotsOK, LotsOf, Positions
<1>3. IsFiniteSet(held)
  BY <1>2, FS_Subset DEF Book
<1>4. SumOver(s.remaining, held) \in Nat
  <2> HIDE DEF held
  <2>1. QED
    BY <1>2, <1>3, SumNat
<1>5. CASE held = {}
  BY <1>1, <1>5, SumEmpty
<1>6. CASE held # {}
  <2>1. PICK l \in held : TRUE
    BY <1>6
  <2>2. l \in Positions(txns) /\ txns[l].instr = i
    BY <1>2, <2>1 DEF LotsOf
  <2>3. QED
    BY <1>1, <1>4, <2>2 DEF Traded
<1>7. QED
  BY <1>5, <1>6

LEMMA CloseIsKnown ==
    ASSUME PricesOK, NEW i \in Instruments, NEW d \in TradingDays
    PROVE  CloseFor(i, d) = None \/ CloseFor(i, d) <= d
<1> DEFINE known == { p \in priced[i] : p <= d }
<1>1. known \subseteq TradingDays /\ IsFiniteSet(known) /\ known \subseteq Int
  <2>1. known \subseteq TradingDays
    BY DEF PricesOK
  <2>2. IsFiniteSet(known)
    BY <2>1, FS_Subset, CalendarAssumption
  <2>3. known \subseteq Int
    <3>1. \A x \in TradingDays : x \in Int
      BY CalendarAssumption
    <3> HIDE DEF known
    <3>2. QED
      BY <2>1, <3>1
  <2>4. QED
    BY <2>1, <2>2, <2>3
<1>2. CASE known = {}
  BY <1>2 DEF CloseFor
<1>3. CASE known # {}
  <2>1. Max(known) \in known
    <3> HIDE DEF known
    <3>1. QED
      BY <1>1, <1>3, HasMax
  <2>2. CloseFor(i, d) = Max(known)
    BY <1>3 DEF CloseFor
  <2>3. QED
    BY <2>1, <2>2
<1>4. QED
  BY <1>2, <1>3

\* No day of a build was oversold, as its last day was not.
LEMMA EachDayReplays ==
    ASSUME NEW txns, Book(txns), NEW last \in Int, Replay(txns, Through(txns, last)).ok,
           NEW d \in Int, d <= last
    PROVE  Faithful(txns, Through(txns, d), Replay(txns, Through(txns, d)))
<1> DEFINE all == Through(txns, last)
           by == Through(txns, d)
<1>1. /\ all \in SUBSET DOMAIN txns /\ by \in SUBSET DOMAIN txns /\ by \in SUBSET all
      /\ \A a \in by, b \in all \ by : Before(txns, a, b)
  <2>1. \A id \in DOMAIN txns : txns[id].date \in Int
    BY DEF Book, RowOK
  <2>2. QED
    BY <2>1 DEF Through, Positions, Before
<1> HIDE DEF all, by
<1>2. Replay(txns, all).ok
  BY DEF all
<1>3. Replay(txns, by).ok
  BY <1>1, <1>2, ReplayOfPrefix
<1>4. Accounted(txns, by, Replay(txns, by))
  BY <1>1, ReplayAccounts
<1>5. QED
  BY <1>3, <1>4 DEF Accounted, by

LEMMA BuildIsPointInTime ==
    ASSUME Book(ledger), PricesOK, CanBuild
    PROVE  PointInTime(ledger, SnapshotDays(ledger), SnapshotRows(ledger))
<1> DEFINE days == SnapshotDays(ledger)
           State(d) == Replay(ledger, Through(ledger, d))
           rows == SnapshotRows(ledger)
<1>1. days \subseteq TradingDays /\ days # {} /\ days \subseteq Int /\ State(Max(days)).ok
  BY CalendarAssumption DEF CanBuild, SnapshotDays
<1>2. Max(days) \in days /\ \A d \in days : d <= Max(days)
  <2>1. IsFiniteSet(days)
    BY <1>1, FS_Subset, CalendarAssumption
  <2> HIDE DEF days
  <2>2. QED
    BY <1>1, <2>1, HasMax
<1>3. ASSUME NEW d \in days PROVE Faithful(ledger, Through(ledger, d), State(d))
  <2> DEFINE last == Max(days)
  <2>1. last \in Int /\ d \in Int /\ d <= last /\ Replay(ledger, Through(ledger, last)).ok
    BY <1>1, <1>2
  <2> HIDE DEF last, days
  <2>2. QED
    BY <2>1, EachDayReplays
<1>4. ASSUME NEW i \in Instruments, NEW d \in days
      PROVE  /\ NetShares(ledger, i, d) = HeldShares(ledger, State(d), i)
             /\ HeldShares(ledger, State(d), i) \in Nat
             /\ HeldShares(ledger, State(d), i) > 0 => i \in Traded(ledger)
  <2>1. NetShares(ledger, i, d) = Net(ledger, Through(ledger, d), i)
    BY NetOfTheDay
  <2>2. HeldShares(ledger, State(d), i) = Net(ledger, Through(ledger, d), i)
    BY <1>3 DEF Faithful, NetHeld
  <2>3. Through(ledger, d) \in SUBSET Positions(ledger)
    BY DEF Through
  <2> HIDE DEF State, days
  <2>4. QED
    BY <1>3, <2>1, <2>2, <2>3, HeldIsNat
<1>5. rows = UNION { DayRows(ledger, d, State(d)) : d \in days }
  BY DEF SnapshotRows
<1>6. ASSUME NEW i \in Instruments, NEW d \in days
      PROVE  /\ NetShares(ledger, i, d) >= 0
             /\ { row.quantity : row \in { row \in rows : row.instr = i /\ row.day = d } }
                   = {NetShares(ledger, i, d)} \ {0}
             /\ \A row \in { row \in rows : row.instr = i /\ row.day = d } : row.close = None \/ row.close <= d
  <2> DEFINE held == HeldShares(ledger, State(d), i)
             mine == { row \in rows : row.instr = i /\ row.day = d }
             Row == [ instr |-> i, day |-> d, quantity |-> held, close |-> CloseFor(i, d) ]
  <2>1. mine = IF held > 0 THEN {Row} ELSE {}
    <3>1. \A e \in days : DayRows(ledger, e, State(e)) =
              { [ instr |-> j, day |-> e, quantity |-> HeldShares(ledger, State(e), j), close |-> CloseFor(j, e) ]
                : j \in { k \in Traded(ledger) : HeldShares(ledger, State(e), k) > 0 } }
      BY DEF DayRows
    <3>2. \A row \in mine : row = Row /\ held > 0
      BY <1>5, <3>1
    <3>3. held > 0 => Row \in mine
      BY <1>4, <1>5, <3>1
    <3>4. QED
      BY <3>2, <3>3
  <2>2. Row.quantity = held /\ (Row.close = None \/ Row.close <= d)
    BY <1>1, CloseIsKnown
  <2>3. NetShares(ledger, i, d) = held /\ held \in Nat
    BY <1>4
  <2> HIDE DEF Row, mine, held
  <2>4. { row.quantity : row \in mine } = {held} \ {0}
    <3>1. CASE held > 0
      BY <2>1, <2>2, <3>1
    <3>2. CASE held = 0
      BY <2>1, <3>2
    <3>3. QED
      BY <2>3, <3>1, <3>2
  <2>5. \A row \in mine : row.close = None \/ row.close <= d
    BY <2>1, <2>2
  <2>6. QED
    BY <2>3, <2>4, <2>5 DEF mine
<1>7. QED
  <2> HIDE DEF days, rows
  <2>1. PointInTime(ledger, days, rows)
    BY <1>6 DEF PointInTime
  <2>2. QED
    BY <2>1 DEF days, rows

-----------------------------------------------------------------------------
(* The ledger, its importers and its rebuilders. *)

FreshOK(c) == \A k \in DOMAIN importer[c].fresh : RowOK(importer[c].fresh[k])

\* What a rebuild has in hand comes from the ledger as it is or was.
RebuildOK(r, rebuild, book) ==
    /\ DOMAIN rebuild = DOMAIN IdleRebuilder
    /\ rebuild.pc \in {"read", "clearing", "deleting"} =>
          /\ Book(rebuild.view) /\ Earlier(rebuild.view, book)
          /\ rebuild.replayed = Replay(rebuild.view, Positions(rebuild.view))
          /\ rebuild.replayed.ok
    /\ rebuild.pc \in {"inserted", "built"} => Replayed(r, rebuild.lots, book)
    /\ rebuild.pc = "built" => PointInTime(rebuild.view, rebuild.days, rebuild.rows)

BooksOK ==
    /\ Book(ledger)
    /\ \A c \in Importers : FreshOK(c) /\ Book(importer[c].pending)
    /\ DOMAIN priced = Instruments /\ PricesOK

LedgerInv ==
    /\ ImportInv
    /\ BooksOK
    /\ DOMAIN rebuilder = Rebuilders
    /\ \A r \in Rebuilders : RebuildOK(r, rebuilder[r], ledger)

LEMMA EmptyBook == Book(Empty) /\ \A k \in DOMAIN Empty : RowOK(Empty[k])
<1>1. DOMAIN Empty = {}
  BY DEF Empty
<1>2. QED
  BY <1>1, FS_EmptySet DEF Book

LEMMA IdleRebuildOK == \A r, book : RebuildOK(r, IdleRebuilder, book)
<1>1. IdleRebuilder.pc = "idle"
  BY DEF IdleRebuilder
<1>2. QED
  BY <1>1 DEF RebuildOK

\* Accepted rows are valid.
LEMMA AcceptedRows ==
    ASSUME NEW file \in Files, Acceptable(file)
    PROVE  \A k \in DOMAIN file : RowOK(file[k])
  BY FilesAssumption DEF Acceptable, ValidRow, RowOK, CashOnly

LEMMA NumberedBook ==
    ASSUME nextId \in Nat, NEW fresh, Numbers(DOMAIN fresh), \A k \in DOMAIN fresh : RowOK(fresh[k])
    PROVE  Book(Numbered(fresh))
<1>1. PICK n \in Nat : DOMAIN fresh \subseteq 1 .. n
  BY DEF Numbers
<1>2. \A id \in DOMAIN Numbered(fresh) :
         /\ id \in nextId .. nextId + n
         /\ id - nextId + 1 \in DOMAIN fresh
         /\ Numbered(fresh)[id] = fresh[id - nextId + 1]
  BY <1>1 DEF Numbered
<1>3. IsFiniteSet(DOMAIN Numbered(fresh))
  <2>1. IsFiniteSet(nextId .. nextId + n)
    BY FS_Interval
  <2>2. DOMAIN Numbered(fresh) \in SUBSET (nextId .. nextId + n)
    BY <1>2
  <2>3. QED
    BY <2>1, <2>2, FS_Subset
<1>4. QED
  BY <1>2, <1>3 DEF Book

\* What was imported stays as it is.
LEMMA LedgerGrows ==
    ASSUME [Next]_vars
    PROVE  Earlier(ledger, ledger')
<1>1. ASSUME NEW c \in Importers, CommitImport(c) PROVE Earlier(ledger, ledger')
  BY <1>1 DEF CommitImport, Earlier
<1>2. ASSUME UNCHANGED ledger PROVE Earlier(ledger, ledger')
  BY <1>2 DEF Earlier
<1>3. ASSUME NEW c \in Importers, Import(c) PROVE Earlier(ledger, ledger')
  BY <1>1, <1>2, <1>3 DEF Import, BeginImport, AppendRows, AbortImport
<1>4. ASSUME NEW r \in Rebuilders, RebuildStep(r) \/ CrashRebuild(r) PROVE UNCHANGED ledger
  BY <1>4 DEF RebuildStep, ReadLedger, DeleteClosures, DeleteLots, RejectDelete, InsertLots,
     BuildSnapshots, FailBuild, CommitRebuild, CrashRebuild
<1>5. ASSUME NEW i \in Instruments, NEW d \in TradingDays, Price(i, d) PROVE UNCHANGED ledger
  BY <1>5 DEF Price
<1>6. QED
  BY <1>2, <1>3, <1>4, <1>5 DEF Next, vars

LEMMA EarlierStill ==
    ASSUME NEW txns, NEW book, NEW later, Earlier(txns, book), Earlier(book, later)
    PROVE  Earlier(txns, later)
  BY DEF Earlier

LEMMA ReplayedStill ==
    ASSUME NEW r, NEW rows, NEW book, NEW later, Replayed(r, rows, book), Earlier(book, later)
    PROVE  Replayed(r, rows, later)
  BY EarlierStill DEF Replayed

LEMMA RebuildStillOK ==
    ASSUME NEW r, NEW rebuild, NEW book, NEW later, RebuildOK(r, rebuild, book), Earlier(book, later)
    PROVE  RebuildOK(r, rebuild, later)
  BY EarlierStill, ReplayedStill DEF RebuildOK

\* Who does not import keeps the books.
LEMMA BooksUntouched ==
    ASSUME BooksOK, UNCHANGED << ledger, importer, priced >>
    PROVE  BooksOK'
  BY DEF BooksOK, FreshOK, PricesOK

LEMMA ImportKeepsBooks ==
    ASSUME ImportInv, BooksOK, NEW c \in Importers, Import(c)
    PROVE  BooksOK'
<1>1. /\ \A o \in Importers \ {c} : importer'[o] = importer[o]
      /\ UNCHANGED priced
      /\ DOMAIN importer[c] = { "pc", "fresh", "pending" }
      /\ DOMAIN importer = Importers
  BY DEF Import, BeginImport, AppendRows, CommitImport, AbortImport, ImportInv, ImporterOK
<1>2. ASSUME Book(ledger'),
             \A k \in DOMAIN importer'[c].fresh : RowOK(importer'[c].fresh[k]),
             Book(importer'[c].pending)
      PROVE  BooksOK'
  <2>1. ASSUME NEW o \in Importers PROVE FreshOK(o)' /\ Book(importer'[o].pending)
    <3>1. CASE o = c
      BY <1>2, <3>1 DEF FreshOK
    <3>2. CASE o # c
      BY <1>1, <3>2 DEF BooksOK, FreshOK
    <3>3. QED
      BY <3>1, <3>2
  <2>2. DOMAIN priced' = Instruments /\ PricesOK'
    BY <1>1 DEF BooksOK, PricesOK
  <2>3. QED
    BY <1>2, <2>1, <2>2 DEF BooksOK
<1>3. ASSUME NEW file \in Files, BeginImport(c, file) PROVE BooksOK'
  <2> DEFINE positions == { k \in DOMAIN file : file[k].ext \notin ExtIds(ledger) }
             fresh == Restrict(file, positions)
  <2>1. /\ importer'[c].fresh = fresh /\ importer'[c].pending = importer[c].pending
        /\ ledger' = ledger
    BY <1>1, <1>3 DEF BeginImport
  <2>2. \A k \in DOMAIN file : RowOK(file[k])
    BY <1>3, AcceptedRows DEF BeginImport
  <2>3. \A k \in DOMAIN fresh : RowOK(fresh[k])
    BY <2>2 DEF Restrict
  <2> HIDE DEF fresh
  <2>4. QED
    BY <1>2, <2>1, <2>3 DEF BooksOK
<1>4. ASSUME AppendRows(c) PROVE BooksOK'
  <2> DEFINE fresh == importer[c].fresh
  <2>1. /\ importer'[c].fresh = fresh /\ importer'[c].pending = Numbered(fresh)
        /\ ledger' = ledger
    BY <1>1, <1>4 DEF AppendRows
  <2>2. Book(Numbered(fresh))
    BY NumberedBook DEF ImportInv, ImporterOK, BooksOK, FreshOK
  <2>3. \A k \in DOMAIN fresh : RowOK(fresh[k])
    BY DEF BooksOK, FreshOK
  <2> HIDE DEF fresh
  <2>4. QED
    BY <1>2, <2>1, <2>2, <2>3 DEF BooksOK
<1>5. ASSUME importer'[c] = IdleImporter, Book(ledger') PROVE BooksOK'
  BY <1>2, <1>5, EmptyBook, IdleHasNoRows
<1>6. ASSUME CommitImport(c) PROVE BooksOK'
  <2> DEFINE rows == importer[c].pending
  <2>1. /\ importer'[c] = IdleImporter
        /\ DOMAIN ledger' = DOMAIN ledger \union DOMAIN rows
        /\ \A id \in DOMAIN ledger : ledger'[id] = ledger[id]
        /\ \A id \in DOMAIN rows \ DOMAIN ledger : ledger'[id] = rows[id]
    BY <1>1, <1>6 DEF CommitImport
  <2>2. Book(ledger) /\ Book(rows)
    BY DEF BooksOK
  <2> HIDE DEF rows
  <2>3. IsFiniteSet(DOMAIN ledger')
    BY <2>1, <2>2, FS_Union DEF Book
  <2>4. Book(ledger')
    BY <2>1, <2>2, <2>3 DEF Book
  <2>5. QED
    BY <1>5, <2>1, <2>4
<1>7. ASSUME AbortImport(c) PROVE BooksOK'
  BY <1>1, <1>5, <1>7 DEF AbortImport, BooksOK
<1>8. QED
  BY <1>3, <1>4, <1>6, <1>7 DEF Import

LEMMA NextKeepsBooks ==
    ASSUME ImportInv, BooksOK, [Next]_vars
    PROVE  BooksOK'
<1>1. ASSUME NEW r \in Rebuilders, RebuildStep(r) \/ CrashRebuild(r) PROVE BooksOK'
  BY <1>1, BooksUntouched DEF RebuildStep, ReadLedger, DeleteClosures, DeleteLots, RejectDelete, InsertLots,
     BuildSnapshots, FailBuild, CommitRebuild, CrashRebuild
<1>2. ASSUME NEW i \in Instruments, NEW d \in TradingDays, Price(i, d) PROVE BooksOK'
  BY <1>2 DEF Price, BooksOK, FreshOK, PricesOK
<1>3. CASE UNCHANGED vars
  BY <1>3, BooksUntouched DEF vars
<1>4. QED
  BY <1>1, <1>2, <1>3, ImportKeepsBooks DEF Next

\* A rebuild takes over the ledger of one moment, and may build from a later one.
LEMMA RebuildKeeps ==
    ASSUME BooksOK, NEW r \in Rebuilders, r \in DOMAIN rebuilder,
           RebuildOK(r, rebuilder[r], ledger), RebuildStep(r) \/ CrashRebuild(r)
    PROVE  RebuildOK(r, rebuilder'[r], ledger)
<1> DEFINE now == rebuilder[r]
           then == rebuilder'[r]
<1>1. DOMAIN now = { "pc", "view", "replayed", "cleared", "doomed", "alongside", "lots", "days", "rows" }
      /\ DOMAIN IdleRebuilder = DOMAIN now
  BY DEF RebuildOK, IdleRebuilder
<1>2. CASE ReadLedger(r)
  <2>1. /\ then = [ now EXCEPT !.pc = "read", !.view = ledger, !.replayed = Replay(ledger, Positions(ledger)) ]
        /\ Replay(ledger, Positions(ledger)).ok
    BY <1>2 DEF ReadLedger
  <2>2. /\ DOMAIN then = DOMAIN now /\ then.pc = "read" /\ then.view = ledger
        /\ then.replayed = Replay(ledger, Positions(ledger)) /\ then.replayed.ok
    BY <1>1, <2>1
  <2>3. Book(ledger) /\ Earlier(ledger, ledger)
    BY DEF BooksOK, Earlier
  <2> HIDE DEF now, then
  <2>4. RebuildOK(r, then, ledger)
    BY <1>1, <2>2, <2>3 DEF RebuildOK
  <2>5. QED
    BY <2>4 DEF then
<1>3. CASE DeleteClosures(r) \/ DeleteLots(r)
  <2>1. /\ now.pc \in {"read", "clearing"} /\ DOMAIN then = DOMAIN now
        /\ then.pc \in {"clearing", "deleting"}
        /\ then.view = now.view /\ then.replayed = now.replayed
    BY <1>1, <1>3 DEF DeleteClosures, DeleteLots, StartDeleting
  <2> HIDE DEF now, then
  <2>2. RebuildOK(r, then, ledger)
    BY <1>1, <2>1 DEF RebuildOK, now
  <2>3. QED
    BY <2>2 DEF then
<1>4. CASE InsertLots(r)
  <2>1. /\ now.pc = "deleting" /\ DOMAIN then = DOMAIN now /\ then.pc = "inserted"
        /\ then.lots = LotRows(r, now.view, now.replayed)
    BY <1>1, <1>4 DEF InsertLots
  <2>2. Replayed(r, then.lots, ledger)
    <3>1. /\ Book(now.view) /\ Earlier(now.view, ledger)
          /\ now.replayed = Replay(now.view, Positions(now.view)) /\ now.replayed.ok
      BY <2>1 DEF RebuildOK
    <3> HIDE DEF now, then
    <3>2. QED
      BY <2>1, <3>1 DEF Replayed
  <2> HIDE DEF now, then
  <2>3. RebuildOK(r, then, ledger)
    BY <1>1, <2>1, <2>2 DEF RebuildOK
  <2>4. QED
    BY <2>3 DEF then
<1>5. CASE BuildSnapshots(r)
  <2>1. /\ now.pc = "inserted" /\ DOMAIN then = DOMAIN now /\ then.pc = "built"
        /\ then.lots = now.lots /\ then.view = ledger
        /\ then.days = SnapshotDays(ledger) /\ then.rows = SnapshotRows(ledger)
    BY <1>1, <1>5 DEF BuildSnapshots
  <2>2. PointInTime(ledger, SnapshotDays(ledger), SnapshotRows(ledger))
    BY <1>5, BuildIsPointInTime DEF BuildSnapshots, BooksOK
  <2>3. Replayed(r, now.lots, ledger)
    BY <2>1 DEF RebuildOK
  <2> HIDE DEF now, then
  <2>4. RebuildOK(r, then, ledger)
    BY <1>1, <2>1, <2>2, <2>3 DEF RebuildOK
  <2>5. QED
    BY <2>4 DEF then
<1>6. CASE then = IdleRebuilder
  BY <1>6, IdleRebuildOK
<1>7. QED
  BY <1>2, <1>3, <1>4, <1>5, <1>6 DEF RebuildStep, RejectDelete, FailBuild, CommitRebuild,
     RebuildersAfter, CrashRebuild

\* A rebuild whose rows others wait for, or delete, goes on with what it has in hand.
SameWork(a, b) ==
    /\ DOMAIN a = DOMAIN b
    /\ a.pc = b.pc /\ a.view = b.view /\ a.replayed = b.replayed
    /\ a.lots = b.lots /\ a.days = b.days /\ a.rows = b.rows

LEMMA SameWorkOK ==
    ASSUME NEW r, NEW a, NEW b, NEW book, RebuildOK(r, a, book), SameWork(a, b)
    PROVE  RebuildOK(r, b, book)
  BY DEF RebuildOK, SameWork

\* What a step of r does to the others' rebuilds.
LEMMA OthersWorkOn ==
    ASSUME NEW r \in Rebuilders, RebuildStep(r) \/ CrashRebuild(r),
           DOMAIN rebuilder = Rebuilders,
           \A o \in Rebuilders : DOMAIN rebuilder[o] = DOMAIN IdleRebuilder
    PROVE  DOMAIN rebuilder' = Rebuilders
           /\ \A o \in Rebuilders \ {r} : SameWork(rebuilder[o], rebuilder'[o])
<1>1. \A o \in Rebuilders :
         DOMAIN rebuilder[o] = { "pc", "view", "replayed", "cleared", "doomed", "alongside", "lots", "days", "rows" }
  BY DEF IdleRebuilder
<1>2. CASE DeleteLots(r)
  BY <1>1, <1>2 DEF DeleteLots, StartDeleting, SameWork
<1>3. CASE CommitRebuild(r)
  BY <1>1, <1>3 DEF CommitRebuild, RebuildersAfter, SameWork
<1>4. CASE /\ DOMAIN rebuilder' = DOMAIN rebuilder
           /\ \A o \in Rebuilders \ {r} : rebuilder'[o] = rebuilder[o]
  BY <1>4 DEF SameWork
<1>5. QED
  BY <1>2, <1>3, <1>4 DEF RebuildStep, ReadLedger, DeleteClosures, RejectDelete, InsertLots,
     BuildSnapshots, FailBuild, CrashRebuild

LEMMA InitLedgerInv == Init => LedgerInv
<1> SUFFICES ASSUME Init PROVE LedgerInv
  OBVIOUS
<1>1. BooksOK
  <2>1. \A c \in Importers : FreshOK(c) /\ Book(importer[c].pending)
    BY EmptyBook, IdleHasNoRows DEF Init, FreshOK
  <2>2. QED
    BY <2>1, EmptyBook DEF Init, BooksOK, PricesOK
<1>2. DOMAIN rebuilder = Rebuilders /\ \A r \in Rebuilders : RebuildOK(r, rebuilder[r], ledger)
  BY IdleRebuildOK DEF Init
<1>3. QED
  BY <1>1, <1>2, InitImportInv DEF LedgerInv

LEMMA NextLedgerInv == LedgerInv /\ [Next]_vars => LedgerInv'
<1> SUFFICES ASSUME LedgerInv, [Next]_vars PROVE LedgerInv'
  OBVIOUS
<1>1. ImportInv' /\ BooksOK'
  BY NextImportInv, NextKeepsBooks DEF LedgerInv
<1>2. Earlier(ledger, ledger')
  BY LedgerGrows
<1>3. DOMAIN rebuilder' = Rebuilders /\ \A r \in Rebuilders : RebuildOK(r, rebuilder'[r], ledger')
  <2>1. ASSUME UNCHANGED rebuilder
        PROVE  DOMAIN rebuilder' = Rebuilders /\ \A r \in Rebuilders : RebuildOK(r, rebuilder'[r], ledger')
    BY <1>2, <2>1, RebuildStillOK DEF LedgerInv
  <2>2. ASSUME NEW r \in Rebuilders, RebuildStep(r) \/ CrashRebuild(r)
        PROVE  DOMAIN rebuilder' = Rebuilders /\ \A o \in Rebuilders : RebuildOK(o, rebuilder'[o], ledger')
    <3>1. DOMAIN rebuilder' = Rebuilders
          /\ \A o \in Rebuilders \ {r} : SameWork(rebuilder[o], rebuilder'[o])
      BY <2>2, OthersWorkOn DEF LedgerInv, RebuildOK
    <3>2. RebuildOK(r, rebuilder'[r], ledger)
      BY <2>2, RebuildKeeps DEF LedgerInv
    <3>3. \A o \in Rebuilders : RebuildOK(o, rebuilder'[o], ledger)
      BY <3>1, <3>2, SameWorkOK DEF LedgerInv
    <3>4. QED
      BY <1>2, <3>1, <3>3, RebuildStillOK
  <2>3. ASSUME NEW c \in Importers, Import(c) PROVE UNCHANGED rebuilder
    BY <2>3 DEF Import, BeginImport, AppendRows, CommitImport, AbortImport
  <2>4. ASSUME NEW i \in Instruments, NEW d \in TradingDays, Price(i, d) PROVE UNCHANGED rebuilder
    BY <2>4 DEF Price
  <2>5. QED
    BY <2>1, <2>2, <2>3, <2>4 DEF Next, vars
<1>4. QED
  BY <1>1, <1>3 DEF LedgerInv

-----------------------------------------------------------------------------
(* The lots of several rebuilds. *)

\* Of the rows of o, all or none.
Whole(o, rows) == LotsBy(o) \subseteq rows \/ LotsBy(o) \intersect rows = {}

\* A rebuild past the start of its second delete is deleting rows that are there,
\* its own last ones among them, and knows who else is at it: those rows that it
\* is not deleting are theirs.
UnderwayOK(r) ==
    /\ rebuilder[r].doomed \subseteq lots
    /\ LotsBy(r) \subseteq rebuilder[r].doomed
    /\ \A lot \in lots \ rebuilder[r].doomed : lot.by \in rebuilder[r].alongside
    /\ \A o \in Rebuilders : Whole(o, rebuilder[r].doomed)
    /\ Underway \ {r} \subseteq rebuilder[r].alongside

\* The lots of one rebuild are those of one replay; those of two overlapped.
LotsInv ==
    /\ \A lot \in lots : lot.by \in Rebuilders
    /\ \A r \in Rebuilders : LotsBy(r) = {} \/ Replayed(r, LotsBy(r), ledger)
    /\ \A r \in Underway : UnderwayOK(r)
    /\ \A a, b \in lots : a.by # b.by => {a.by, b.by} \in overlaps

LEMMA LotsConserved == LotsInv => BuildsConserveShares /\ FirstInFirstOut
<1> SUFFICES ASSUME LotsInv PROVE BuildsConserveShares /\ FirstInFirstOut
  OBVIOUS
<1>1. ASSUME NEW r \in Rebuilders PROVE Conserve(LotsBy(r)) /\ OldestFirst(LotsBy(r))
  <2>1. CASE LotsBy(r) = {}
    <3>1. ClosuresOf({}) = {}
      BY DEF ClosuresOf
    <3>2. Conserve({}) /\ OldestFirst({})
      BY <3>1 DEF Conserve, OldestFirst
    <3>3. QED
      BY <2>1, <3>2
  <2>2. CASE Replayed(r, LotsBy(r), ledger)
    BY <2>2, ReplayedLots
  <2>3. QED
    BY <2>1, <2>2 DEF LotsInv
<1>2. BuildsConserveShares
  BY <1>1 DEF BuildsConserveShares, LotsInv
<1>3. FirstInFirstOut
  <2>1. ASSUME NEW a \in lots, NEW b \in lots, NEW c \in b.closures,
               a.by = b.by, a.instr = b.instr, Before(ledger, a.open, b.open)
        PROVE  a.opened = ClosedShares({ e \in a.closures : e.by = c.by \/ Before(ledger, e.by, c.by) })
    <3>1. a.by \in Rebuilders /\ a \in LotsBy(a.by) /\ b \in LotsBy(a.by)
      BY <2>1 DEF LotsInv, LotsBy
    <3>2. OldestFirst(LotsBy(a.by))
      BY <1>1, <3>1
    <3>3. QED
      BY <2>1, <3>1, <3>2 DEF OldestFirst
  <2>2. QED
    BY <2>1 DEF FirstInFirstOut
<1>4. QED
  BY <1>2, <1>3

LEMMA InitLotsInv == Init => LotsInv
<1> SUFFICES ASSUME Init PROVE LotsInv
  OBVIOUS
<1>1. lots = {} /\ \A r \in Rebuilders : rebuilder[r].pc = "idle"
  BY DEF Init, IdleRebuilder
<1>2. QED
  BY <1>1 DEF LotsInv, LotsBy, Underway

\* A step that leaves the lots alone, and starts no delete.
LEMMA LotsStand ==
    ASSUME LotsInv, Earlier(ledger, ledger'), UNCHANGED << lots, overlaps >>,
           Underway' \subseteq Underway,
           \A r \in Underway' : rebuilder'[r].doomed = rebuilder[r].doomed
                                /\ rebuilder'[r].alongside = rebuilder[r].alongside
    PROVE  LotsInv'
<1>1. \A r : LotsBy(r)' = LotsBy(r)
  BY DEF LotsBy
<1>2. ASSUME NEW r \in Rebuilders PROVE (LotsBy(r) = {} \/ Replayed(r, LotsBy(r), ledger))'
  BY <1>1, ReplayedStill DEF LotsInv
<1>3. ASSUME NEW r \in Underway' PROVE UnderwayOK(r)'
  <2>1. UnderwayOK(r)
    BY <1>3 DEF LotsInv
  <2>2. rebuilder'[r].doomed = rebuilder[r].doomed /\ rebuilder'[r].alongside = rebuilder[r].alongside
    BY <1>3
  <2>3. \A o \in Rebuilders : Whole(o, rebuilder[r].doomed)'
    BY <1>1, <2>1, <2>2 DEF UnderwayOK, Whole
  <2>4. Underway' \ {r} \subseteq rebuilder'[r].alongside
    BY <2>1, <2>2 DEF UnderwayOK
  <2>5. QED
    BY <1>1, <2>1, <2>2, <2>3, <2>4 DEF UnderwayOK
<1>4. QED
  BY <1>2, <1>3 DEF LotsInv

LEMMA DeleteKeepsLotsInv ==
    ASSUME LedgerInv, LotsInv, NEW r \in Rebuilders, DeleteLots(r)
    PROVE  LotsInv'
<1>1. /\ UNCHANGED << lots, overlaps, ledger >>
      /\ rebuilder'[r].pc = "deleting" /\ rebuilder'[r].doomed = lots
      /\ rebuilder'[r].alongside = Underway
      /\ r \notin Underway
      /\ \A o \in Underway : /\ rebuilder'[o].pc = rebuilder[o].pc
                             /\ rebuilder'[o].doomed = rebuilder[o].doomed
                             /\ rebuilder'[o].alongside = rebuilder[o].alongside \union {r}
      /\ \A o \in Rebuilders \ (Underway \union {r}) : rebuilder'[o] = rebuilder[o]
  <2>1. DOMAIN rebuilder = Rebuilders
        /\ \A o \in Rebuilders :
              DOMAIN rebuilder[o] = { "pc", "view", "replayed", "cleared", "doomed", "alongside", "lots", "days", "rows" }
    BY DEF LedgerInv, RebuildOK, IdleRebuilder
  <2>2. r \notin Underway /\ Underway \subseteq Rebuilders
    BY DEF DeleteLots, Underway
  <2>3. StartDeleting(r, lots) /\ UNCHANGED << lots, overlaps, ledger >>
    BY DEF DeleteLots
  <2> HIDE DEF Underway
  <2>4. QED
    BY <2>1, <2>2, <2>3 DEF StartDeleting
<1>2. Underway' = Underway \union {r}
  BY <1>1 DEF Underway
<1>3. \A o : LotsBy(o)' = LotsBy(o) /\ LotsBy(o) \subseteq lots
  BY <1>1 DEF LotsBy
<1>4. UnderwayOK(r)'
  <2>1. \A o \in Rebuilders : Whole(o, lots)'
    BY <1>1, <1>3 DEF Whole
  <2>2. QED
    BY <1>1, <1>2, <1>3, <2>1 DEF UnderwayOK, Whole
<1>5. ASSUME NEW o \in Underway PROVE UnderwayOK(o)'
  <2>1. UnderwayOK(o)
    BY DEF LotsInv
  <2>2. \A x \in Rebuilders : Whole(x, rebuilder[o].doomed)'
    BY <1>1, <1>3, <2>1 DEF UnderwayOK, Whole
  <2>3. Underway' \ {o} \subseteq rebuilder'[o].alongside
    BY <1>1, <1>2, <2>1 DEF UnderwayOK
  <2>4. QED
    BY <1>1, <1>3, <2>1, <2>2, <2>3 DEF UnderwayOK
<1>6. \A o \in Rebuilders : (LotsBy(o) = {} \/ Replayed(o, LotsBy(o), ledger))'
  BY <1>1, <1>3 DEF LotsInv, Replayed
<1>7. QED
  BY <1>1, <1>2, <1>4, <1>5, <1>6 DEF LotsInv

LEMMA CommitKeepsLotsInv ==
    ASSUME LedgerInv, LotsInv, NEW r \in Rebuilders, CommitRebuild(r)
    PROVE  LotsInv'
<1> DEFINE gone == rebuilder[r].doomed
           new == rebuilder[r].lots
<1>1. /\ r \in Underway /\ lots' = (lots \ gone) \union new /\ ledger' = ledger
      /\ overlaps' = OverlapsAfter(r)
      /\ rebuilder'[r] = IdleRebuilder /\ IdleRebuilder.pc = "idle"
      /\ \A o \in Rebuilders \ {r} : /\ rebuilder'[o].pc = rebuilder[o].pc
                                     /\ rebuilder'[o].doomed = rebuilder[o].doomed \ gone
                                     /\ rebuilder'[o].alongside = rebuilder[o].alongside
  <2>1. DOMAIN rebuilder = Rebuilders
        /\ \A o \in Rebuilders :
              DOMAIN rebuilder[o] = { "pc", "view", "replayed", "cleared", "doomed", "alongside", "lots", "days", "rows" }
    BY DEF LedgerInv, RebuildOK, IdleRebuilder
  <2>2. QED
    BY <2>1 DEF CommitRebuild, RebuildersAfter, IdleRebuilder, Underway
<1>2. Replayed(r, new, ledger)
  BY DEF CommitRebuild, LedgerInv, RebuildOK
<1>3. \A lot \in new : lot.by = r
  BY <1>2, ReplayedLots
<1>4. UnderwayOK(r)
  BY <1>1 DEF LotsInv
<1>5. Underway' = Underway \ {r}
  BY <1>1 DEF Underway
<1>6. LotsBy(r)' = new
  BY <1>1, <1>3, <1>4 DEF LotsBy, UnderwayOK
<1>7. ASSUME NEW o \in Rebuilders \ {r} PROVE LotsBy(o)' = LotsBy(o) \ gone
  BY <1>1, <1>3 DEF LotsBy
<1>8. ASSUME NEW o \in Rebuilders \ {r} 
      PROVE  LotsBy(o)' = {} \/ (LotsBy(o)' = LotsBy(o) /\ LotsBy(o) \intersect gone = {})
  <2>1. Whole(o, gone)
    BY <1>4 DEF UnderwayOK
  <2>2. LotsBy(o)' = LotsBy(o) \ gone
    BY <1>7
  <2> HIDE DEF gone
  <2>3. QED
    BY <2>1, <2>2 DEF Whole
<1>9. \A lot \in lots' : lot.by \in Rebuilders
  BY <1>1, <1>3 DEF LotsInv
<1>10. ASSUME NEW o \in Rebuilders PROVE LotsBy(o)' = {} \/ Replayed(o, LotsBy(o)', ledger')
  <2>1. CASE o = r
    BY <1>1, <1>2, <1>6, <2>1
  <2>2. CASE o # r
    BY <1>1, <1>8, <2>2 DEF LotsInv
  <2>3. QED
    BY <2>1, <2>2
<1>11. ASSUME NEW o \in Underway \ {r} PROVE UnderwayOK(o)'
  <2>1. UnderwayOK(o) /\ o \in Rebuilders \ {r}
    BY DEF LotsInv, Underway
  <2>2. /\ rebuilder'[o].doomed = rebuilder[o].doomed \ gone
        /\ rebuilder'[o].alongside = rebuilder[o].alongside
    BY <1>1, <2>1
  <2>3. r \in rebuilder[o].alongside
    BY <1>1, <2>1 DEF UnderwayOK
  <2>4. rebuilder'[o].doomed \subseteq lots'
    BY <1>1, <2>1, <2>2 DEF UnderwayOK
  <2>5. LotsBy(o)' \subseteq rebuilder'[o].doomed
    BY <1>7, <2>1, <2>2 DEF UnderwayOK
  <2>6. ASSUME NEW lot \in lots' \ rebuilder'[o].doomed PROVE lot.by \in rebuilder'[o].alongside
    <3>1. CASE lot \in new
      BY <1>3, <2>2, <2>3, <3>1
    <3>2. CASE lot \in lots \ gone
      BY <2>1, <2>2, <2>6, <3>2 DEF UnderwayOK
    <3>3. QED
      BY <1>1, <3>1, <3>2
  <2>7. ASSUME NEW x \in Rebuilders
        PROVE  LotsBy(x)' \subseteq rebuilder'[o].doomed \/ LotsBy(x)' \intersect rebuilder'[o].doomed = {}
    <3>1. CASE x = r
      <4>1. \A lot \in rebuilder[o].doomed \ gone : lot \in lots /\ lot.by # r
        BY <1>4, <2>1 DEF UnderwayOK, LotsBy
      <4>2. QED
        BY <1>3, <1>6, <2>2, <3>1, <4>1
    <3>2. CASE x # r
      <4>1. Whole(x, rebuilder[o].doomed)
        BY <2>1 DEF UnderwayOK
      <4>2. QED
        BY <1>8, <2>2, <3>2, <4>1 DEF Whole
    <3>3. QED
      BY <3>1, <3>2
  <2>8. Underway' \ {o} \subseteq rebuilder'[o].alongside
    BY <1>5, <2>1, <2>2 DEF UnderwayOK
  <2>9. QED
    BY <2>4, <2>5, <2>6, <2>7, <2>8 DEF UnderwayOK, Whole
<1>12. ASSUME NEW a \in lots', NEW b \in lots', a.by # b.by PROVE {a.by, b.by} \in overlaps'
  <2>1. \A lot \in lots \ gone : lot.by # r /\ lot.by \in BuildsAfter(r) /\ lot.by \in rebuilder[r].alongside
    BY <1>4 DEF UnderwayOK, LotsBy, BuildsAfter
  <2>2. ASSUME NEW lot \in lots \ gone PROVE {r, lot.by} \in overlaps'
    BY <1>1, <2>1 DEF OverlapsAfter
  <2>3. CASE a \in lots \ gone /\ b \in lots \ gone
    <3>1. {a.by, b.by} \in overlaps
      BY <1>12, <2>3 DEF LotsInv
    <3>2. r \notin {a.by, b.by} /\ {a.by, b.by} \subseteq BuildsAfter(r)
      BY <2>1, <2>3
    <3>3. QED
      BY <1>1, <3>1, <3>2 DEF OverlapsAfter
  <2>4. CASE a \in new /\ b \in lots \ gone
    BY <1>3, <2>2, <2>4
  <2>5. CASE a \in lots \ gone /\ b \in new
    <3>1. {r, a.by} \in overlaps' /\ {a.by, b.by} = {r, a.by}
      BY <1>3, <2>2, <2>5
    <3>2. QED
      BY <3>1
  <2>6. CASE a \in new /\ b \in new
    BY <1>3, <1>12, <2>6
  <2>7. QED
    BY <1>1, <2>3, <2>4, <2>5, <2>6
<1>13. QED
  BY <1>5, <1>9, <1>10, <1>11, <1>12 DEF LotsInv

LEMMA NextLotsInv == LedgerInv /\ LotsInv /\ [Next]_vars => LotsInv'
<1> SUFFICES ASSUME LedgerInv, LotsInv, [Next]_vars PROVE LotsInv'
  OBVIOUS
<1>1. Earlier(ledger, ledger')
  BY LedgerGrows
<1>2. ASSUME UNCHANGED << lots, overlaps, rebuilder >> PROVE LotsInv'
  BY <1>1, <1>2, LotsStand DEF Underway
<1>3. ASSUME NEW r \in Rebuilders, RebuildStep(r) \/ CrashRebuild(r),
             ~ DeleteLots(r), ~ CommitRebuild(r)
      PROVE  LotsInv'
  <2>1. /\ DOMAIN rebuilder = Rebuilders
        /\ \A o \in Rebuilders :
              DOMAIN rebuilder[o] = { "pc", "view", "replayed", "cleared", "doomed", "alongside", "lots", "days", "rows" }
    BY DEF LedgerInv, RebuildOK, IdleRebuilder
  <2>2. /\ UNCHANGED << lots, overlaps >>
        /\ \A o \in Rebuilders \ {r} : rebuilder'[o] = rebuilder[o]
        /\ \/ rebuilder'[r].pc \notin {"deleting", "inserted", "built"}
           \/ /\ rebuilder[r].pc \in {"deleting", "inserted", "built"}
              /\ rebuilder'[r].doomed = rebuilder[r].doomed
              /\ rebuilder'[r].alongside = rebuilder[r].alongside
    <3>1. CASE ReadLedger(r) \/ DeleteClosures(r)
      BY <2>1, <3>1 DEF ReadLedger, DeleteClosures
    <3>2. CASE InsertLots(r)
      BY <2>1, <3>2 DEF InsertLots
    <3>3. CASE BuildSnapshots(r)
      BY <2>1, <3>3 DEF BuildSnapshots
    <3>4. CASE RejectDelete(r) \/ FailBuild(r) \/ CrashRebuild(r)
      BY <2>1, <3>4 DEF RejectDelete, FailBuild, CrashRebuild, IdleRebuilder
    <3>5. QED
      BY <1>3, <3>1, <3>2, <3>3, <3>4 DEF RebuildStep
  <2>3. Underway' \subseteq Underway
    BY <2>2 DEF Underway
  <2>4. \A o \in Underway' : rebuilder'[o].doomed = rebuilder[o].doomed
                             /\ rebuilder'[o].alongside = rebuilder[o].alongside
    BY <2>2 DEF Underway
  <2>5. QED
    BY <1>1, <2>2, <2>3, <2>4, LotsStand
<1>4. ASSUME NEW c \in Importers, Import(c) PROVE UNCHANGED << lots, overlaps, rebuilder >>
  BY <1>4 DEF Import, BeginImport, AppendRows, CommitImport, AbortImport
<1>5. ASSUME NEW i \in Instruments, NEW d \in TradingDays, Price(i, d)
      PROVE  UNCHANGED << lots, overlaps, rebuilder >>
  BY <1>5 DEF Price
<1>6. QED
  BY <1>2, <1>3, <1>4, <1>5, DeleteKeepsLotsInv, CommitKeepsLotsInv DEF Next, vars

-----------------------------------------------------------------------------
\* Whatever is imported while it runs, by however many importers, and whoever
\* else rebuilds, a build of snapshots knows nothing of the future: no day of it
\* holds less than nothing, each holds what was bought less what was sold by then,
\* at a close of that day or before (snapshots.py:40).
THEOREM BuildsKnowNoFuture == Spec => []SnapshotsArePointInTime
<1>1. LedgerInv => SnapshotsArePointInTime
  BY DEF LedgerInv, RebuildOK, PointInTime, SnapshotsArePointInTime
<1>2. QED
  BY <1>1, InitLedgerInv, NextLedgerInv, PTL DEF Spec

\* However rebuilds interleave, wait for one another, are refused and die, and
\* whatever was imported since, the lots that one of them left account for every
\* share of the transactions they were built from (lots.py:101), and the lots of two
\* stand side by side only where both were between the start of their second delete
\* and their commit at once, which nothing in the code rules out.
THEOREM SharesConserved == Spec => []BuildsConserveShares
  BY LotsConserved, InitLedgerInv, NextLedgerInv, InitLotsInv, NextLotsInv, PTL DEF Spec

\* In the lots that one rebuild left, every disposal took from the oldest lots first,
\* back-dated transactions included (lots.py:67).
THEOREM OldestLotsFirst == Spec => []FirstInFirstOut
  BY LotsConserved, InitLedgerInv, NextLedgerInv, InitLotsInv, NextLotsInv, PTL DEF Spec
=============================================================================
