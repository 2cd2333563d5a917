------------------------- MODULE PriceIngestProofs -------------------------
(***************************************************************************)
(* Proofs about PriceIngest, for every horizon, overlap, bound and set of  *)
(* sessions that may be served malformed: types first, then the history.   *)
(***************************************************************************)
EXTENDS PriceIngest, TLAPS, FiniteSetTheorems, WellFoundedInduction

-----------------------------------------------------------------------------
(* Sessions.                                                               *)

\* Finitely many sessions have a latest one.
LEMMA LatestExists ==
    ASSUME NEW n \in Nat, NEW S, S \subseteq 1 .. n, S # {}
    PROVE  \E x \in S : \A y \in S : y <= x
<1> DEFINE T == { n - x : x \in S }
<1>1. \A x \in S : n - x \in Nat
  OBVIOUS
<1>2. T \subseteq Nat
  BY <1>1
<1>3. T # {}
  BY Zenon
<1>4. PICK t \in T : \A y \in T : ~ (<< y, t >> \in OpToRel(<, Nat))
  BY <1>2, <1>3, NatLessThanWellFounded, WFMin
<1>5. \A y \in T : ~ (y < t)
  BY <1>2, <1>4 DEF OpToRel
<1>6. PICK x \in S : t = n - x
  OBVIOUS
<1>7. \A y \in S : y <= x
  BY <1>5, <1>6
<1>8. QED
  BY <1>7

\* The overlap is a positive number of sessions.
LEMMA OverlapIsPositive == Overlap \in Nat /\ Overlap >= 3
<1>1. Sessions \in SUBSET Int /\ IsFiniteSet(1 .. Horizon)
  BY BoundAssumption, FS_Interval DEF Sessions
<1>2. IsFiniteSet(Spoilable)
  BY <1>1, SpoilAssumption, FS_Subset
<1>3. Cardinality(Spoilable) \in Nat
  BY <1>2, FS_CardinalityType
<1>4. QED
  BY <1>3, OverlapAssumption

\* The cursor is the last stored session.
LEMMA CursorIsLatest ==
    ASSUME NEW s, IsStore(s), last \in Sessions, HasRows(s)
    PROVE  /\ Cursor(s) \in DOMAIN s.rows
           /\ Cursor(s) \in 1 .. last
           /\ \A d \in DOMAIN s.rows : d <= Cursor(s)
<1>1. last \in Nat /\ DOMAIN s.rows \subseteq 1 .. last /\ DOMAIN s.rows # {}
  BY BoundAssumption DEF IsStore, HasRows, Sessions
<1>2. \E x \in DOMAIN s.rows : \A y \in DOMAIN s.rows : y <= x
  BY <1>1, LatestExists
<1>3. \E x \in DOMAIN s.rows : \A y \in DOMAIN s.rows : x >= y
  BY <1>1, <1>2
<1>4. Cursor(s) \in DOMAIN s.rows /\ \A y \in DOMAIN s.rows : Cursor(s) >= y
  BY <1>3, Zenon DEF Cursor, Max
<1>5. QED
  BY <1>1, <1>4

\* A pass fetches sessions that are over, and none before the first.
LEMMA FrameOfSessions ==
    ASSUME NEW s, NEW full, IsStore(s), last \in Sessions
    PROVE  /\ Start(s, full) \in 1 .. last
           /\ Frame(s, full) \subseteq 1 .. last
<1>1. last \in Nat /\ last >= 1
  BY BoundAssumption DEF Sessions
<1>2. Start(s, full) \in 1 .. last
  <2>1. CASE full \/ ~HasRows(s) \/ Cursor(s) < Overlap
    BY <1>1, <2>1 DEF Start
  <2>2. CASE ~(full \/ ~HasRows(s) \/ Cursor(s) < Overlap)
    <3>1. Cursor(s) \in 1 .. last
      BY <2>2, CursorIsLatest
    <3>2. Overlap \in Nat /\ Overlap >= 1
      BY OverlapIsPositive
    <3>3. QED
      BY <1>1, <2>2, <3>1, <3>2 DEF Start
  <2>3. QED
    BY <2>1, <2>2
<1>3. QED
  BY <1>1, <1>2 DEF Frame
-----------------------------------------------------------------------------
(* Types.                                                                  *)

\* The bounds count events, of which the first session has seen the most.
CountsOK ==
    \A d \in 1 .. last :
        /\ series[d].units <= series[1].units
        /\ series[d].divs <= series[1].divs
        /\ series[d].fix <= corrected

TypeInv == TypeOK /\ CountsOK

\* Counting one more event leaves the other counts of a bar alone.
LEMMA BarFields ==
    ASSUME NEW b \in Bar
    PROVE  /\ b.units \in 0 .. MaxSplits /\ b.divs \in 0 .. MaxDividends
           /\ b.fix \in 0 .. MaxCorrections
           /\ b.units \in Nat /\ b.divs \in Nat /\ b.fix \in Nat
BY BoundAssumption DEF Bar

LEMMA BarSteps ==
    ASSUME NEW b \in Bar
    PROVE  /\ LET c == [ b EXCEPT !.units = @ + 1 ]
              IN  /\ c.units = b.units + 1 /\ c.divs = b.divs /\ c.fix = b.fix
                  /\ b.units < MaxSplits => c \in Bar
           /\ LET c == [ b EXCEPT !.divs = @ + 1 ]
              IN  /\ c.units = b.units /\ c.divs = b.divs + 1 /\ c.fix = b.fix
                  /\ b.divs < MaxDividends => c \in Bar
           /\ LET c == [ b EXCEPT !.fix = @ + 1 ]
              IN  /\ c.units = b.units /\ c.divs = b.divs /\ c.fix = b.fix + 1
                  /\ b.fix < MaxCorrections => c \in Bar
<1>1. /\ b.units < MaxSplits => b.units + 1 \in 0 .. MaxSplits
      /\ b.divs < MaxDividends => b.divs + 1 \in 0 .. MaxDividends
      /\ b.fix < MaxCorrections => b.fix + 1 \in 0 .. MaxCorrections
  BY BarFields, BoundAssumption
<1>2. QED
  BY <1>1 DEF Bar

\* A pass turns a store into a store.
LEMMA PassKeepsStore ==
    ASSUME TypeOK, NEW s, NEW full, IsStore(s)
    PROVE  IsStore(After(s, full))
<1> DEFINE A == After(s, full)
<1>1. /\ Valid(s, full) \subseteq 1 .. last
      /\ FetchedSplits(s, full) \subseteq announced
  BY FrameOfSessions DEF Valid, FetchedSplits, TypeOK
<1>2. /\ A.rows = [ d \in DOMAIN s.rows \union Valid(s, full) |->
                      IF d \in Valid(s, full) THEN series[d] ELSE s.rows[d] ]
      /\ A.splits = s.splits \union FetchedSplits(s, full)
      /\ A = [ rows |-> A.rows, splits |-> A.splits ]
  BY DEF After
<1>3. DOMAIN A.rows = DOMAIN s.rows \union Valid(s, full)
  BY <1>2
<1>4. \A d \in Valid(s, full) : series[d] \in Bar
  BY <1>1 DEF TypeOK
<1>5. \A d \in DOMAIN s.rows : s.rows[d] \in Bar
  BY DEF IsStore
<1>6. A.rows \in [ DOMAIN A.rows -> Bar ]
  BY <1>2, <1>3, <1>4, <1>5
<1>7. QED
  BY <1>1, <1>2, <1>3, <1>6 DEF IsStore

\* The stores stay stores while sessions and announcements are added.
LEMMA StoresStay ==
    ASSUME IsStore(db), IsStore(work), UNCHANGED << db, work >>,
           last \in Nat, last' \in Nat, last <= last', announced \subseteq announced'
    PROVE  IsStore(db)' /\ IsStore(work)'
<1>1. 1 .. last \subseteq 1 .. last'
  OBVIOUS
<1>2. QED
  BY <1>1 DEF IsStore

LEMMA InitTypes == Init => TypeInv
<1> SUFFICES ASSUME Init PROVE TypeInv
  OBVIOUS
<1>1. last \in Sessions /\ last = 1
  BY BoundAssumption DEF Init, Sessions
<1>2. NewBar \in Bar /\ NewBar.units = 0 /\ NewBar.divs = 0 /\ NewBar.fix = 0
  BY BoundAssumption DEF NewBar, Bar
<1>3. series \in [ 1 .. last -> Bar ]
  BY <1>1, <1>2 DEF Init
<1>4. IsStore(db) /\ IsStore(work)
  BY <1>1, <1>2 DEF Init, IsStore
<1>5. corrected = 0 /\ corrected \in 0 .. MaxCorrections
  BY BoundAssumption DEF Init
<1>6. TypeOK
  BY <1>1, <1>3, <1>4, <1>5 DEF Init, TypeOK, Outcome, NoOutcome
<1>7. CountsOK
  BY <1>1, <1>2, <1>5 DEF Init, CountsOK
<1>8. QED
  BY <1>6, <1>7 DEF TypeInv


\* What a provider step that restates or corrects history must show.
LEMMA HistoryStepTypes ==
    ASSUME TypeInv,
           UNCHANGED << last, announced, db, work, phase, outcome >>,
           pending' \in BOOLEAN, spoiled' \subseteq Spoilable,
           corrected' \in 0 .. MaxCorrections,
           series' \in [ 1 .. last -> Bar ],
           \A d \in 1 .. last :
               /\ series'[d].units <= series'[1].units
               /\ series'[d].divs <= series'[1].divs
               /\ series'[d].fix <= corrected'
    PROVE  TypeInv'
<1>1. last \in Nat
  BY BoundAssumption DEF TypeInv, TypeOK, Sessions
<1>2. IsStore(db)' /\ IsStore(work)'
  BY <1>1, StoresStay DEF TypeInv, TypeOK
<1>3. TypeOK'
  BY <1>2 DEF TypeInv, TypeOK
<1>4. CountsOK'
  BY DEF CountsOK
<1>5. QED
  BY <1>3, <1>4 DEF TypeInv

\* What a step of the service must show.
LEMMA ServiceStepTypes ==
    ASSUME TypeInv, UNCHANGED provider,
           db' \in {db, work}, IsStore(work'),
           phase' \in {"idle", "refresh", "done"}, outcome' \in Outcome
    PROVE  TypeInv'
<1>1. IsStore(db)' /\ IsStore(work)'
  BY DEF TypeInv, TypeOK, IsStore, provider
<1>2. TypeOK'
  BY <1>1 DEF TypeInv, TypeOK, provider, Outcome
<1>3. CountsOK'
  BY DEF TypeInv, CountsOK, provider
<1>4. QED
  BY <1>2, <1>3 DEF TypeInv

LEMMA SessionTypes == TypeInv /\ NewSession => TypeInv'
<1> SUFFICES ASSUME TypeInv, NewSession PROVE TypeInv'
  OBVIOUS
<1>1. /\ last \in Nat /\ 1 <= last /\ last + 1 \in Sessions
      /\ last' = last + 1 /\ 1 .. last \subseteq 1 .. last'
  BY BoundAssumption DEF TypeInv, TypeOK, Sessions, NewSession
<1>2. NewBar \in Bar /\ NewBar.units = 0 /\ NewBar.divs = 0 /\ NewBar.fix = 0
  BY BoundAssumption DEF NewBar, Bar
<1>3. /\ \A d \in 1 .. last : series'[d] = series[d] /\ series[d] \in Bar
      /\ series'[last'] = NewBar
      /\ series' \in [ 1 .. last' -> Bar ]
  <2>1. series' = [ d \in 1 .. last' |-> IF d <= last THEN series[d] ELSE NewBar ]
    BY <1>1 DEF NewSession
  <2>2. \A d \in 1 .. last : series[d] \in Bar
    BY DEF TypeInv, TypeOK
  <2>3. \A d \in 1 .. last' : d <= last => d \in 1 .. last
    BY <1>1
  <2>4. \A d \in 1 .. last : d \in 1 .. last' /\ d <= last
    BY <1>1
  <2>5. last' \in 1 .. last' /\ ~(last' <= last)
    BY <1>1
  <2>6. QED
    BY <1>2, <2>1, <2>2, <2>3, <2>4, <2>5
<1>4. announced \subseteq announced' /\ announced' \subseteq 1 .. last'
  BY <1>1 DEF NewSession, TypeInv, TypeOK
<1>5. IsStore(db)' /\ IsStore(work)'
  BY <1>1, <1>4, StoresStay DEF TypeInv, TypeOK, NewSession
<1>6. TypeOK'
  BY <1>1, <1>3, <1>4, <1>5 DEF TypeInv, TypeOK, NewSession
<1>7. CountsOK'
  <2>1. corrected' = corrected /\ corrected \in Nat
    BY BoundAssumption DEF NewSession, TypeInv, TypeOK
  <2>2. 1 \in 1 .. last /\ series[1].units \in Nat /\ series[1].divs \in Nat
    BY <1>1, <1>3, BoundAssumption DEF Bar
  <2>3. \A d \in 1 .. last' : d \in 1 .. last \/ d = last'
    BY <1>1
  <2>4. ASSUME NEW d \in 1 .. last'
        PROVE  /\ series'[d].units <= series'[1].units
               /\ series'[d].divs <= series'[1].divs
               /\ series'[d].fix <= corrected'
    <3>1. CASE d \in 1 .. last
      BY <1>3, <2>1, <2>2, <3>1 DEF TypeInv, CountsOK
    <3>2. CASE d = last'
      BY <1>2, <1>3, <2>1, <2>2, <3>2
    <3>3. QED
      BY <2>3, <3>1, <3>2
  <2>5. QED
    BY <2>4 DEF CountsOK
<1>8. QED
  BY <1>6, <1>7 DEF TypeInv


LEMMA DividendTypes == TypeInv /\ Dividend => TypeInv'
<1> SUFFICES ASSUME TypeInv, Dividend PROVE TypeInv'
  OBVIOUS
<1>1. last \in Nat /\ 1 \in 1 .. last /\ MaxDividends \in Nat
  BY BoundAssumption DEF TypeInv, TypeOK, Sessions
<1>2. \A d \in 1 .. last :
         /\ series[d] \in Bar
         /\ series[d].divs <= series[1].divs
         /\ series[d].units <= series[1].units
         /\ series[d].divs <= series[1].divs
         /\ series[d].fix <= corrected
  BY DEF TypeInv, TypeOK, CountsOK
<1>3. series[1].divs < MaxDividends /\ series[1].divs \in Nat
  BY <1>1, <1>2, BarFields DEF Dividend
<1>4. \A d \in 1 .. last : series'[d] = [ series[d] EXCEPT !.divs = @ + 1 ]
  BY DEF Dividend
<1>5. \A d \in 1 .. last :
         /\ series'[d] \in Bar
         /\ series'[d].units = series[d].units
         /\ series'[d].divs = series[d].divs + 1
         /\ series'[d].fix = series[d].fix
  <2> TAKE d \in 1 .. last
  <2>1. series[d] \in Bar /\ series[d].divs \in Nat /\ series[d].divs < MaxDividends
    BY <1>1, <1>2, <1>3, BarFields
  <2>2. QED
    BY <1>4, <2>1, BarSteps
<1>6. series' \in [ 1 .. last -> Bar ]
  BY <1>5 DEF Dividend
<1>7. \A d \in 1 .. last :
         /\ series'[d].units <= series'[1].units
         /\ series'[d].divs <= series'[1].divs
         /\ series'[d].fix <= corrected'
  <2> TAKE d \in 1 .. last
  <2>1. series[d].divs \in Nat
    BY <1>2, BarFields
  <2>2. corrected' = corrected
    BY DEF Dividend
  <2>3. QED
    BY <1>1, <1>2, <1>3, <1>5, <2>1, <2>2
<1>8. QED
  BY <1>6, <1>7, HistoryStepTypes DEF Dividend, TypeInv, TypeOK

LEMMA SplitTypes == TypeInv /\ Split => TypeInv'
<1> SUFFICES ASSUME TypeInv, Split PROVE TypeInv'
  OBVIOUS
<1>1. last \in Nat /\ 1 \in 1 .. last /\ MaxSplits \in Nat
  BY BoundAssumption DEF TypeInv, TypeOK, Sessions
<1>2. \A d \in 1 .. last :
         /\ series[d] \in Bar
         /\ series[d].units <= series[1].units
         /\ series[d].units <= series[1].units
         /\ series[d].divs <= series[1].divs
         /\ series[d].fix <= corrected
  BY DEF TypeInv, TypeOK, CountsOK
<1>3. series[1].units < MaxSplits /\ series[1].units \in Nat
  BY <1>1, <1>2, BarFields DEF Split
<1>4. \A d \in 1 .. last : series'[d] = [ series[d] EXCEPT !.units = @ + 1 ]
  BY DEF Split
<1>5. \A d \in 1 .. last :
         /\ series'[d] \in Bar
         /\ series'[d].units = series[d].units + 1
         /\ series'[d].divs = series[d].divs
         /\ series'[d].fix = series[d].fix
  <2> TAKE d \in 1 .. last
  <2>1. series[d] \in Bar /\ series[d].units \in Nat /\ series[d].units < MaxSplits
    BY <1>1, <1>2, <1>3, BarFields
  <2>2. QED
    BY <1>4, <2>1, BarSteps
<1>6. series' \in [ 1 .. last -> Bar ]
  BY <1>5 DEF Split
<1>7. \A d \in 1 .. last :
         /\ series'[d].units <= series'[1].units
         /\ series'[d].divs <= series'[1].divs
         /\ series'[d].fix <= corrected'
  <2> TAKE d \in 1 .. last
  <2>1. series[d].units \in Nat
    BY <1>2, BarFields
  <2>2. corrected' = corrected
    BY DEF Split
  <2>3. QED
    BY <1>1, <1>2, <1>3, <1>5, <2>1, <2>2
<1>8. QED
  BY <1>6, <1>7, HistoryStepTypes DEF Split, TypeInv, TypeOK

LEMMA CorrectTypes ==
    ASSUME TypeInv, NEW c \in 1 .. last, Correct(c)
    PROVE  TypeInv'
<1>1. last \in Nat /\ 1 \in 1 .. last
  BY BoundAssumption DEF TypeInv, TypeOK, Sessions
<1>2. corrected \in Nat /\ corrected' = corrected + 1 /\ corrected' \in 0 .. MaxCorrections
  BY BoundAssumption DEF Correct, TypeInv, TypeOK
<1>3. \A d \in 1 .. last :
         /\ series[d] \in Bar
         /\ series'[d] = IF d = c THEN [ series[c] EXCEPT !.fix = @ + 1 ] ELSE series[d]
         /\ series[d].fix <= corrected
  BY DEF Correct, TypeInv, TypeOK, CountsOK
<1>4. \A d \in 1 .. last :
         /\ series'[d] \in Bar
         /\ series'[d].units = series[d].units
         /\ series'[d].divs = series[d].divs
         /\ series'[d].fix <= corrected'
  BY <1>2, <1>3, BoundAssumption DEF Bar
<1>5. series' \in [ 1 .. last -> Bar ]
  BY <1>4 DEF Correct, TypeInv, TypeOK
<1>6. \A d \in 1 .. last :
         /\ series'[d].units <= series'[1].units
         /\ series'[d].divs <= series'[1].divs
         /\ series'[d].fix <= corrected'
  BY <1>1, <1>4 DEF TypeInv, CountsOK
<1>7. QED
  BY <1>2, <1>5, <1>6, HistoryStepTypes DEF Correct, TypeInv, TypeOK

LEMMA SpoilTypes ==
    ASSUME TypeInv, NEW d \in 1 .. last, Spoil(d) \/ Mend(d)
    PROVE  TypeInv'
<1>1. /\ UNCHANGED << last, announced, pending, series, corrected, db, work, phase, outcome >>
      /\ spoiled' \subseteq Spoilable
  BY DEF Spoil, Mend, TypeInv, TypeOK
<1>2. QED
  BY <1>1, HistoryStepTypes DEF TypeInv, TypeOK, CountsOK

LEMMA ServiceTypes == TypeInv /\ Service => TypeInv'
<1> SUFFICES ASSUME TypeInv, Service PROVE TypeInv'
  OBVIOUS
<1> USE DEF provider
<1>1. /\ \A full : IsStore(After(db, full)) /\ IsStore(After(work, full))
      /\ IsStore(db) /\ IsStore(work)
  BY PassKeepsStore DEF TypeInv, TypeOK
<1>2. \A w : UNCHANGED << last, announced >> /\ work' = w /\ IsStore(w) => IsStore(work')
  BY DEF IsStore
<1>3. \A st \in {"none", "ok", "failed"}, f \in BOOLEAN :
         [ status |-> st, fullRefresh |-> f ] \in Outcome
  BY DEF Outcome
<1>4. NoOutcome \in Outcome /\ [ NoOutcome EXCEPT !.status = "failed" ] \in Outcome
  BY DEF NoOutcome, Outcome
<1>5. [ outcome EXCEPT !.fullRefresh = TRUE ] \in Outcome
  BY DEF TypeInv, TypeOK, Outcome
<1>6. CASE Ingest
  <2>1. work' = db \/ work' = After(db, FALSE)
    BY <1>6 DEF Ingest
  <2>2. IsStore(work')
    BY <1>1, <1>2, <1>6, <2>1 DEF Ingest
  <2>3. QED
    BY <1>3, <1>4, <1>6, <2>2, ServiceStepTypes DEF Ingest
<1>7. CASE IngestFull
  BY <1>1, <1>2, <1>3, <1>7, ServiceStepTypes DEF IngestFull
<1>8. CASE Refresh
  BY <1>1, <1>2, <1>5, <1>8, ServiceStepTypes DEF Refresh
<1>9. CASE RefreshFails
  BY <1>1, <1>2, <1>4, <1>9, ServiceStepTypes DEF RefreshFails
<1>10. CASE Commit
  BY <1>1, <1>2, <1>4, <1>10, ServiceStepTypes DEF Commit
<1>11. CASE RollBack
  BY <1>1, <1>2, <1>4, <1>11, ServiceStepTypes DEF RollBack
<1>12. QED
  BY <1>6, <1>7, <1>8, <1>9, <1>10, <1>11 DEF Service

LEMMA TypeStep == TypeInv /\ [Next]_vars => TypeInv'
<1> SUFFICES ASSUME TypeInv, [Next]_vars PROVE TypeInv'
  OBVIOUS
<1>1. CASE Provider
  BY <1>1, SessionTypes, DividendTypes, SplitTypes, CorrectTypes, SpoilTypes DEF Provider
<1>2. CASE Service
  BY <1>2, ServiceTypes
<1>3. CASE UNCHANGED vars
  BY <1>3 DEF vars, TypeInv, TypeOK, CountsOK, IsStore
<1>4. QED
  BY <1>1, <1>2, <1>3 DEF Next

\* Every variable keeps its type: whatever a pass quarantines, refuses or
\* escalates, the stored rows are bars of sessions that are over, and only
\* announced splits are recorded.
THEOREM TypeCorrect == Spec => []TypeOK
<1>1. Spec => []TypeInv
  BY InitTypes, TypeStep, PTL DEF Spec
<1>2. TypeInv => TypeOK
  BY DEF TypeInv
<1>3. QED
  BY <1>1, <1>2, PTL

-----------------------------------------------------------------------------
(***************************************************************************)
(* The stored history is on one basis, has no holes, and no recorded split *)
(* is unapplied: the safety properties of PriceIngest, proved for every    *)
(* horizon, overlap, bound and set of sessions that may be malformed.      *)
(*                                                                         *)
(* The argument is a counting one.  If the stored rows are behind the      *)
(* provider they are all behind by the same amount, so every well-formed   *)
(* row of the overlap has moved.  Moved by a split: more than half of the  *)
(* compared rows shifted, and the guard refuses.  Moved by a dividend: if  *)
(* corrections hide at most half of them, one is left to trip the wire.    *)
(***************************************************************************)

(* What is true of a store, for a provider that serves `ser`, announces    *)
(* `ann` and (p) has already restated history for one split more.          *)

UnitLag(s, ser, d) == ser[d].units - s.rows[d].units
DivLag(s, ser, d) == ser[d].divs - s.rows[d].divs

\* Splits that history may be behind by.
Unrecorded(s, ann, p) == Cardinality(ann \ s.splits) + (IF p THEN 1 ELSE 0)

\* Stored up to a row, or up to a recorded split, means stored without holes.
Covered(s) ==
    \A d \in DOMAIN s.rows \union s.splits :
        1 .. d \subseteq DOMAIN s.rows \union Spoilable

Applied(s, ser, ann, p) ==
    \A d \in Sound(s) :
        0 <= UnitLag(s, ser, d) /\ UnitLag(s, ser, d) <= Unrecorded(s, ann, p)

\* The instruments OneBasis speaks of.
Tame(ser) == SplitsJump => ser[1].units <= 1 /\ Spoilable = {}

Uniform(s, ser) ==
    \A d, e \in Sound(s) :
        UnitLag(s, ser, d) = UnitLag(s, ser, e) /\ DivLag(s, ser, d) = DivLag(s, ser, e)

StoreInv(s, ser, ann, p) ==
    /\ Covered(s)
    /\ Applied(s, ser, ann, p)
    /\ Tame(ser) => Uniform(s, ser)

\* Every split restated the first session once.
SplitsCounted ==
    Cardinality(announced) + (IF pending THEN 1 ELSE 0) = series[1].units

BasisInv ==
    /\ TypeInv
    /\ StoreInv(db, series, announced, pending)
    /\ phase = "done" => StoreInv(work, series, announced, pending)
    /\ SplitsCounted

-----------------------------------------------------------------------------
(* Cardinalities.                                                          *)

\* A part of the sessions is finite.
LEMMA FinitePart ==
    ASSUME NEW n \in Int, NEW S, S \subseteq 1 .. n
    PROVE  IsFiniteSet(S) /\ Cardinality(S) \in Nat
<1>1. IsFiniteSet(1 .. n)
  BY FS_Interval
<1>2. IsFiniteSet(S)
  BY <1>1, FS_Subset
<1>3. QED
  BY <1>2, FS_CardinalityType

\* The sessions that may be malformed are few, against the overlap.
LEMMA OverlapOutnumbers ==
    /\ IsFiniteSet(Spoilable) /\ Cardinality(Spoilable) \in Nat
    /\ Overlap \in Nat /\ MinRows \in Nat /\ 3 <= MinRows
    /\ MinRows + 2 * Cardinality(Spoilable) <= Overlap
<1>1. Horizon \in Int
  BY BoundAssumption
<1>2. QED
  BY <1>1, FinitePart, SpoilAssumption, OverlapAssumption

-----------------------------------------------------------------------------
(* The provider.                                                           *)

\* From ser to ser2, the whole history was restated u splits and v dividends.
Restates(n, ser, ser2, u, v) ==
    \A d \in 1 .. n :
        /\ ser[d] \in Bar /\ ser2[d] \in Bar
        /\ ser2[d].units = ser[d].units + u
        /\ ser2[d].divs = ser[d].divs + v

\* The rows of a store are bars of the first n sessions.
RowsUpTo(s, n) ==
    DOMAIN s.rows \subseteq 1 .. n /\ \A d \in DOMAIN s.rows : s.rows[d] \in Bar

\* Restating the whole history keeps the invariant, if a restatement for a
\* split counts as one split more that is not recorded.
LEMMA RestatedStore ==
    ASSUME NEW s, NEW n \in Nat, n >= 1, RowsUpTo(s, n),
           NEW ser, NEW ser2, NEW ann, NEW ann2, NEW p, NEW p2,
           NEW u \in Nat, NEW v \in Nat, Restates(n, ser, ser2, u, v),
           Unrecorded(s, ann, p) \in Int,
           Unrecorded(s, ann2, p2) = Unrecorded(s, ann, p) + u,
           StoreInv(s, ser, ann, p)
    PROVE  StoreInv(s, ser2, ann2, p2)
<1>1. /\ \A d \in 1 .. n : /\ ser[d].units \in Nat /\ ser[d].divs \in Nat
                           /\ ser2[d].units \in Nat /\ ser2[d].divs \in Nat
      /\ \A d \in DOMAIN s.rows : s.rows[d].units \in Nat /\ s.rows[d].divs \in Nat
  BY BarFields DEF Restates, RowsUpTo
<1>2. \A d \in Sound(s) : d \in DOMAIN s.rows /\ d \in 1 .. n
  BY DEF Sound, RowsUpTo
<1>3. \A d \in Sound(s) :
         /\ UnitLag(s, ser, d) \in Int /\ DivLag(s, ser, d) \in Int
         /\ UnitLag(s, ser2, d) = UnitLag(s, ser, d) + u
         /\ DivLag(s, ser2, d) = DivLag(s, ser, d) + v
  BY <1>1, <1>2 DEF UnitLag, DivLag, Restates
<1>4. Applied(s, ser2, ann2, p2)
  BY <1>3 DEF StoreInv, Applied
<1>5. Tame(ser2) => Tame(ser)
  BY <1>1 DEF Tame, Restates
<1>6. Uniform(s, ser) => Uniform(s, ser2)
  BY <1>3 DEF Uniform
<1>7. QED
  BY <1>4, <1>5, <1>6 DEF StoreInv

\* Splits are counted in whole numbers.
LEMMA UnrecordedType ==
    ASSUME NEW n \in Int, NEW ann, ann \subseteq 1 .. n, NEW s, NEW p
    PROVE  /\ Unrecorded(s, ann, p) \in Nat
           /\ IsFiniteSet(ann \ s.splits) /\ Cardinality(ann \ s.splits) \in Nat
<1>1. ann \ s.splits \subseteq 1 .. n
  OBVIOUS
<1>2. IsFiniteSet(ann \ s.splits) /\ Cardinality(ann \ s.splits) \in Nat
  BY <1>1, FinitePart
<1>3. QED
  BY <1>2 DEF Unrecorded

\* A step of the provider keeps the invariant of any store.
LEMMA ProviderKeepsStore ==
    ASSUME TypeInv, TypeInv', Provider, SplitsCounted,
           NEW s, IsStore(s), StoreInv(s, series, announced, pending)
    PROVE  StoreInv(s, series', announced', pending')
<1>1. /\ last \in Nat /\ last >= 1
      /\ announced \subseteq 1 .. last /\ pending \in BOOLEAN
      /\ \A d \in 1 .. last : series[d] \in Bar
      /\ last' \in Nat /\ \A d \in 1 .. last' : series'[d] \in Bar
  BY BoundAssumption DEF TypeInv, TypeOK, Sessions
<1>2. RowsUpTo(s, last) /\ s.splits \subseteq announced
  BY DEF IsStore, RowsUpTo
<1>3. /\ Unrecorded(s, announced, pending) \in Nat
      /\ IsFiniteSet(announced \ s.splits) /\ Cardinality(announced \ s.splits) \in Nat
  <2>1. last \in Int /\ announced \subseteq 1 .. last
    BY <1>1
  <2>2. QED
    BY <2>1, UnrecordedType
<1> DEFINE Moves(u, v) ==
             /\ last <= last'
             /\ \A d \in 1 .. last :
                   /\ series'[d].units = series[d].units + u
                   /\ series'[d].divs = series[d].divs + v
             /\ Unrecorded(s, announced', pending')
                   = Unrecorded(s, announced, pending) + u
<1>4. ASSUME NEW u \in Nat, NEW v \in Nat, Moves(u, v)
      PROVE  StoreInv(s, series', announced', pending')
  <2>1. \A d \in 1 .. last : d \in 1 .. last'
    BY <1>1, <1>4
  <2>2. Restates(last, series, series', u, v)
    BY <1>1, <1>4, <2>1 DEF Restates
  <2>3. Unrecorded(s, announced, pending) \in Int
    BY <1>3
  <2>4. last \in Nat /\ last >= 1
    BY <1>1
  <2>5. QED
    BY <1>2, <1>4, <2>2, <2>3, <2>4, RestatedStore
<1>5. \A d \in 1 .. last : series[d].units \in Nat /\ series[d].divs \in Nat
  BY <1>1, BarFields
<1>6. CASE NewSession
  <2>1. /\ last' = last + 1
        /\ \A d \in 1 .. last : d \in 1 .. last + 1 /\ d <= last
    BY <1>1, <1>6 DEF NewSession
  <2>2. \A d \in 1 .. last : series'[d] = series[d]
    BY <1>6, <2>1 DEF NewSession
  <2>3. Unrecorded(s, announced', pending') = Unrecorded(s, announced, pending)
    <3>1. CASE pending
      <4>1. last + 1 \notin announced /\ last + 1 \notin s.splits
        BY <1>1, <1>2
      <4>2. announced' \ s.splits = (announced \ s.splits) \union {last + 1}
        BY <1>6, <3>1, <4>1 DEF NewSession
      <4>3. Cardinality(announced' \ s.splits) = Cardinality(announced \ s.splits) + 1
        BY <1>3, <4>1, <4>2, FS_AddElement
      <4>4. ~pending'
        BY <1>6 DEF NewSession
      <4>5. QED
        BY <1>3, <3>1, <4>3, <4>4 DEF Unrecorded
    <3>2. CASE ~pending
      BY <1>6, <3>2 DEF NewSession, Unrecorded
    <3>3. QED
      BY <3>1, <3>2
  <2>4. Moves(0, 0)
    BY <1>1, <1>3, <1>5, <2>1, <2>2, <2>3
  <2>5. QED
    BY <1>4, <2>4
<1>7. CASE Dividend
  <2>1. last' = last /\ announced' = announced /\ pending' = pending
    BY <1>7 DEF Dividend
  <2>2. \A d \in 1 .. last : series'[d].units = series[d].units /\ series'[d].divs = series[d].divs + 1
    BY <1>1, <1>7, BarSteps DEF Dividend
  <2>3. Moves(0, 1)
    BY <1>1, <1>3, <1>5, <2>1, <2>2
  <2>4. QED
    BY <1>4, <2>3
<1>8. CASE Split
  <2>1. last' = last /\ announced' = announced
    BY <1>8 DEF Split
  <2>2. \A d \in 1 .. last : series'[d].units = series[d].units + 1 /\ series'[d].divs = series[d].divs
    BY <1>1, <1>8, BarSteps DEF Split
  <2>3. Unrecorded(s, announced', pending') = Unrecorded(s, announced, pending) + 1
    BY <1>3, <1>8, <2>1 DEF Split, Unrecorded
  <2>4. Moves(1, 0)
    BY <1>1, <1>3, <1>5, <2>1, <2>2, <2>3
  <2>5. QED
    BY <1>4, <2>4
<1>9. ASSUME NEW c \in 1 .. last, Correct(c) \/ Spoil(c) \/ Mend(c)
      PROVE  StoreInv(s, series', announced', pending')
  <2>1. last' = last /\ announced' = announced /\ pending' = pending
    BY <1>9 DEF Correct, Spoil, Mend
  <2>2. \A d \in 1 .. last : series'[d].units = series[d].units /\ series'[d].divs = series[d].divs
    <3>1. CASE Correct(c)
      <4>1. \A d \in 1 .. last : series'[d] = IF d = c THEN [ series[c] EXCEPT !.fix = @ + 1 ] ELSE series[d]
        BY <3>1 DEF Correct, TypeInv, TypeOK
      <4>2. QED
        BY <1>1, <4>1 DEF Bar
    <3>2. CASE Spoil(c) \/ Mend(c)
      BY <3>2 DEF Spoil, Mend
    <3>3. QED
      BY <1>9, <3>1, <3>2
  <2>3. Moves(0, 0)
    BY <1>1, <1>3, <1>5, <2>1, <2>2
  <2>4. QED
    BY <1>4, <2>3
<1>10. QED
  BY <1>6, <1>7, <1>8, <1>9 DEF Provider

\* A step of the provider keeps the count of splits.
LEMMA ProviderCountsSplits ==
    ASSUME TypeInv, Provider, SplitsCounted
    PROVE  SplitsCounted'
<1>1. /\ last \in Nat /\ last >= 1 /\ 1 \in 1 .. last /\ 1 \in 1 .. last + 1 /\ 1 <= last
      /\ announced \subseteq 1 .. last /\ pending \in BOOLEAN
      /\ \A d \in 1 .. last : series[d] \in Bar
  BY BoundAssumption DEF TypeInv, TypeOK, Sessions
<1>2. IsFiniteSet(announced) /\ Cardinality(announced) \in Nat
  <2>1. last \in Int /\ announced \subseteq 1 .. last
    BY <1>1
  <2>2. QED
    BY <2>1, FinitePart
<1>3. series[1].units \in Nat
  BY <1>1, BarFields
<1>4. CASE NewSession
  <2>1. series'[1] = series[1] /\ ~pending'
    BY <1>1, <1>4 DEF NewSession
  <2>2. CASE pending
    <3>1. last + 1 \notin announced /\ announced' = announced \union {last + 1}
      BY <1>1, <1>4, <2>2 DEF NewSession
    <3>2. Cardinality(announced') = Cardinality(announced) + 1
      BY <1>2, <3>1, FS_AddElement
    <3>3. QED
      BY <1>2, <2>1, <2>2, <3>2 DEF SplitsCounted
  <2>3. CASE ~pending
    BY <1>4, <2>1, <2>3 DEF NewSession, SplitsCounted
  <2>4. QED
    BY <2>2, <2>3
<1>5. CASE Dividend
  BY <1>1, <1>5, BarSteps DEF Dividend, SplitsCounted
<1>6. CASE Split
  <2>1. series'[1].units = series[1].units + 1 /\ announced' = announced /\ pending' /\ ~pending
    BY <1>1, <1>6, BarSteps DEF Split
  <2>2. QED
    BY <1>2, <1>3, <2>1 DEF SplitsCounted
<1>7. ASSUME NEW c \in 1 .. last, Correct(c) \/ Spoil(c) \/ Mend(c)
      PROVE  SplitsCounted'
  <2>1. CASE Correct(c)
    <3>1. series'[1] = IF 1 = c THEN [ series[c] EXCEPT !.fix = @ + 1 ] ELSE series[1]
      BY <1>1, <2>1 DEF Correct, TypeInv, TypeOK
    <3>2. series'[1].units = series[1].units
      BY <1>1, <3>1, BarSteps
    <3>3. QED
      BY <2>1, <3>2 DEF Correct, SplitsCounted
  <2>2. CASE Spoil(c) \/ Mend(c)
    BY <2>2 DEF Spoil, Mend, SplitsCounted
  <2>3. QED
    BY <1>7, <2>1, <2>2
<1>8. QED
  BY <1>4, <1>5, <1>6, <1>7 DEF Provider


-----------------------------------------------------------------------------
(* A pass over the whole history.                                          *)

\* What a pass leaves in the store, and what it does not touch.
LEMMA AfterPass ==
    ASSUME TypeInv, NEW s, NEW full, IsStore(s)
    PROVE  LET A == After(s, full)
           IN  /\ DOMAIN A.rows = DOMAIN s.rows \union Valid(s, full)
               /\ \A d \in Valid(s, full) : A.rows[d] = series[d]
               /\ \A d \in DOMAIN s.rows \ Valid(s, full) : A.rows[d] = s.rows[d]
               /\ A.splits = s.splits \union FetchedSplits(s, full)
BY DEF After

\* If the frame starts with the first session, there is nothing before it to
\* be behind, whatever the store held.
LEMMA WholeHistory ==
    ASSUME TypeInv, NEW s, NEW full, IsStore(s), Start(s, full) = 1
    PROVE  StoreInv(After(s, full), series, announced, pending)
<1> DEFINE A == After(s, full)
<1>1. /\ last \in Nat /\ announced \subseteq 1 .. last /\ spoiled \subseteq Spoilable
      /\ \A d \in 1 .. last : series[d] \in Bar
      /\ DOMAIN s.rows \subseteq 1 .. last /\ s.splits \subseteq announced
  BY BoundAssumption DEF TypeInv, TypeOK, Sessions, IsStore
<1>2. ~Jumps(s, full)
  BY <1>1 DEF Jumps
<1>3. Valid(s, full) = (1 .. last) \ spoiled /\ FetchedSplits(s, full) = announced
  BY <1>1, <1>2 DEF Valid, Frame, FetchedSplits
<1>4. /\ DOMAIN A.rows = DOMAIN s.rows \union Valid(s, full)
      /\ \A d \in Valid(s, full) : A.rows[d] = series[d]
      /\ A.splits = s.splits \union FetchedSplits(s, full)
  BY AfterPass
<1> HIDE DEF A
<1>5. \A d \in Sound(A) : d \in 1 .. last /\ A.rows[d] = series[d]
  BY <1>1, <1>3, <1>4 DEF Sound
<1>6. Covered(A)
  <2>1. DOMAIN A.rows \union A.splits \subseteq 1 .. last
    BY <1>1, <1>3, <1>4
  <2>2. 1 .. last \subseteq DOMAIN A.rows \union Spoilable
    BY <1>1, <1>3, <1>4
  <2>3. \A d \in 1 .. last : 1 .. d \subseteq 1 .. last
    BY <1>1
  <2>4. QED
    BY <2>1, <2>2, <2>3 DEF Covered
<1>7. \A d \in Sound(A) : UnitLag(A, series, d) = 0 /\ DivLag(A, series, d) = 0
  BY <1>1, <1>5, BarFields DEF UnitLag, DivLag
<1>8. Unrecorded(A, announced, pending) \in Nat
  <2>1. last \in Int /\ announced \subseteq 1 .. last
    BY <1>1
  <2>2. QED
    BY <2>1, UnrecordedType
<1>9. QED
  BY <1>6, <1>7, <1>8 DEF StoreInv, Applied, Uniform, A


-----------------------------------------------------------------------------
(* An incremental pass (~full) that neither refuses nor escalates.         *)

\* A pass that starts after the first session re-fetches Overlap of them.
LEMMA OverlapWindow ==
    ASSUME TypeInv, NEW s, NEW full, ~full, IsStore(s), Start(s, full) # 1
    PROVE  /\ HasRows(s) /\ Cursor(s) \in 1 .. last
           /\ Start(s, full) \in 1 .. Cursor(s)
           /\ Start(s, full) = Cursor(s) - Overlap + 1
           /\ \A d \in DOMAIN s.rows : d <= Cursor(s)
           /\ Cursor(s) \in DOMAIN s.rows
<1>1. HasRows(s) /\ Start(s, full) = Cursor(s) - Overlap + 1 /\ ~(Cursor(s) < Overlap)
  BY DEF Start
<1>2. last \in Sessions /\ last \in Nat
  BY BoundAssumption DEF TypeInv, TypeOK, Sessions
<1>3. /\ Cursor(s) \in DOMAIN s.rows /\ Cursor(s) \in 1 .. last
      /\ \A d \in DOMAIN s.rows : d <= Cursor(s)
  BY <1>1, <1>2, CursorIsLatest
<1>4. QED
  BY <1>1, <1>2, <1>3, OverlapIsPositive

\* The counting argument.  Where no jump hides it, history that is behind
\* is noticed: a pass that neither refuses nor escalates found it up to date.
LEMMA BehindIsNoticed ==
    ASSUME TypeInv, NEW s, NEW full, ~full, IsStore(s), Start(s, full) # 1,
           ~Refused(s, full), ~Escalates(s, full), ~Jumps(s, full),
           Covered(s), Uniform(s, series)
    PROVE  \A d \in Sound(s) : UnitLag(s, series, d) = 0 /\ DivLag(s, series, d) = 0
<1> DEFINE W == Start(s, full) .. Cursor(s)
           V == W \ Spoilable
           C == Compared(s, full)
           M == Shifted(s, full)
           K == Cardinality(Spoilable)
<1>1. /\ HasRows(s) /\ last \in Nat /\ Cursor(s) \in 1 .. last
      /\ Start(s, full) \in 1 .. Cursor(s)
      /\ Start(s, full) = Cursor(s) - Overlap + 1
      /\ Cursor(s) \in DOMAIN s.rows
  BY OverlapWindow, BoundAssumption DEF TypeInv, TypeOK, Sessions
<1>2. /\ spoiled \subseteq Spoilable
      /\ \A d \in 1 .. last : series[d] \in Bar
      /\ DOMAIN s.rows \subseteq 1 .. last
      /\ \A d \in DOMAIN s.rows : s.rows[d] \in Bar
  BY DEF TypeInv, TypeOK, IsStore
<1>3. \A d \in V : d \in Sound(s) /\ d \in C /\ d \in Valid(s, full)
  <2>1. \A d \in W : d \in 1 .. Cursor(s) /\ d \in Frame(s, full) /\ d <= Cursor(s)
    BY <1>1 DEF Frame
  <2>2. 1 .. Cursor(s) \subseteq DOMAIN s.rows \union Spoilable
    BY <1>1 DEF Covered
  <2>3. QED
    BY <1>1, <1>2, <2>1, <2>2 DEF Sound, Compared, Valid
<1>4. C \subseteq W /\ M \subseteq C
  BY <1>1 DEF Compared, Valid, Frame, Shifted
<1>5. /\ IsFiniteSet(W) /\ Cardinality(W) = Overlap
      /\ IsFiniteSet(Spoilable) /\ K \in Nat
      /\ Overlap \in Nat /\ MinRows \in Nat /\ 3 <= MinRows /\ MinRows + 2 * K <= Overlap
  <2>1. Start(s, full) \in Int /\ Cursor(s) \in Int
    BY <1>1
  <2>2. /\ IsFiniteSet(W)
        /\ Cardinality(W) = IF Start(s, full) > Cursor(s) THEN 0
                            ELSE Cursor(s) - Start(s, full) + 1
    BY <2>1, FS_Interval
  <2>3. QED
    BY <1>1, <2>1, <2>2, OverlapOutnumbers
<1>6. /\ IsFiniteSet(V) /\ IsFiniteSet(C) /\ IsFiniteSet(M)
      /\ Cardinality(V) \in Nat /\ Cardinality(C) \in Nat /\ Cardinality(M) \in Nat
  <2>1. V \subseteq W /\ C \subseteq W /\ M \subseteq W
    BY <1>4
  <2>2. IsFiniteSet(V) /\ IsFiniteSet(C) /\ IsFiniteSet(M)
    BY <1>5, <2>1, FS_Subset
  <2>3. QED
    BY <2>2, FS_CardinalityType
<1>7. Overlap - K <= Cardinality(V)
  <2>1. Cardinality(V) = Cardinality(W) - Cardinality(W \cap Spoilable)
    BY <1>5, FS_Difference
  <2>2. Cardinality(W \cap Spoilable) <= K /\ IsFiniteSet(W \cap Spoilable)
    BY <1>5, FS_Subset
  <2>3. Cardinality(W \cap Spoilable) \in Nat
    BY <2>2, FS_CardinalityType
  <2>4. QED
    BY <1>5, <2>1, <2>2, <2>3
<1>8. Cardinality(V) <= Cardinality(C) /\ Cardinality(C) <= Overlap
  <2>1. V \in SUBSET C /\ C \in SUBSET W
    BY <1>3, <1>4
  <2>2. QED
    BY <1>5, <1>6, <2>1, FS_Subset
<1>9. NewSplits(s, full) = {} /\ Evidence(s, full) = {}
  BY <1>1 DEF Escalates
<1>10. ~(2 * Cardinality(M) > Cardinality(C))
  <2>1. Cardinality(C) >= MinRows
    BY <1>5, <1>6, <1>7, <1>8
  <2>2. QED
    BY <1>9, <2>1 DEF Refused
<1>11. \A d \in Sound(s) :
          /\ d \in DOMAIN s.rows
          /\ UnitLag(s, series, d) \in Int /\ DivLag(s, series, d) \in Int
          /\ UnitLag(s, series, d) # 0 => CloseMoved(s, d)
          /\ DivLag(s, series, d) # 0 => AdjMoved(s, d)
  <2> TAKE d \in Sound(s)
  <2>1. d \in DOMAIN s.rows /\ d \in 1 .. last
    BY <1>2 DEF Sound
  <2>2. /\ series[d].units \in Nat /\ series[d].divs \in Nat
        /\ s.rows[d].units \in Nat /\ s.rows[d].divs \in Nat
    BY <1>2, <2>1, BarFields
  <2>3. UnitLag(s, series, d) # 0 => CloseMoved(s, d)
    BY <2>1, <2>2 DEF UnitLag, CloseMoved, Close
  <2>4. DivLag(s, series, d) # 0 => AdjMoved(s, d)
    BY <2>1, <2>2 DEF DivLag, AdjMoved
  <2>5. QED
    BY <2>1, <2>2, <2>3, <2>4 DEF UnitLag, DivLag
<1>12. ASSUME NEW x \in Sound(s), UnitLag(s, series, x) # 0
       PROVE  FALSE
  <2>1. \A d \in V : UnitLag(s, series, d) # 0
    BY <1>3, <1>12 DEF Uniform
  <2>2. V \in SUBSET M
    BY <1>3, <1>11, <2>1 DEF Shifted
  <2>3. Cardinality(V) <= Cardinality(M)
    BY <1>6, <2>2, FS_Subset
  <2>4. QED
    BY <1>5, <1>6, <1>7, <1>8, <1>10, <2>3
<1>13. ASSUME NEW x \in Sound(s), DivLag(s, series, x) # 0
       PROVE  FALSE
  <2>1. \A d \in V : AdjMoved(s, d)
    BY <1>3, <1>11, <1>13 DEF Uniform
  <2>2. \A d, e \in V \ M : ~(d < e)
    BY <1>3, <1>9, <2>1 DEF Evidence, Shifted
  <2>3. \A d \in V : d \in Int
    BY <1>1
  <2>4. \E m : V \subseteq M \union {m}
    <3>1. CASE V \subseteq M
      BY <3>1
    <3>2. CASE \E m \in V : m \notin M
      <4>1. PICK m \in V : m \notin M
        BY <3>2
      <4>2. \A d \in V \ M : d = m
        BY <2>2, <2>3, <4>1
      <4>3. QED
        BY <4>2
    <3>3. QED
      BY <3>1, <3>2
  <2>5. PICK m : V \subseteq M \union {m}
    BY <2>4
  <2>6. /\ IsFiniteSet(M \union {m})
        /\ Cardinality(M \union {m}) = IF m \in M THEN Cardinality(M) ELSE Cardinality(M) + 1
    BY <1>6, FS_AddElement
  <2>7. Cardinality(V) <= Cardinality(M \union {m})
    BY <2>5, <2>6, FS_Subset
  <2>8. Cardinality(V) <= Cardinality(M) + 1
    BY <1>6, <2>6, <2>7
  <2>9. QED
    BY <1>5, <1>6, <1>7, <1>8, <1>10, <2>8
<1>14. QED
  BY <1>12, <1>13


\* A jump that nothing explains stops the pass from storing anything, if
\* there was one split at most: a recorded split is applied, so it cannot be
\* what the history before the overlap lacks.
LEMMA UnexplainedJump ==
    ASSUME TypeInv, SplitsCounted, NEW s, NEW full, IsStore(s),
           StoreInv(s, series, announced, pending), Tame(series),
           NewSplits(s, full) = {}, Jumps(s, full)
    PROVE  Valid(s, full) = {}
<1>1. /\ last \in Nat /\ last >= 1 /\ announced \subseteq 1 .. last
      /\ \A d \in 1 .. last : series[d] \in Bar
      /\ DOMAIN s.rows \subseteq 1 .. last /\ s.splits \subseteq announced
      /\ \A d \in DOMAIN s.rows : s.rows[d] \in Bar
  BY BoundAssumption DEF TypeInv, TypeOK, Sessions, IsStore
<1>2. SplitsJump /\ series[1].units <= 1 /\ Spoilable = {}
  BY DEF Jumps, Tame
<1>3. PICK p \in DOMAIN s.rows : s.rows[p].units # series[p].units
  BY DEF Jumps
<1>4. 1 <= Unrecorded(s, announced, pending)
  <2>1. series[p].units \in Nat /\ s.rows[p].units \in Nat
    BY <1>1, <1>3, BarFields
  <2>2. 0 <= UnitLag(s, series, p) /\ UnitLag(s, series, p) <= Unrecorded(s, announced, pending)
    BY <1>2, <1>3 DEF StoreInv, Applied, Sound
  <2>3. UnitLag(s, series, p) # 0 /\ UnitLag(s, series, p) \in Int
    BY <1>3, <2>1 DEF UnitLag
  <2>4. Unrecorded(s, announced, pending) \in Nat
    <3>1. last \in Int /\ announced \subseteq 1 .. last
      BY <1>1
    <3>2. QED
      BY <3>1, UnrecordedType
  <2>5. QED
    BY <2>2, <2>3, <2>4
<1>5. ASSUME NEW e \in s.splits
      PROVE  FALSE
  <2>1. IsFiniteSet(announced) /\ Cardinality(announced) \in Nat
    <3>1. last \in Int /\ announced \subseteq 1 .. last
      BY <1>1
    <3>2. QED
      BY <3>1, FinitePart
  <2>2. /\ IsFiniteSet(announced \ {e})
        /\ Cardinality(announced \ {e}) = Cardinality(announced) - 1
    BY <1>1, <2>1, FS_RemoveElement
  <2>3. announced \ s.splits \in SUBSET (announced \ {e})
    OBVIOUS
  <2>4. Cardinality(announced \ s.splits) <= Cardinality(announced \ {e})
    BY <2>2, <2>3, FS_Subset
  <2>5. IsFiniteSet(announced \ s.splits) /\ Cardinality(announced \ s.splits) \in Nat
    <3>1. last \in Int /\ announced \subseteq 1 .. last
      BY <1>1
    <3>2. QED
      BY <3>1, UnrecordedType
  <2>6. series[1].units \in Nat
    BY <1>1, BarFields
  <2>7. QED
    BY <1>2, <1>4, <2>1, <2>2, <2>4, <2>5, <2>6 DEF Unrecorded, SplitsCounted
<1>6. ASSUME NEW d \in Valid(s, full)
      PROVE  FALSE
  <2>1. d \in Frame(s, full) /\ Explained(s, full, d)
    BY DEF Valid
  <2>2. PICK e \in s.splits \union announced : Start(s, full) <= e /\ e <= d
    BY <2>1 DEF Explained
  <2>3. e \in announced /\ e \in Frame(s, full)
    <3>1. last \in Sessions
      BY DEF TypeInv, TypeOK
    <3>2. Start(s, full) \in 1 .. last
      BY <3>1, FrameOfSessions
    <3>3. QED
      BY <1>1, <2>1, <2>2, <3>2 DEF Frame
  <2>4. e \in s.splits
    BY <2>3 DEF NewSplits, FetchedSplits
  <2>5. QED
    BY <1>5, <2>4
<1>7. QED
  BY <1>6

\* A pass that records no new split leaves no hole: what it quarantines
\* stays behind the cursor only up to a recorded split, and history up to
\* there is stored.
LEMMA QuietPassCovers ==
    ASSUME TypeInv, NEW s, NEW full, ~full, IsStore(s), Start(s, full) # 1,
           Covered(s), NewSplits(s, full) = {}
    PROVE  Covered(After(s, full))
<1> DEFINE A == After(s, full)
<1>1. /\ DOMAIN A.rows = DOMAIN s.rows \union Valid(s, full)
      /\ A.splits = s.splits \union FetchedSplits(s, full)
  BY AfterPass
<1> HIDE DEF A
<1>2. /\ last \in Nat /\ announced \subseteq 1 .. last /\ spoiled \subseteq Spoilable
      /\ s.splits \subseteq announced
      /\ Cursor(s) \in 1 .. last /\ Cursor(s) \in DOMAIN s.rows
      /\ Start(s, full) \in 1 .. Cursor(s)
  <2>1. /\ last \in Nat /\ announced \subseteq 1 .. last /\ spoiled \subseteq Spoilable
        /\ s.splits \subseteq announced
    BY BoundAssumption DEF TypeInv, TypeOK, Sessions, IsStore
  <2>2. /\ Cursor(s) \in 1 .. last /\ Cursor(s) \in DOMAIN s.rows
        /\ Start(s, full) \in 1 .. Cursor(s)
    BY OverlapWindow
  <2>3. QED
    BY <2>1, <2>2
<1>3. A.splits = s.splits /\ FetchedSplits(s, full) \subseteq s.splits
  BY <1>1 DEF NewSplits
<1>4. \A d \in DOMAIN s.rows \union s.splits : 1 .. d \subseteq DOMAIN s.rows \union Spoilable
  BY DEF Covered
<1>5. ASSUME NEW d \in Valid(s, full), NEW x \in 1 .. d
      PROVE  x \in DOMAIN A.rows \union Spoilable
  <2>1. d \in Start(s, full) .. last /\ (Jumps(s, full) => Explained(s, full, d))
    BY DEF Valid, Frame
  <2>2. CASE x <= Cursor(s)
    <3>1. x \in 1 .. Cursor(s)
      BY <1>2, <2>1, <2>2
    <3>2. QED
      BY <1>1, <1>2, <1>4, <3>1
  <2>3. CASE ~(x <= Cursor(s))
    <3>1. x \in Frame(s, full)
      BY <1>2, <2>1, <2>3 DEF Frame
    <3>2. CASE ~Jumps(s, full)
      BY <1>1, <1>2, <3>1, <3>2 DEF Valid
    <3>3. CASE Jumps(s, full)
      <4>1. PICK e \in (s.splits \union announced) \ spoiled : Start(s, full) <= e /\ e <= d
        BY <2>1, <3>3 DEF Explained
      <4>2. e \in 1 .. last /\ e \in announced /\ e \in Frame(s, full)
        <5>1. e \in 1 .. last /\ e \in announced
          BY <1>2, <4>1
        <5>2. e \in Start(s, full) .. last
          BY <1>2, <4>1, <5>1
        <5>3. QED
          BY <5>1, <5>2 DEF Frame
      <4>3. e \in s.splits
        BY <1>3, <4>2 DEF FetchedSplits
      <4>4. CASE x <= e
        <5>1. x \in 1 .. e
          BY <1>2, <2>1, <4>2, <4>4
        <5>2. QED
          BY <1>1, <1>4, <4>3, <5>1
      <4>5. CASE ~(x <= e)
        <5>1. e <= x
          BY <1>2, <2>1, <4>2, <4>5
        <5>2. Explained(s, full, x)
          BY <4>1, <5>1 DEF Explained
        <5>3. QED
          BY <1>1, <1>2, <3>1, <5>2 DEF Valid
      <4>6. QED
        BY <4>4, <4>5
    <3>4. QED
      BY <3>2, <3>3
  <2>4. QED
    BY <2>2, <2>3
<1>6. \A d \in DOMAIN A.rows \union A.splits : 1 .. d \subseteq DOMAIN A.rows \union Spoilable
  BY <1>1, <1>3, <1>4, <1>5
<1>7. QED
  BY <1>6 DEF Covered, A

\* An incremental pass keeps the invariant unless it refuses or escalates.
LEMMA QuietPass ==
    ASSUME TypeInv, SplitsCounted, NEW s, NEW full, ~full, IsStore(s),
           StoreInv(s, series, announced, pending),
           ~Refused(s, full), ~Escalates(s, full)
    PROVE  StoreInv(After(s, full), series, announced, pending)
<1> DEFINE A == After(s, full)
<1>1. CASE Start(s, full) = 1
  BY <1>1, WholeHistory
<1>2. CASE Start(s, full) # 1
  <2>1. /\ \A d \in 1 .. last : series[d] \in Bar
        /\ DOMAIN s.rows \subseteq 1 .. last
        /\ Valid(s, full) \subseteq 1 .. last
    BY FrameOfSessions DEF TypeInv, TypeOK, IsStore, Valid
  <2>2. NewSplits(s, full) = {}
    BY <1>2, OverlapWindow DEF Escalates
  <2>3. Covered(A)
    BY <1>2, <2>2, QuietPassCovers DEF StoreInv
  <2>4. /\ DOMAIN A.rows = DOMAIN s.rows \union Valid(s, full)
        /\ \A d \in Valid(s, full) : A.rows[d] = series[d]
        /\ \A d \in DOMAIN s.rows \ Valid(s, full) : A.rows[d] = s.rows[d]
        /\ A.splits = s.splits \union FetchedSplits(s, full)
    BY AfterPass
  <2> HIDE DEF A
  <2>5. A.splits = s.splits
    BY <2>2, <2>4 DEF NewSplits
  <2>6. \A d \in Sound(A) :
           \/ d \in Valid(s, full) /\ UnitLag(A, series, d) = 0 /\ DivLag(A, series, d) = 0
           \/ /\ d \in Sound(s) /\ d \notin Valid(s, full)
              /\ UnitLag(A, series, d) = UnitLag(s, series, d)
              /\ DivLag(A, series, d) = DivLag(s, series, d)
    <3> TAKE d \in Sound(A)
    <3>1. CASE d \in Valid(s, full)
      BY <2>1, <2>4, <3>1, BarFields DEF UnitLag, DivLag
    <3>2. CASE d \notin Valid(s, full)
      BY <2>4, <3>2 DEF UnitLag, DivLag, Sound
    <3>3. QED
      BY <3>1, <3>2
  <2>7. Unrecorded(A, announced, pending) = Unrecorded(s, announced, pending)
    BY <2>5 DEF Unrecorded
  <2>8. Unrecorded(s, announced, pending) \in Nat
    <3>1. last \in Int /\ announced \subseteq 1 .. last
      BY BoundAssumption DEF TypeInv, TypeOK, Sessions
    <3>2. QED
      BY <3>1, UnrecordedType
  <2>9. Applied(A, series, announced, pending)
    BY <2>6, <2>7, <2>8 DEF StoreInv, Applied
  <2>10. Tame(series) => Uniform(A, series)
    <3> SUFFICES ASSUME Tame(series) PROVE Uniform(A, series)
      OBVIOUS
    <3>1. Uniform(s, series)
      BY DEF StoreInv
    <3>2. CASE Jumps(s, full)
      <4>1. Valid(s, full) = {}
        BY <2>2, <3>2, UnexplainedJump
      <4>2. QED
        BY <2>6, <3>1, <4>1 DEF Uniform
    <3>3. CASE ~Jumps(s, full)
      <4>1. \A d \in Sound(s) : UnitLag(s, series, d) = 0 /\ DivLag(s, series, d) = 0
        BY <1>2, <3>1, <3>3, BehindIsNoticed DEF StoreInv
      <4>2. QED
        BY <2>6, <4>1 DEF Uniform
    <3>4. QED
      BY <3>2, <3>3
  <2>11. QED
    BY <2>3, <2>9, <2>10 DEF StoreInv, A
<1>3. QED
  BY <1>1, <1>2


-----------------------------------------------------------------------------
(* The invariant.                                                          *)

LEMMA InitBasis == Init => BasisInv
<1> SUFFICES ASSUME Init PROVE BasisInv
  OBVIOUS
<1>1. DOMAIN db.rows = {} /\ db.splits = {} /\ Sound(db) = {}
  BY DEF Init, Sound
<1>2. StoreInv(db, series, announced, pending)
  BY <1>1 DEF StoreInv, Covered, Applied, Uniform
<1>3. SplitsCounted
  <2>1. series[1].units = 0 /\ announced = {} /\ pending = FALSE
    BY DEF Init, NewBar
  <2>2. Cardinality(announced) = 0
    BY <2>1, FS_EmptySet
  <2>3. QED
    BY <2>1, <2>2 DEF SplitsCounted
<1>4. phase # "done"
  BY DEF Init
<1>5. QED
  BY <1>2, <1>3, <1>4, InitTypes DEF BasisInv

LEMMA ProviderBasis == BasisInv /\ TypeInv' /\ Provider => BasisInv'
<1> SUFFICES ASSUME BasisInv, TypeInv', Provider PROVE BasisInv'
  OBVIOUS
<1>1. /\ TypeInv /\ SplitsCounted /\ IsStore(db) /\ IsStore(work)
      /\ StoreInv(db, series, announced, pending)
      /\ phase = "done" => StoreInv(work, series, announced, pending)
  BY DEF BasisInv, TypeInv, TypeOK
<1>2. UNCHANGED << db, work, phase >>
  BY DEF Provider, NewSession, Dividend, Split, Correct, Spoil, Mend
<1>3. StoreInv(db, series', announced', pending')
  BY <1>1, ProviderKeepsStore
<1>4. phase = "done" => StoreInv(work, series', announced', pending')
  BY <1>1, ProviderKeepsStore
<1>5. SplitsCounted'
  BY <1>1, ProviderCountsSplits
<1>6. QED
  BY <1>2, <1>3, <1>4, <1>5 DEF BasisInv

\* What a step of the service must show.
LEMMA ServiceStepBasis ==
    ASSUME BasisInv, TypeInv', UNCHANGED provider,
           StoreInv(db', series, announced, pending),
           phase' = "done" => StoreInv(work', series, announced, pending)
    PROVE  BasisInv'
BY DEF BasisInv, SplitsCounted, provider

LEMMA ServiceBasis == BasisInv /\ TypeInv' /\ Service => BasisInv'
<1> SUFFICES ASSUME BasisInv, TypeInv', Service PROVE BasisInv'
  OBVIOUS
<1>1. /\ TypeInv /\ SplitsCounted /\ IsStore(db) /\ IsStore(work)
      /\ StoreInv(db, series, announced, pending)
      /\ phase = "done" => StoreInv(work, series, announced, pending)
  BY DEF BasisInv, TypeInv, TypeOK
<1>2. UNCHANGED provider
  BY DEF Service, Ingest, IngestFull, Refresh, RefreshFails, Commit, RollBack, provider
<1>3. \A s : IsStore(s) => StoreInv(After(s, TRUE), series, announced, pending)
  <2>1. \A s : Start(s, TRUE) = 1
    BY DEF Start
  <2>2. QED
    BY <1>1, <2>1, WholeHistory
<1>4. CASE Ingest
  <2>1. db' = db
    BY <1>4 DEF Ingest
  <2>2. phase' = "done" => StoreInv(work', series, announced, pending)
    <3>1. CASE Refused(db, FALSE)
      BY <1>1, <1>4, <3>1 DEF Ingest
    <3>2. CASE ~Refused(db, FALSE) /\ Escalates(db, FALSE)
      BY <1>4, <3>2 DEF Ingest
    <3>3. CASE ~Refused(db, FALSE) /\ ~Escalates(db, FALSE)
      <4>1. StoreInv(After(db, FALSE), series, announced, pending)
        BY <1>1, <3>3, QuietPass
      <4>2. work' = After(db, FALSE)
        BY <1>4, <3>3 DEF Ingest
      <4>3. QED
        BY <4>1, <4>2
    <3>4. QED
      BY <3>1, <3>2, <3>3
  <2>3. QED
    BY <1>1, <1>2, <2>1, <2>2, ServiceStepBasis
<1>5. CASE IngestFull
  BY <1>1, <1>2, <1>3, <1>5, ServiceStepBasis DEF IngestFull
<1>6. CASE Refresh
  BY <1>1, <1>2, <1>3, <1>6, ServiceStepBasis DEF Refresh
<1>7. CASE RefreshFails
  BY <1>1, <1>2, <1>7, ServiceStepBasis DEF RefreshFails
<1>8. CASE Commit
  BY <1>1, <1>2, <1>8, ServiceStepBasis DEF Commit
<1>9. CASE RollBack
  BY <1>1, <1>2, <1>9, ServiceStepBasis DEF RollBack
<1>10. QED
  BY <1>4, <1>5, <1>6, <1>7, <1>8, <1>9 DEF Service

LEMMA BasisStep == BasisInv /\ [Next]_vars => BasisInv'
<1> SUFFICES ASSUME BasisInv, [Next]_vars PROVE BasisInv'
  OBVIOUS
<1>1. TypeInv'
  BY TypeStep DEF BasisInv
<1>2. CASE Provider
  BY <1>1, <1>2, ProviderBasis
<1>3. CASE Service
  BY <1>1, <1>3, ServiceBasis
<1>4. CASE UNCHANGED vars
  BY <1>1, <1>4 DEF vars, BasisInv, SplitsCounted
<1>5. QED
  BY <1>2, <1>3, <1>4 DEF Next

LEMMA BasisHolds == Spec => []BasisInv
BY InitBasis, BasisStep, PTL DEF Spec

-----------------------------------------------------------------------------
(* The safety properties.                                                  *)

\* However splits, dividends, corrections and malformed bars meet the passes,
\* the committed rows of an instrument are on one share-unit and dividend
\* basis, for any overlap that holds MinRows sessions and twice the malformed
\* ones more.
THEOREM HistoryOnOneBasis == Spec => []OneBasis
<1>1. BasisInv => OneBasis
  <2> SUFFICES ASSUME BasisInv, Tame(series), NEW d \in Sound(db), NEW e \in Sound(db)
               PROVE  Lag(db, d) = Lag(db, e)
    BY DEF OneBasis, Tame
  <2>1. UnitLag(db, series, d) = UnitLag(db, series, e) /\ DivLag(db, series, d) = DivLag(db, series, e)
    BY DEF BasisInv, StoreInv, Uniform
  <2>2. QED
    BY <2>1 DEF Lag, UnitLag, DivLag
<1>2. QED
  BY <1>1, BasisHolds, PTL

\* A split is recorded only together with the history it restates, whatever
\* fails between the two passes and whatever is quarantined.
THEOREM NoSplitUnapplied == Spec => []RecordedSplitsAreApplied
<1>1. BasisInv => RecordedSplitsAreApplied
  <2> SUFFICES ASSUME BasisInv, NEW d \in Sound(db)
               PROVE  Lag(db, d)[1] <= Cardinality(announced \ db.splits) + (IF pending THEN 1 ELSE 0)
    BY DEF RecordedSplitsAreApplied
  <2>1. UnitLag(db, series, d) <= Unrecorded(db, announced, pending)
    BY DEF BasisInv, StoreInv, Applied
  <2>2. Lag(db, d)[1] = UnitLag(db, series, d)
    BY DEF Lag, UnitLag
  <2>3. QED
    BY <2>1, <2>2 DEF Unrecorded
<1>2. QED
  BY <1>1, BasisHolds, PTL

\* No quarantine, refusal or failed refresh lets the cursor pass a session
\* that was served well-formed and is not stored.
THEOREM HistoryHasNoHoles == Spec => []NoHoles
<1>1. BasisInv => NoHoles
  BY DEF BasisInv, StoreInv, Covered, NoHoles
<1>2. QED
  BY <1>1, BasisHolds, PTL

=============================================================================
