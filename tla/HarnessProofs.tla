--------------------------- MODULE HarnessProofs ----------------------------
(***************************************************************************)
(* Proofs about the research harness: what it writes, and may find again   *)
(* after a kill (EvidenceCapture), for any grid of pairs and models, any   *)
(* plans and any number of kills and edits; and what it and the validation *)
(* are told (Evaluations), for any history of the market, any targets and  *)
(* scoring dates, any limits of the searches and any number of days.       *)
(***************************************************************************)
EXTENDS EvidenceCapture, Evaluations, Sums, SequenceTheorems, WellFoundedInduction, TLAPS

SomePlan == Plans \union {NoPlan}

Lines ==
    [ pair : 0 .. Pairs, model : 0 .. Models, kind : {"outcome", "pair_done", "torn"},
      pass : Nat, plan : SomePlan ]

CaptureTypeOK ==
    /\ file \in Seq(Lines)
    /\ prereg \in [ plan : SomePlan, digest : SomePlan ]
    /\ writer \in {"idle", "writing", "done"}
    /\ grid \subseteq 1 .. Pairs
    /\ pass \in Nat
    /\ under \in SomePlan

\* A line that can be read was captured under the digest.
Legible(line, digest) == line.kind # "torn" => digest # NoPlan /\ line.plan = digest

\* A marker stands for a pair with a line of every model.
MarkersAreEarned(lines, passes) ==
    \A i \in DOMAIN lines :
        lines[i].kind = "pair_done" => \E n \in 1 .. passes : Whole(lines, lines[i].pair, n)

\* The digest, once there, is the plan of every line; only a line can lack its
\* newline; and in a file that can be read every marker is earned.
CaptureInv ==
    /\ CaptureTypeOK
    /\ writer = "writing" => IsFrozen /\ under = prereg.digest /\ pass \in 1 .. pass
    /\ ended \/ file # << >>
    /\ \A i \in DOMAIN file : Legible(file[i], prereg.digest)
    /\ Readable(file) => MarkersAreEarned(file, pass)

-----------------------------------------------------------------------------
\* A file that is appended to keeps its lines and gains the ones appended.
LEMMA LongerFile ==
    ASSUME NEW s \in Seq(Lines), NEW t \in Seq(Lines)
    PROVE  /\ s \o t \in Seq(Lines)
           /\ DOMAIN s \subseteq DOMAIN (s \o t)
           /\ \A i \in DOMAIN s : (s \o t)[i] = s[i]
           /\ \A i \in DOMAIN (s \o t) \ DOMAIN s : \E j \in DOMAIN t : (s \o t)[i] = t[j]
           /\ \A j \in DOMAIN t : Len(s) + j \in DOMAIN (s \o t) /\ (s \o t)[Len(s) + j] = t[j]
<1>1. /\ s \o t \in Seq(Lines)
      /\ Len(s \o t) = Len(s) + Len(t)
      /\ \A i \in 1 .. Len(s) + Len(t) :
             (s \o t)[i] = IF i <= Len(s) THEN s[i] ELSE t[i - Len(s)]
  BY ConcatProperties
<1>2. /\ Len(s) \in Nat /\ Len(t) \in Nat
      /\ DOMAIN s = 1 .. Len(s) /\ DOMAIN t = 1 .. Len(t)
      /\ DOMAIN (s \o t) = 1 .. Len(s) + Len(t)
  BY <1>1
<1>3. ASSUME NEW i \in DOMAIN (s \o t) \ DOMAIN s
      PROVE  \E j \in DOMAIN t : (s \o t)[i] = t[j]
  <2>1. i - Len(s) \in DOMAIN t /\ (s \o t)[i] = t[i - Len(s)]
    BY <1>1, <1>2
  <2>2. QED
    BY <2>1
<1>4. ASSUME NEW j \in DOMAIN t
      PROVE  Len(s) + j \in DOMAIN (s \o t) /\ (s \o t)[Len(s) + j] = t[j]
  <2>1. Len(s) + j \in 1 .. Len(s) + Len(t) /\ ~ (Len(s) + j <= Len(s)) /\ Len(s) + j - Len(s) = j
    BY <1>2
  <2>2. QED
    BY <1>1, <1>2, <2>1
<1>5. \A i \in DOMAIN s : i \in 1 .. Len(s) + Len(t) /\ i <= Len(s)
  BY <1>2
<1>6. QED
  BY <1>1, <1>2, <1>3, <1>4, <1>5

\* The next pair is one of the grid.
LEMMA NextIsDue ==
    ASSUME CaptureTypeOK, Due # {}
    PROVE  Next1 \in 1 .. Pairs
<1>1. Due \subseteq Nat /\ Due \subseteq 1 .. Pairs
  <2>1. \A p \in Due : p \in 1 .. Pairs
    BY DEF Due, CaptureTypeOK
  <2>2. \A p \in 1 .. Pairs : p \in Nat
    BY GridAssumption
  <2>3. QED
    BY <2>1, <2>2
<1>2. PICK p \in Due : \A q \in Due : ~ (<< q, p >> \in OpToRel(<, Nat))
  <2>1. Due \subseteq Nat /\ Due # {}
    BY <1>1
  <2>2. QED
    BY ONLY <2>1, NatLessThanWellFounded, WFMin, Zenon
<1>3. \A q \in Due : ~ (q < p)
  BY <1>1, <1>2 DEF OpToRel
<1>4. \A q \in Due : p <= q
  BY <1>1, <1>3
<1>5. Next1 \in Due
  BY <1>4, Zenon DEF Next1
<1>6. QED
  BY <1>1, <1>5

\* The harness writes a line for each model, then the marker.
LEMMA BlockLines ==
    ASSUME CaptureTypeOK, NEW p \in 1 .. Pairs
    PROVE  /\ Block(p) \in Seq(Lines)
           /\ DOMAIN Block(p) = 1 .. Models + 1
           /\ \A m \in 1 .. Models : Block(p)[m] = Line(p, m, "outcome")
           /\ Block(p)[Models + 1] = Line(p, 0, "pair_done")
           /\ \A m \in 1 .. Models : Block(p)[m] \in Lines
<1> DEFINE models == [ m \in 1 .. Models |-> Line(p, m, "outcome") ]
<1> DEFINE marker == << Line(p, 0, "pair_done") >>
<1>1. Models \in Nat /\ p \in 0 .. Pairs
  BY GridAssumption
<1>2. \A m \in 1 .. Models : Line(p, m, "outcome") \in Lines
  BY <1>1 DEF Line, Lines, CaptureTypeOK
<1>3. Line(p, 0, "pair_done") \in Lines
  BY <1>1 DEF Line, Lines, CaptureTypeOK
<1>4. models \in Seq(Lines) /\ Len(models) = Models
  <2>1. models \in [ 1 .. Models -> Lines ]
    BY <1>2
  <2>2. QED
    BY <1>1, <2>1
<1>5. marker \in Seq(Lines) /\ Len(marker) = 1 /\ marker[1] = Line(p, 0, "pair_done")
  BY <1>3
<1>6. Block(p) = models \o marker
  BY DEF Block
<1> HIDE DEF models, marker
<1>7. /\ Block(p) \in Seq(Lines)
      /\ Len(Block(p)) = Models + 1
      /\ \A i \in 1 .. Models + 1 :
             Block(p)[i] = IF i <= Models THEN models[i] ELSE marker[i - Models]
  <2>1. models \o marker \in Seq(Lines) /\ Len(models \o marker) = Len(models) + Len(marker)
    BY <1>4, <1>5, ConcatProperties
  <2>2. \A i \in 1 .. Len(models) + Len(marker) :
            (models \o marker)[i] = IF i <= Len(models) THEN models[i] ELSE marker[i - Len(models)]
    BY <1>4, <1>5, ConcatProperties
  <2>3. QED
    BY <1>4, <1>5, <1>6, <2>1, <2>2
<1>8. \A m \in 1 .. Models : m \in 1 .. Models + 1 /\ m <= Models
  BY <1>1
<1>9. PICK k \in 1 .. Models + 1 : k = Models + 1 /\ ~ (k <= Models) /\ k - Models = 1
  BY <1>1
<1>10. \A m \in 1 .. Models : models[m] = Line(p, m, "outcome")
  BY DEF models
<1>11. \A m \in 1 .. Models : Block(p)[m] = Line(p, m, "outcome")
  BY <1>7, <1>8, <1>10
<1>12. Block(p)[Models + 1] = Line(p, 0, "pair_done")
  <2>1. Block(p)[k] = marker[k - Models]
    BY <1>7, <1>9
  <2>2. Block(p)[k] = Line(p, 0, "pair_done")
    BY <1>5, <1>9, <2>1
  <2>3. QED
    BY <1>9, <2>2
<1>13. DOMAIN Block(p) = 1 .. Models + 1
  BY <1>7
<1>14. QED
  BY <1>2, <1>7, <1>11, <1>12, <1>13

-----------------------------------------------------------------------------
\* A file that only grows keeps the pairs in it whole.
LEMMA WholeStays ==
    ASSUME NEW s, NEW t, DOMAIN s \subseteq DOMAIN t, \A i \in DOMAIN s : t[i] = s[i],
           NEW p, NEW n, Whole(s, p, n)
    PROVE  Whole(t, p, n)
  BY DEF Whole

\* The lines that a writer at its next pair may append: its own and a torn one,
\* and the marker only together with a line of every model.
Piece(lines) ==
    /\ lines \in Seq(Lines) /\ lines # << >>
    /\ \A j \in DOMAIN lines :
           lines[j] = Torn \/ \E m \in 0 .. Models, kind \in {"outcome", "pair_done"} : lines[j] = Line(Next1, m, kind)
    /\ \A j \in DOMAIN lines : lines[j].kind = "pair_done" =>
           \A m \in 1 .. Models : \E i \in DOMAIN lines : lines[i] = Line(Next1, m, "outcome")

LEMMA PieceLines ==
    ASSUME CaptureInv, writer = "writing", NEW lines, Piece(lines)
    PROVE  \A j \in DOMAIN lines :
               /\ Legible(lines[j], prereg.digest)
               /\ lines[j].kind = "pair_done" => lines[j].pair = Next1
<1>1. IsFrozen /\ under = prereg.digest
  BY DEF CaptureInv
<1>2. Legible(Torn, prereg.digest) /\ Torn.kind # "pair_done"
  BY DEF Legible, Torn
<1>3. ASSUME NEW m, NEW kind
      PROVE  Legible(Line(Next1, m, kind), prereg.digest) /\ Line(Next1, m, kind).pair = Next1
  BY <1>1 DEF Legible, Line, IsFrozen
<1>4. QED
  BY <1>2, <1>3 DEF Piece

\* Lines glued to one that lacks its newline leave a file that cannot be read.
LEMMA GluedLines ==
    ASSUME CaptureInv, ~ ended, NEW lines \in Seq(Lines), lines # << >>,
           \A j \in DOMAIN lines : Legible(lines[j], prereg.digest)
    PROVE  /\ Appended(lines) \in Seq(Lines) /\ Appended(lines) # << >>
           /\ \A i \in DOMAIN Appended(lines) : Legible(Appended(lines)[i], prereg.digest)
           /\ ~ Readable(Appended(lines))
<1> DEFINE last == Len(file)
<1> DEFINE head == [file EXCEPT ![last] = Torn]
<1> DEFINE rest == Tail(lines)
<1>1. file \in Seq(Lines) /\ file # << >> /\ last \in Nat /\ DOMAIN file = 1 .. last /\ last \in 1 .. last
  BY DEF CaptureInv, CaptureTypeOK
<1>2. Torn \in Lines
  BY GridAssumption DEF Torn, Lines, SomePlan
<1>3. head \in Seq(Lines) /\ DOMAIN head = 1 .. last /\ Len(head) = last
  BY <1>1, <1>2
<1>4. head[last] = Torn /\ \A i \in 1 .. last : head[i] = Torn \/ head[i] = file[i]
  BY <1>1
<1>5. /\ rest \in Seq(Lines) /\ Len(rest) = Len(lines) - 1 /\ Len(lines) \in Nat
      /\ \A j \in DOMAIN rest : j + 1 \in DOMAIN lines /\ rest[j] = lines[j + 1]
  BY HeadTailProperties
<1>6. Appended(lines) = head \o rest
  BY DEF Appended
<1> HIDE DEF head, rest, last
<1>7. /\ head \o rest \in Seq(Lines)
      /\ DOMAIN head \subseteq DOMAIN (head \o rest)
      /\ \A i \in DOMAIN head : (head \o rest)[i] = head[i]
      /\ \A i \in DOMAIN (head \o rest) \ DOMAIN head : \E j \in DOMAIN rest : (head \o rest)[i] = rest[j]
  BY <1>3, <1>5, LongerFile
<1>8. \A i \in DOMAIN file : Legible(file[i], prereg.digest)
  BY DEF CaptureInv
<1>9. Legible(Torn, prereg.digest) /\ Torn.kind = "torn"
  BY DEF Legible, Torn
<1>10. \A i \in DOMAIN head : Legible(head[i], prereg.digest)
  BY <1>1, <1>3, <1>4, <1>8, <1>9
<1>11. \A j \in DOMAIN rest : Legible(rest[j], prereg.digest)
  BY <1>5
<1>12. \A i \in DOMAIN (head \o rest) : Legible((head \o rest)[i], prereg.digest)
  BY <1>7, <1>10, <1>11
<1>13. last \in DOMAIN (head \o rest) /\ (head \o rest)[last].kind = "torn"
  BY <1>1, <1>3, <1>4, <1>7, <1>9
<1>14. ~ Readable(head \o rest) /\ head \o rest # << >>
  BY <1>13 DEF Readable
<1>15. QED
  BY <1>6, <1>7, <1>12, <1>14

\* Lines after a newline keep the markers earned.
LEMMA FollowingLines ==
    ASSUME CaptureInv, writer = "writing", NEW lines, Piece(lines)
    PROVE  /\ file \o lines \in Seq(Lines) /\ file \o lines # << >>
           /\ \A i \in DOMAIN (file \o lines) : Legible((file \o lines)[i], prereg.digest)
           /\ Readable(file \o lines) => MarkersAreEarned(file \o lines, pass)
<1> DEFINE longer == file \o lines
<1>1. /\ file \in Seq(Lines) /\ lines \in Seq(Lines)
      /\ \A i \in DOMAIN file : Legible(file[i], prereg.digest)
      /\ Readable(file) => MarkersAreEarned(file, pass)
      /\ pass \in 1 .. pass
  BY DEF CaptureInv, CaptureTypeOK, Piece
<1>2. /\ longer \in Seq(Lines)
      /\ DOMAIN file \subseteq DOMAIN longer
      /\ \A i \in DOMAIN file : longer[i] = file[i]
      /\ \A i \in DOMAIN longer \ DOMAIN file : \E j \in DOMAIN lines : longer[i] = lines[j]
      /\ \A j \in DOMAIN lines : Len(file) + j \in DOMAIN longer /\ longer[Len(file) + j] = lines[j]
  BY <1>1, LongerFile
<1> HIDE DEF longer
<1>3. \A j \in DOMAIN lines : Legible(lines[j], prereg.digest) /\ (lines[j].kind = "pair_done" => lines[j].pair = Next1)
  BY PieceLines
<1>4. \A i \in DOMAIN longer : Legible(longer[i], prereg.digest)
  BY <1>1, <1>2, <1>3
<1>5. longer # << >>
  <2>1. 1 \in DOMAIN lines
    BY <1>1 DEF Piece
  <2>2. QED
    BY <1>2, <2>1
<1>6. ASSUME NEW j \in DOMAIN lines, lines[j].kind = "pair_done"
      PROVE  Whole(longer, Next1, pass)
  <2>1. ASSUME NEW m \in 1 .. Models
        PROVE  \E i \in DOMAIN longer : longer[i].pair = Next1 /\ longer[i].pass = pass /\ longer[i].model = m
    <3>1. PICK k \in DOMAIN lines : lines[k] = Line(Next1, m, "outcome")
      BY <1>6 DEF Piece
    <3>2. Len(file) + k \in DOMAIN longer /\ longer[Len(file) + k] = Line(Next1, m, "outcome")
      BY <1>2, <3>1
    <3>3. QED
      BY <3>2 DEF Line
  <2>2. QED
    BY <2>1 DEF Whole
<1>7. ASSUME Readable(longer), NEW i \in DOMAIN longer, longer[i].kind = "pair_done"
      PROVE  \E n \in 1 .. pass : Whole(longer, longer[i].pair, n)
  <2>1. CASE i \in DOMAIN file
    <3>1. Readable(file)
      BY <1>2, <1>7 DEF Readable
    <3>2. PICK n \in 1 .. pass : Whole(file, file[i].pair, n)
      BY <1>1, <1>2, <1>7, <2>1, <3>1 DEF MarkersAreEarned
    <3>3. Whole(longer, file[i].pair, n)
      BY <1>2, <3>2, WholeStays
    <3>4. QED
      BY <1>2, <2>1, <3>3
  <2>2. CASE i \notin DOMAIN file
    <3>1. PICK j \in DOMAIN lines : longer[i] = lines[j]
      BY <1>2, <2>2
    <3>2. longer[i].pair = Next1 /\ Whole(longer, Next1, pass)
      BY <1>3, <1>6, <1>7, <3>1
    <3>3. QED
      BY <1>1, <3>2
  <2>3. QED
    BY <2>1, <2>2
<1>8. Readable(longer) => MarkersAreEarned(longer, pass)
  BY <1>7 DEF MarkersAreEarned
<1>9. QED
  BY <1>2, <1>4, <1>5, <1>8 DEF longer

\* A step that appends a piece.
LEMMA PieceKeeps ==
    ASSUME CaptureInv, writer = "writing", NEW lines, Piece(lines), file' = Appended(lines),
           writer' \in {"idle", "writing"}, UNCHANGED << prereg, grid, pass, under >>
    PROVE  CaptureInv'
<1>1. lines \in Seq(Lines) /\ lines # << >> /\ \A j \in DOMAIN lines : Legible(lines[j], prereg.digest)
  BY PieceLines DEF Piece
<1>2. /\ file' \in Seq(Lines) /\ file' # << >>
      /\ \A i \in DOMAIN file' : Legible(file'[i], prereg.digest)
      /\ Readable(file') => MarkersAreEarned(file', pass)
  <2>1. CASE ended
    BY <2>1, FollowingLines DEF Appended
  <2>2. CASE ~ ended
    BY <1>1, <2>2, GluedLines
  <2>3. QED
    BY <2>1, <2>2
<1>3. CaptureTypeOK'
  BY <1>2 DEF CaptureInv, CaptureTypeOK
<1>4. QED
  BY <1>2, <1>3 DEF CaptureInv, IsFrozen

-----------------------------------------------------------------------------
LEMMA InitCaptureInv == CaptureInit => CaptureInv
<1> SUFFICES ASSUME CaptureInit PROVE CaptureInv
  OBVIOUS
<1>1. CaptureTypeOK
  BY DEF CaptureInit, CaptureTypeOK, SomePlan
<1>2. DOMAIN file = {} /\ writer # "writing" /\ ended
  BY DEF CaptureInit
<1>3. QED
  BY <1>1, <1>2 DEF CaptureInv, MarkersAreEarned

\* A step that leaves the file alone, and does not begin a capture.
LEMMA SameFile ==
    ASSUME CaptureInv, UNCHANGED << file, ended, pass, prereg, under, grid >>,
           writer' \in {"idle", "done", writer}
    PROVE  CaptureInv'
<1>1. CaptureTypeOK'
  BY DEF CaptureInv, CaptureTypeOK
<1>2. QED
  BY <1>1 DEF CaptureInv, IsFrozen

\* Nothing legible is in the file before a plan is frozen.
LEMMA FreezeKeeps ==
    ASSUME CaptureInv, NEW plan \in Plans, Freeze(plan)
    PROVE  CaptureInv'
<1>1. prereg.digest = NoPlan /\ writer # "writing"
  BY DEF CaptureInv, Freeze, IsFrozen
<1>2. CaptureTypeOK'
  BY DEF CaptureInv, CaptureTypeOK, Freeze, SomePlan
<1>3. \A i \in DOMAIN file : Legible(file[i], prereg'.digest)
  BY <1>1 DEF CaptureInv, Legible
<1>4. UNCHANGED << file, ended, writer, pass >>
  BY DEF Freeze
<1>5. QED
  BY <1>1, <1>2, <1>3, <1>4 DEF CaptureInv

LEMMA EditKeeps ==
    ASSUME CaptureInv, NEW plan \in Plans, Edit(plan)
    PROVE  CaptureInv'
<1>1. CaptureTypeOK' /\ prereg'.digest = prereg.digest
  BY DEF CaptureInv, CaptureTypeOK, Edit, SomePlan
<1>2. UNCHANGED << file, ended, writer, pass, under >>
  BY DEF Edit
<1>3. QED
  BY <1>1, <1>2 DEF CaptureInv, IsFrozen

LEMMA BeginKeeps ==
    ASSUME CaptureInv, Begin
    PROVE  CaptureInv'
<1>1. pass \in Nat /\ pass' = pass + 1
  BY DEF CaptureInv, CaptureTypeOK, Begin
<1>2. CaptureTypeOK'
  BY <1>1, GridAssumption DEF CaptureInv, CaptureTypeOK, Begin, SomePlan
<1>3. IsFrozen' /\ under' = prereg'.digest /\ pass' \in 1 .. pass'
  BY <1>1 DEF Begin, Verified, IsFrozen
<1>4. \A n \in 1 .. pass : n \in 1 .. pass'
  BY <1>1
<1>5. UNCHANGED << file, ended, prereg >>
  BY DEF Begin
<1>6. Readable(file) => MarkersAreEarned(file, pass')
  BY <1>4 DEF CaptureInv, MarkersAreEarned
<1>7. QED
  BY <1>2, <1>3, <1>5, <1>6 DEF CaptureInv

\* A whole block is a piece.
LEMMA BlockIsPiece ==
    ASSUME CaptureTypeOK, Due # {}
    PROVE  Piece(Block(Next1))
<1> DEFINE block == Block(Next1)
<1>1. Next1 \in 1 .. Pairs
  BY NextIsDue
<1>2. /\ block \in Seq(Lines)
      /\ DOMAIN block = 1 .. Models + 1
      /\ \A m \in 1 .. Models : block[m] = Line(Next1, m, "outcome")
      /\ block[Models + 1] = Line(Next1, 0, "pair_done")
  BY <1>1, BlockLines
<1> HIDE DEF block
<1>3. /\ \A j \in 1 .. Models + 1 : j \in 1 .. Models \/ j = Models + 1
      /\ \A m \in 1 .. Models : m \in 0 .. Models /\ m \in 1 .. Models + 1
      /\ 0 \in 0 .. Models /\ Models + 1 \in 1 .. Models + 1
  BY GridAssumption
<1>4. \A j \in DOMAIN block : \E m \in 0 .. Models, kind \in {"outcome", "pair_done"} : block[j] = Line(Next1, m, kind)
  BY <1>2, <1>3
<1>5. \A m \in 1 .. Models : \E i \in DOMAIN block : block[i] = Line(Next1, m, "outcome")
  BY <1>2, <1>3
<1>6. block # << >>
  BY <1>2, <1>3
<1>7. QED
  BY <1>2, <1>4, <1>5, <1>6 DEF Piece, block

LEMMA CapturePairKeeps ==
    ASSUME CaptureInv, CapturePair
    PROVE  CaptureInv'
<1>1. Piece(Block(Next1))
  BY BlockIsPiece DEF CaptureInv, CapturePair
<1>2. QED
  BY <1>1, PieceKeeps DEF CapturePair

\* The first lines of a block, as many as there are models at the most.
LEMMA FirstLines ==
    ASSUME CaptureTypeOK, Due # {}, NEW n \in 0 .. Models
    PROVE  LET part == SubSeq(Block(Next1), 1, n) IN
           /\ part \in Seq(Lines) /\ Len(part) = n
           /\ \A j \in 1 .. n : j \in 1 .. Models /\ part[j] = Line(Next1, j, "outcome")
<1> DEFINE block == Block(Next1)
<1> DEFINE part == SubSeq(block, 1, n)
<1>1. Next1 \in 1 .. Pairs
  BY NextIsDue
<1>2. /\ block \in Seq(Lines)
      /\ DOMAIN block = 1 .. Models + 1
      /\ \A m \in 1 .. Models : block[m] = Line(Next1, m, "outcome") /\ block[m] \in Lines
  BY <1>1, BlockLines
<1>3. \A i \in 1 .. n : i \in 1 .. Models /\ i \in 1 .. Models + 1
  BY GridAssumption
<1>4. \A i \in 1 .. n : block[i] \in Lines
  BY <1>2, <1>3
<1>5. /\ part \in Seq(Lines)
      /\ Len(part) = IF 1 <= n THEN n - 1 + 1 ELSE 0
      /\ \A i \in 1 .. n - 1 + 1 : part[i] = block[1 + i - 1]
  BY <1>4, SubSeqProperties
<1>6. Len(part) = n
  BY <1>5, GridAssumption
<1>7. ASSUME NEW j \in 1 .. n
      PROVE  j \in 1 .. Models /\ part[j] = Line(Next1, j, "outcome")
  <2>1. j \in 1 .. n - 1 + 1 /\ 1 + j - 1 = j /\ j \in 1 .. Models
    BY GridAssumption
  <2>2. part[j] = block[j]
    BY <1>5, <2>1
  <2>3. QED
    BY <1>2, <2>1, <2>2
<1>8. QED
  BY <1>5, <1>6, <1>7

\* What a killed writer leaves of a pair is a piece: the first lines alone,
LEMMA FirstLinesArePiece ==
    ASSUME CaptureTypeOK, Due # {}, NEW n \in 1 .. Models
    PROVE  Piece(SubSeq(Block(Next1), 1, n))
<1> DEFINE part == SubSeq(Block(Next1), 1, n)
<1>1. n \in 0 .. Models /\ 1 \in 1 .. n
  BY GridAssumption
<1>2. /\ part \in Seq(Lines) /\ Len(part) = n
      /\ \A j \in 1 .. n : j \in 1 .. Models /\ part[j] = Line(Next1, j, "outcome")
  BY <1>1, FirstLines
<1> HIDE DEF part
<1>3. DOMAIN part = 1 .. n /\ part # << >>
  BY <1>1, <1>2
<1>4. \A m \in 1 .. Models : m \in 0 .. Models /\ Line(Next1, m, "outcome").kind # "pair_done"
  BY GridAssumption DEF Line
<1>5. QED
  BY <1>2, <1>3, <1>4 DEF Piece, part

\* or with what there is of the line after them.
LEMMA CutLinesArePiece ==
    ASSUME CaptureTypeOK, Due # {}, NEW n \in 0 .. Models, NEW cut \in {Torn, Block(Next1)[n + 1]}
    PROVE  Piece(SubSeq(Block(Next1), 1, n) \o << cut >>)
<1> DEFINE block == Block(Next1)
<1> DEFINE part == SubSeq(block, 1, n)
<1> DEFINE last == << cut >>
<1> DEFINE lines == part \o last
<1>1. /\ part \in Seq(Lines) /\ Len(part) = n
      /\ \A j \in 1 .. n : j \in 1 .. Models /\ part[j] = Line(Next1, j, "outcome")
  BY FirstLines
<1>2. Next1 \in 1 .. Pairs
  BY NextIsDue
<1>3. /\ DOMAIN block = 1 .. Models + 1
      /\ \A m \in 1 .. Models : block[m] = Line(Next1, m, "outcome")
      /\ block[Models + 1] = Line(Next1, 0, "pair_done")
  BY <1>2, BlockLines
<1>4. n \in Nat /\ (n = Models \/ n + 1 \in 1 .. Models) /\ n \in 0 .. Models
  BY GridAssumption
<1>5. \/ cut = Torn
      \/ n + 1 \in 1 .. Models /\ cut = Line(Next1, n + 1, "outcome")
      \/ n = Models /\ cut = Line(Next1, 0, "pair_done")
  <2>1. cut = Torn \/ cut = block[n + 1]
    OBVIOUS
  <2> HIDE DEF block
  <2>2. QED
    BY <1>3, <1>4, <2>1
<1>6. cut \in Lines
  <2>1. Torn \in Lines
    BY GridAssumption DEF Torn, Lines, SomePlan
  <2>2. ASSUME NEW m \in 0 .. Models, NEW kind \in {"outcome", "pair_done"} PROVE Line(Next1, m, kind) \in Lines
    BY <1>2, GridAssumption DEF Line, Lines, CaptureTypeOK
  <2>3. (n + 1 \in 1 .. Models => n + 1 \in 0 .. Models) /\ 0 \in 0 .. Models
    BY GridAssumption
  <2>4. QED
    BY <1>5, <2>1, <2>2, <2>3
<1>7. last \in Seq(Lines) /\ Len(last) = 1 /\ last[1] = cut
  BY <1>6
<1> HIDE DEF part, last, block
<1>8. /\ lines \in Seq(Lines)
      /\ Len(lines) = n + 1
      /\ \A i \in 1 .. n + 1 : lines[i] = IF i <= n THEN part[i] ELSE last[i - n]
  <2>1. Len(part \o last) = Len(part) + Len(last) /\ part \o last \in Seq(Lines)
    BY <1>1, <1>7, ConcatProperties
  <2>2. \A i \in 1 .. Len(part) + Len(last) :
            (part \o last)[i] = IF i <= Len(part) THEN part[i] ELSE last[i - Len(part)]
    BY <1>1, <1>7, ConcatProperties
  <2>3. QED
    BY <1>1, <1>7, <2>1, <2>2
<1> HIDE DEF lines
<1>9. DOMAIN lines = 1 .. n + 1 /\ lines # << >>
  BY <1>4, <1>8
<1>10. /\ \A i \in 1 .. n : i \in 1 .. n + 1 /\ lines[i] = Line(Next1, i, "outcome")
       /\ \A i \in 1 .. n + 1 : i \in 1 .. n \/ i = n + 1
  <2>1. \A i \in 1 .. n : i \in 1 .. n + 1 /\ i <= n
    BY <1>4
  <2>2. \A i \in 1 .. n + 1 : i \in 1 .. n \/ i = n + 1
    BY <1>4
  <2>3. QED
    BY <1>1, <1>8, <2>1, <2>2
<1>11. lines[n + 1] = cut
  <2>1. n + 1 \in 1 .. n + 1 /\ ~ (n + 1 <= n) /\ n + 1 - n = 1
    BY <1>4
  <2>2. lines[n + 1] = last[n + 1 - n]
    BY <1>8, <2>1
  <2>3. QED
    BY <1>7, <2>1, <2>2
<1>12. ASSUME NEW j \in DOMAIN lines
       PROVE  lines[j] = Torn \/ \E m \in 0 .. Models, kind \in {"outcome", "pair_done"} : lines[j] = Line(Next1, m, kind)
  <2>1. (\A m \in 1 .. Models : m \in 0 .. Models) /\ 0 \in 0 .. Models
    BY GridAssumption
  <2>2. CASE j \in 1 .. n
    BY <1>1, <1>10, <2>1, <2>2
  <2>3. CASE j = n + 1
    BY <1>5, <1>11, <2>1, <2>3
  <2>4. QED
    BY <1>9, <1>10, <2>2, <2>3
<1>13. ASSUME NEW j \in DOMAIN lines, lines[j].kind = "pair_done"
       PROVE  \A m \in 1 .. Models : \E i \in DOMAIN lines : lines[i] = Line(Next1, m, "outcome")
  <2>1. Torn.kind # "pair_done" /\ \A m : Line(Next1, m, "outcome").kind # "pair_done"
    BY DEF Torn, Line
  <2>2. j = n + 1
    BY <1>9, <1>10, <1>13, <2>1
  <2>3. n = Models
    BY <1>5, <1>11, <1>13, <2>1, <2>2
  <2>4. QED
    BY <1>9, <1>10, <2>3
<1>14. Piece(lines)
  BY <1>8, <1>9, <1>12, <1>13 DEF Piece
<1>15. QED
  BY <1>14 DEF lines, part, last, block

LEMMA KillKeeps ==
    ASSUME CaptureInv, Kill
    PROVE  CaptureInv'
<1>1. /\ writer = "writing" /\ writer' = "idle" /\ CaptureTypeOK
      /\ UNCHANGED << prereg, grid, pass, under >>
  BY DEF Kill, CaptureInv
<1>2. CASE UNCHANGED << file, ended >>
  BY <1>1, <1>2, SameFile
<1>3. CASE Due # {} /\ \E n \in 0 .. Models : Flushed(n)
  <2>1. PICK n \in 0 .. Models : Flushed(n)
    BY <1>3
  <2>2. PICK lines : Piece(lines) /\ file' = Appended(lines)
    <3>1. CASE n > 0 /\ file' = Appended(SubSeq(Block(Next1), 1, n))
      <4>1. n \in 1 .. Models
        BY <3>1, GridAssumption
      <4>2. QED
        BY <1>1, <1>3, <3>1, <4>1, FirstLinesArePiece
    <3>2. CASE \E cut \in {Torn, Block(Next1)[n + 1]} : file' = Appended(SubSeq(Block(Next1), 1, n) \o << cut >>)
      BY <1>1, <1>3, <3>2, CutLinesArePiece
    <3>3. QED
      BY <2>1, <3>1, <3>2 DEF Flushed
  <2>3. QED
    BY <1>1, <2>2, PieceKeeps
<1>4. QED
  BY <1>2, <1>3 DEF Kill

LEMMA NextCaptureInv ==
    ASSUME CaptureInv, [CaptureNext]_captureVars
    PROVE  CaptureInv'
<1>1. ASSUME NEW plan \in Plans, Freeze(plan) \/ Edit(plan) PROVE CaptureInv'
  BY <1>1, FreezeKeeps, EditKeeps
<1>2. CASE Begin
  BY <1>2, BeginKeeps
<1>3. CASE CapturePair
  BY <1>3, CapturePairKeeps
<1>4. CASE Finish \/ Abort
  BY <1>4, SameFile DEF Finish, Abort
<1>5. CASE Kill
  BY <1>5, KillKeeps
<1>6. CASE UNCHANGED captureVars
  BY <1>6, SameFile DEF captureVars
<1>7. QED
  BY <1>1, <1>2, <1>3, <1>4, <1>5, <1>6 DEF CaptureNext

\* Every line that can be read was captured while the pre-registration verified,
\* however often it is edited between captures and whichever grids the captures
\* were asked for (cli/experiment.py, capture).
THEOREM CapturedUnderFrozenPlan == CaptureSpec => []OneFrozenPlan
<1>1. CaptureInv => OneFrozenPlan
  BY DEF CaptureInv, Legible, OneFrozenPlan, IsFrozen
<1>2. CaptureInv /\ [CaptureNext]_captureVars => CaptureInv'
  BY NextCaptureInv
<1>3. QED
  BY <1>1, <1>2, InitCaptureInv, PTL DEF CaptureSpec

\* A pair that the harness's next capture skips has a line of every model from
\* one pass, wherever the harness's writers before it were killed, be it inside
\* a line or between a line and its newline (harness.py, _done).
THEOREM SkippedOnlyWhenWhole == CaptureSpec => []SkippedPairsAreWhole
<1>1. CaptureInv => SkippedPairsAreWhole
  <2> SUFFICES ASSUME CaptureInv, Readable(file), NEW p \in Captured(file)
               PROVE  \E n \in 1 .. pass : Whole(file, p, n)
    BY DEF SkippedPairsAreWhole
  <2>1. PICK i \in DOMAIN file : file[i].kind = "pair_done" /\ file[i].pair = p
    BY DEF Captured
  <2>2. QED
    BY <2>1 DEF CaptureInv, MarkersAreEarned
<1>2. CaptureInv /\ [CaptureNext]_captureVars => CaptureInv'
  BY NextCaptureInv
<1>3. QED
  BY <1>1, <1>2, InitCaptureInv, PTL DEF CaptureSpec

-----------------------------------------------------------------------------
(* What two databases agree on.                                              *)

\* The prices and features there are, each a series.
Proper(db) ==
    /\ \A s \in DOMAIN db.price : IsSeries(db.price[s])
    /\ \A key \in DOMAIN db.feature : IsSeries(db.feature[key])
    /\ \A s \in DOMAIN db.price : db.etf[s] \in DOMAIN db.price \cup {Absent}
    /\ "SPY" \in DOMAIN db.price

Agree(a, b, last) ==
    /\ a.etf = b.etf /\ DOMAIN a.price = DOMAIN b.price /\ DOMAIN a.feature = DOMAIN b.feature
    /\ \A s \in DOMAIN a.price : Through(a.price[s], last) = Through(b.price[s], last)
    /\ \A key \in DOMAIN a.feature : Through(a.feature[key], last) = Through(b.feature[key], last)

LEMMA ThroughIs ==
    ASSUME NEW series, NEW last
    PROVE  /\ DOMAIN Through(series, last) = { d \in DOMAIN series : d <= last }
           /\ \A d \in DOMAIN Through(series, last) : Through(series, last)[d] = series[d]
           /\ Through(series, last) = [ d \in DOMAIN Through(series, last) |-> series[d] ]
  BY DEF Through, Restrict

LEMMA ThroughTwice ==
    ASSUME NEW series, IsSeries(series), NEW day \in Int, NEW last \in Int, last <= day
    PROVE  Through(Through(series, day), last) = Through(series, last)
<1>1. { d \in DOMAIN Through(series, day) : d <= last } = { d \in DOMAIN series : d <= last }
  <2>1. DOMAIN Through(series, day) = { d \in DOMAIN series : d <= day }
    BY ThroughIs
  <2>2. QED
    BY <2>1 DEF IsSeries
<1>2. \A d \in { e \in DOMAIN series : e <= last } : Through(series, day)[d] = series[d]
  <2>1. { e \in DOMAIN series : e <= last } \subseteq DOMAIN Through(series, day)
    BY <1>1
  <2>2. \A d \in DOMAIN Through(series, day) : Through(series, day)[d] = series[d]
    BY ThroughIs
  <2>3. QED
    BY <2>1, <2>2
<1>3. Through(series, last) = [ d \in { e \in DOMAIN series : e <= last } |-> series[d] ]
  BY DEF Through, Restrict
<1>4. Through(Through(series, day), last) =
         [ d \in { e \in DOMAIN Through(series, day) : e <= last } |-> Through(series, day)[d] ]
  BY DEF Through, Restrict
<1>5. QED
  BY <1>1, <1>2, <1>3, <1>4

LEMMA ThroughIsSeries ==
    ASSUME NEW series, IsSeries(series), NEW last PROVE IsSeries(Through(series, last))
<1>1. DOMAIN Through(series, last) \subseteq DOMAIN series
  BY DEF Through, Restrict
<1>2. QED
  BY <1>1, FS_Subset DEF IsSeries

LEMMA StoredIs ==
    ASSUME NEW history \in Tapes, NEW day
    PROVE  LET db == Stored(history, day)
           IN  /\ db.etf = history.etf
               /\ DOMAIN db.price = DOMAIN history.price /\ DOMAIN db.feature = DOMAIN history.feature
               /\ \A s \in DOMAIN history.price : db.price[s] = Through(history.price[s], day)
               /\ \A key \in DOMAIN history.feature : db.feature[key] = Through(history.feature[key], day)
  BY TapesAssumption DEF Stored

LEMMA StoredIsProper == ASSUME NEW history \in Tapes, NEW day PROVE Proper(Stored(history, day))
<1>1. \A s \in DOMAIN history.price : IsSeries(Through(history.price[s], day))
  BY TapesAssumption, ThroughIsSeries
<1>2. \A key \in DOMAIN history.feature : IsSeries(Through(history.feature[key], day))
  BY TapesAssumption, ThroughIsSeries
<1>3. QED
  BY <1>1, <1>2, StoredIs, TapesAssumption DEF Proper

\* Two evenings agree on what was known on the earlier one.
LEMMA EveningsAgree ==
    ASSUME NEW history \in Tapes, NEW early \in Int, NEW late \in Int, early <= late
    PROVE  Agree(Stored(history, early), Stored(history, late), early)
<1>1. \A s \in DOMAIN history.price :
         Through(Through(history.price[s], early), early) = Through(Through(history.price[s], late), early)
  BY TapesAssumption, ThroughTwice
<1>2. \A key \in DOMAIN history.feature :
         Through(Through(history.feature[key], early), early) = Through(Through(history.feature[key], late), early)
  BY TapesAssumption, ThroughTwice
<1>3. QED
  BY <1>1, <1>2, StoredIs DEF Agree

LEMMA AgreeBefore ==
    ASSUME NEW a, NEW b, Proper(a), Proper(b), NEW last \in Int, Agree(a, b, last),
           NEW sooner \in Int, sooner <= last
    PROVE  Agree(a, b, sooner)
<1>1. \A s \in DOMAIN a.price : Through(a.price[s], sooner) = Through(b.price[s], sooner)
  <2> TAKE s \in DOMAIN a.price
  <2>1. /\ Through(a.price[s], sooner) = Through(Through(a.price[s], last), sooner)
        /\ Through(b.price[s], sooner) = Through(Through(b.price[s], last), sooner)
    BY ThroughTwice DEF Proper, Agree
  <2>2. QED
    BY <2>1 DEF Agree
<1>2. \A key \in DOMAIN a.feature : Through(a.feature[key], sooner) = Through(b.feature[key], sooner)
  <2> TAKE key \in DOMAIN a.feature
  <2>1. /\ Through(a.feature[key], sooner) = Through(Through(a.feature[key], last), sooner)
        /\ Through(b.feature[key], sooner) = Through(Through(b.feature[key], last), sooner)
    BY ThroughTwice DEF Proper, Agree
  <2>2. QED
    BY <2>1 DEF Agree
<1>3. QED
  BY <1>1, <1>2 DEF Agree

LEMMA SameObservable ==
    ASSUME NEW a, NEW b, NEW last, Agree(a, b, last), NEW s \in DOMAIN a.price
    PROVE  Observable(a, s, last) = Observable(b, s, last)
  BY DEF Agree, Observable

LEMMA SameValues ==
    ASSUME NEW a, NEW b, NEW last, Agree(a, b, last), NEW name, NEW subject
    PROVE  Through(Values(a, name, subject), last) = Through(Values(b, name, subject), last)
  BY DEF Agree, Values

\* Series that are the same until last have the same values there.
LEMMA SameUntil ==
    ASSUME NEW x, NEW y, NEW last, Through(x, last) = Through(y, last)
    PROVE  \A d : d <= last => /\ d \in DOMAIN x <=> d \in DOMAIN y
                               /\ d \in DOMAIN x => x[d] = y[d]
<1> TAKE d
<1> SUFFICES ASSUME d <= last
             PROVE  /\ d \in DOMAIN x <=> d \in DOMAIN y
                    /\ d \in DOMAIN x => x[d] = y[d]
  OBVIOUS
<1>1. \A z : d \in DOMAIN z <=> d \in DOMAIN Through(z, last)
  BY DEF Through, Restrict
<1>2. \A z : d \in DOMAIN z => Through(z, last)[d] = z[d]
  BY DEF Through, Restrict
<1>3. QED
  BY <1>1, <1>2

-----------------------------------------------------------------------------
(* The momentum model.                                                       *)

LEMMA SameFilterValues ==
    ASSUME NEW a, NEW b, NEW last, Agree(a, b, last), NEW filter, NEW symbol
    PROVE  Through(FilterValues(a, filter, symbol), last) = Through(FilterValues(b, filter, symbol), last)
  BY SameValues DEF FilterValues

StudyOf(prices, eligible, matching) ==
    [ h \in Lengths |-> [ events   |-> { << d, ForwardReturn(prices, d, h) >> : d \in Episodes(eligible, matching) },
                          baseline |-> { << d, ForwardReturn(prices, d, h) >> : d \in eligible } ] ]

LEMMA SameStudy ==
    ASSUME NEW a, NEW b, NEW last, Agree(a, b, last), NEW symbol \in DOMAIN a.price, NEW filters
    PROVE  Study(a, symbol, filters, last) = Study(b, symbol, filters, last)
<1> DEFINE prices(db) == Observable(db, symbol, last)
           eligible(db) == { d \in DOMAIN prices(db) : d <= last /\ \A f \in filters : d \in DOMAIN FilterValues(db, f, symbol) }
           matching(db) == { d \in eligible(db) : \A f \in filters : Satisfies(f, FilterValues(db, f, symbol)[d]) }
<1>1. prices(a) = prices(b)
  BY SameObservable
<1>2. \A d, f : d <= last => /\ d \in DOMAIN FilterValues(a, f, symbol) <=> d \in DOMAIN FilterValues(b, f, symbol)
                             /\ d \in DOMAIN FilterValues(a, f, symbol) =>
                                  FilterValues(a, f, symbol)[d] = FilterValues(b, f, symbol)[d]
  BY SameFilterValues, SameUntil
<1>3. eligible(a) = eligible(b)
  BY <1>1, <1>2
<1>4. \A d \in eligible(a) : d <= last /\ \A f \in filters : d \in DOMAIN FilterValues(a, f, symbol)
  OBVIOUS
<1>5. matching(a) = matching(b)
  <2> HIDE DEF prices
  <2>1. \A d \in eligible(a), f \in filters : FilterValues(a, f, symbol)[d] = FilterValues(b, f, symbol)[d]
    BY <1>2, <1>4
  <2> HIDE DEF eligible
  <2>2. QED
    BY <1>3, <2>1
<1> HIDE DEF prices, eligible, matching
<1>6. \A db : Study(db, symbol, filters, last) = StudyOf(prices(db), eligible(db), matching(db))
  BY DEF Study, StudyOf, prices, eligible, matching
<1>7. QED
  BY <1>1, <1>3, <1>5, <1>6

LEMMA SameThreshold ==
    ASSUME NEW a, NEW b, NEW last, Agree(a, b, last), NEW symbol, NEW condition
    PROVE  Threshold(a, symbol, last, condition) = Threshold(b, symbol, last, condition)
<1>1. Through(Values(a, condition.feature, symbol), last) = Through(Values(b, condition.feature, symbol), last)
  BY SameValues
<1>2. QED
  BY <1>1 DEF Threshold

LEMMA SameFilters ==
    ASSUME NEW a, NEW b, NEW last, Agree(a, b, last), NEW symbol, NEW candidate
    PROVE  AsFilters(a, symbol, last, candidate) = AsFilters(b, symbol, last, candidate)
<1>1. \A c : Threshold(a, symbol, last, c) = Threshold(b, symbol, last, c)
  BY SameThreshold
<1>2. a.etf = b.etf
  BY DEF Agree
<1>3. QED
  BY <1>1, <1>2 DEF AsFilters

LEMMA SameRegimes ==
    ASSUME NEW a, NEW b, NEW last, Agree(a, b, last), NEW symbol
    PROVE  ActiveRegimes(a, symbol, last) = ActiveRegimes(b, symbol, last)
<1> DEFINE Holds(db, candidate) ==
               \A f \in AsFilters(db, symbol, last, candidate) :
                   LET value == LastValue(Through(FilterValues(db, f, symbol), last))
                   IN  f.value # Absent /\ value # Absent /\ Satisfies(f, value)
           First(db, family) == { i \in DOMAIN family : Holds(db, family[i]) /\ \A j \in 1 .. i - 1 : ~ Holds(db, family[j]) }
<1>1. \A candidate : Holds(a, candidate) <=> Holds(b, candidate)
  BY SameFilters, SameFilterValues
<1> HIDE DEF Holds
<1>2. \A family : First(a, family) = First(b, family)
  BY <1>1
<1> HIDE DEF First
<1>3. \A candidate : AsFilters(a, symbol, last, candidate) = AsFilters(b, symbol, last, candidate)
  BY SameFilters
<1> DEFINE Picked(db, family) == { AsFilters(db, symbol, last, family[i]) : i \in First(db, family) }
           families(db) == RegimeFamilies(db.etf[symbol])
           All(db) == { Picked(db, families(db)[k]) : k \in DOMAIN families(db) }
<1>4. \A family : Picked(a, family) = Picked(b, family)
  BY <1>2, <1>3
<1>5. families(a) = families(b)
  BY DEF Agree
<1>6. \A db : ActiveRegimes(db, symbol, last) = UNION All(db)
  BY DEF ActiveRegimes, First, Holds
<1> HIDE DEF Picked, families
<1>7. All(a) = All(b)
  BY <1>4, <1>5
<1> HIDE DEF All
<1>8. QED
  BY <1>6, <1>7

LEMMA SameMomentum ==
    ASSUME NEW a, NEW b, NEW last, Agree(a, b, last), NEW symbol \in DOMAIN a.price
    PROVE  Momentum(a, symbol, last) = Momentum(b, symbol, last)
<1>1. ActiveRegimes(a, symbol, last) = ActiveRegimes(b, symbol, last)
  BY SameRegimes
<1>2. \A r : Study(a, symbol, r, last) = Study(b, symbol, r, last)
  BY SameStudy
<1>3. QED
  BY <1>1, <1>2 DEF Momentum

-----------------------------------------------------------------------------
(* The conditional engine.                                                   *)

LEMMA SamePort ==
    ASSUME NEW a, NEW b, NEW last, Agree(a, b, last), NEW feature, NEW on, NEW symbol
    PROVE  PortSeries(a, feature, on, symbol, last) = PortSeries(b, feature, on, symbol, last)
<1> DEFINE subject(etf) == CASE on = "market" -> "market" [] on = "self" -> symbol [] on = "sector_etf" -> etf[symbol]
           port(db, x) == IF x = Absent THEN EmptySeries ELSE Through(Values(db, feature, x), last)
<1>1. \A x : port(a, x) = port(b, x)
  BY SameValues
<1>2. a.etf = b.etf
  BY DEF Agree
<1> HIDE DEF subject, port
<1>3. \A db : PortSeries(db, feature, on, symbol, last) = port(db, subject(db.etf))
  BY DEF PortSeries, port, subject
<1>4. QED
  BY <1>1, <1>2, <1>3

LEMMA SameQuantile ==
    ASSUME NEW a, NEW b, NEW last, Agree(a, b, last), NEW c, NEW symbol
    PROVE  OwnQuantile(a, c, symbol, last) = OwnQuantile(b, c, symbol, last)
  BY SamePort DEF OwnQuantile

\* What a template makes of the last value and the two quantiles.
ConditionOf(t, current, high, low) ==
    LET template == Templates[t]
    IN  IF current = Absent THEN {}
        ELSE CASE template.mode = "market_flag" -> {Fixed(t, "==", IF 2 * current >= 1 THEN 10 ELSE 0)}
               [] template.mode = "market_bucket" ->
                    IF current >= HighPct THEN {Fixed(t, ">=", 10 * HighPct)}
                    ELSE IF current <= LowPct THEN {Fixed(t, "<=", 10 * LowPct)} ELSE {}
               [] template.mode = "market_direction" ->
                    {Fixed(t, ">", 0) : x \in {y \in {1} : current > template.band}}
                    \cup {Fixed(t, "<", 0) : x \in {y \in {1} : current < -template.band}}
               [] template.mode = "structural" -> {Fixed(t, IF current >= 0 THEN ">=" ELSE "<", 0)}
               [] template.mode = "self_bucket" ->
                    IF high = Absent THEN {}
                    ELSE IF 10 * current >= high THEN {OwnTenths(t, ">=", HighPct)}
                    ELSE IF 10 * current <= low THEN {OwnTenths(t, "<=", LowPct)}
                    ELSE {}
               [] template.mode = "catalyst_window" ->
                    IF current > CatalystMax THEN {} ELSE {Fixed(t, "<=", 10 * CatalystMax)}

LEMMA SameConditions ==
    ASSUME NEW a, NEW b, NEW last, Agree(a, b, last), NEW symbol
    PROVE  ActiveConditions(a, symbol, last) = ActiveConditions(b, symbol, last)
<1> DEFINE current(db, t) == LastValue(PortSeries(db, Templates[t].feature, Templates[t].on, symbol, last))
           tenth(db, t, tenths) == OwnQuantile(db, OwnTenths(t, ">=", tenths), symbol, last)
           All(db) == { Resolve(db, t, symbol, last) : t \in DOMAIN Templates }
<1>1. \A t : current(a, t) = current(b, t)
  BY SamePort
<1>2. \A t, tenths : tenth(a, t, tenths) = tenth(b, t, tenths)
  BY SameQuantile
<1>3. \A db, t : Resolve(db, t, symbol, last) = ConditionOf(t, current(db, t), tenth(db, t, HighPct), tenth(db, t, LowPct))
  BY DEF Resolve, ConditionOf
<1> HIDE DEF current, tenth
<1>4. \A t : Resolve(a, t, symbol, last) = Resolve(b, t, symbol, last)
  BY <1>1, <1>2, <1>3
<1>5. All(a) = All(b)
  BY <1>4
<1>6. \A db : ActiveConditions(db, symbol, last) = UNION All(db)
  BY DEF ActiveConditions
<1> HIDE DEF All
<1>7. QED
  BY <1>5, <1>6

LEMMA SameMasks ==
    ASSUME NEW a, NEW b, NEW last, Agree(a, b, last), NEW symbol \in DOMAIN a.price, NEW conditions
    PROVE  Masks(a, symbol, conditions, last) = Masks(b, symbol, conditions, last)
<1> DEFINE series(db, c) == PortSeries(db, c.feature, c.on, symbol, last)
           bar(db, c) == ConditionThreshold(db, c, symbol, last)
           filter(db, c) == [ op |-> c.op, value |-> bar(db, c) ]
           eligible(db) == { d \in DOMAIN Observable(db, symbol, last) : \A c \in conditions : d \in DOMAIN series(db, c) }
           matching(db) == { d \in eligible(db) : \A c \in conditions : Satisfies(filter(db, c), series(db, c)[d]) }
<1>1. \A c : series(a, c) = series(b, c)
  BY SamePort
<1>2. \A c : bar(a, c) = bar(b, c)
  BY SameQuantile DEF ConditionThreshold
<1>3. Observable(a, symbol, last) = Observable(b, symbol, last)
  BY SameObservable
<1> HIDE DEF series, bar
<1>4. \A c : filter(a, c) = filter(b, c)
  BY <1>2
<1>5. eligible(a) = eligible(b)
  BY <1>1, <1>3
<1> HIDE DEF eligible, filter
<1>6. matching(a) = matching(b)
  BY <1>1, <1>4, <1>5
<1>7. (\E c \in conditions : bar(a, c) = Absent) <=> (\E c \in conditions : bar(b, c) = Absent)
  BY <1>2
<1> HIDE DEF matching
<1>8. \A db : Masks(db, symbol, conditions, last) =
         IF \E c \in conditions : bar(db, c) = Absent
         THEN [ eligible |-> {}, matching |-> {} ] ELSE [ eligible |-> eligible(db), matching |-> matching(db) ]
  BY DEF Masks, bar, eligible, matching, filter, series
<1>9. QED
  BY <1>5, <1>6, <1>7, <1>8

\* What the masks of all instruments make together.
MatchOf(masks) ==
    [ conditional |-> UNION { {s} \X Episodes(masks[s].eligible, masks[s].matching) : s \in DOMAIN masks },
      baseline    |-> UNION { {s} \X masks[s].eligible : s \in DOMAIN masks } ]

LEMMA SameMatch ==
    ASSUME NEW a, NEW b, NEW last, Agree(a, b, last), NEW conditions
    PROVE  Match(a, conditions, last) = Match(b, conditions, last)
<1> DEFINE masks(db) == [ s \in DOMAIN db.price |-> Masks(db, s, conditions, last) ]
<1>1. DOMAIN a.price = DOMAIN b.price
  BY DEF Agree
<1>2. \A s \in DOMAIN a.price : Masks(a, s, conditions, last) = Masks(b, s, conditions, last)
  BY SameMasks
<1>3. masks(a) = masks(b)
  BY <1>1, <1>2
<1>4. \A db : Match(db, conditions, last) = MatchOf(masks(db))
  BY DEF Match, MatchOf
<1> HIDE DEF masks
<1>5. QED
  BY <1>3, <1>4

LEMMA MatchesAreOfInstruments ==
    ASSUME NEW db, NEW conditions, NEW last, NEW set \in {"conditional", "baseline"},
           NEW p \in Match(db, conditions, last)[set]
    PROVE  p[1] \in DOMAIN db.price
<1> DEFINE masks == [ s \in DOMAIN db.price |-> Masks(db, s, conditions, last) ]
<1>1. Match(db, conditions, last) = MatchOf(masks) /\ DOMAIN masks = DOMAIN db.price
  BY DEF Match, MatchOf
<1> HIDE DEF masks
<1>2. CASE set = "conditional"
  <2>1. PICK s \in DOMAIN masks : p \in {s} \X Episodes(masks[s].eligible, masks[s].matching)
    BY <1>1, <1>2 DEF MatchOf
  <2>2. QED
    BY <1>1, <2>1
<1>3. CASE set = "baseline"
  <2>1. PICK s \in DOMAIN masks : p \in {s} \X masks[s].eligible
    BY <1>1, <1>3 DEF MatchOf
  <2>2. QED
    BY <1>1, <2>1
<1>4. QED
  BY <1>2, <1>3

LEMMA SameRung ==
    ASSUME NEW a, NEW b, NEW last, Agree(a, b, last), NEW active
    PROVE  Rung(a, active, last) = Rung(b, active, last)
<1>1. \A conditions : Match(a, conditions, last) = Match(b, conditions, last)
  BY SameMatch
<1>2. \A conditions : Supports(a, conditions, last) <=> Supports(b, conditions, last)
  BY <1>1 DEF Supports
<1> DEFINE rungs(db) == { i \in DOMAIN Ladder : Supports(db, Gather(active, Ladder[i]), last) }
<1>3. rungs(a) = rungs(b)
  BY <1>2
<1>4. \A db : Rung(db, active, last) = MinOrZero(rungs(db))
  BY DEF Rung
<1> HIDE DEF rungs
<1>5. QED
  BY <1>3, <1>4

LEMMA SameForward ==
    ASSUME NEW a, NEW b, NEW last, Agree(a, b, last), NEW symbol \in DOMAIN a.price, NEW d, NEW h
    PROVE  ReturnOn(a, NoMemory, symbol, d, h, last) = ReturnOn(b, NoMemory, symbol, d, h, last)
<1>1. Observable(a, symbol, last) = Observable(b, symbol, last)
  BY SameObservable
<1>2. << symbol, h >> \notin DOMAIN NoMemory
  BY DEF NoMemory
<1>3. QED
  BY <1>1, <1>2 DEF ReturnOn, ForwardSeries

LEMMA SamePool ==
    ASSUME NEW a, NEW b, NEW last, Proper(a), Agree(a, b, last),
           NEW pairs, \A p \in pairs : p[1] \in DOMAIN a.price, NEW h
    PROVE  Pooled(a, NoMemory, pairs, h, last) = Pooled(b, NoMemory, pairs, h, last)
<1> DEFINE own(db, p) == ReturnOn(db, NoMemory, p[1], p[2], h, last)
           of(db, s, p) == IF s = Absent THEN Absent ELSE ReturnOn(db, NoMemory, s, p[2], h, last)
           row(db, p) == << p, own(db, p), of(db, "SPY", p), of(db, db.etf[p[1]], p) >>
           kept(db) == { p \in pairs : own(db, p) # Absent }
           rows(db) == { row(db, p) : p \in kept(db) }
<1>1. \A p \in pairs : own(a, p) = own(b, p)
  BY SameForward
<1>2. \A s \in DOMAIN a.price \cup {Absent}, p \in pairs : of(a, s, p) = of(b, s, p)
  BY SameForward
<1>3. \A p \in pairs : {"SPY", a.etf[p[1]]} \subseteq DOMAIN a.price \cup {Absent} /\ a.etf[p[1]] = b.etf[p[1]]
  BY DEF Proper, Agree
<1>4. \A db : rows(db) = Pooled(db, NoMemory, pairs, h, last)
  BY DEF Pooled
<1> HIDE DEF own, of
<1>5. \A p \in pairs : row(a, p) = row(b, p)
  BY <1>1, <1>2, <1>3
<1>6. kept(a) = kept(b) /\ kept(a) \subseteq pairs
  BY <1>1
<1> HIDE DEF row, kept
<1>7. rows(a) = rows(b)
  BY <1>5, <1>6
<1>8. QED
  BY <1>4, <1>7 DEF rows, kept, row, own, of

Sets == {"conditional", "baseline"}

\* What the engine answers of a match on a rung.
OddsWith(db, memory, last, rung, match) ==
    [ asOf |-> last, rung |-> rung, match |-> match.conditional,
      outcomes |-> [ h \in Lengths |-> [ set \in Sets |-> Pooled(db, memory, match[set], h, last) ] ] ]

LEMMA OddsParts ==
    ASSUME NEW db, NEW memory, NEW last, NEW active
    PROVE  LET rung == Rung(db, active, last)
           IN  OddsGiven(db, memory, last, active).result =
                  IF rung = 0 THEN NoOdds(last)
                  ELSE OddsWith(db, memory, last, rung, Match(db, Gather(active, Ladder[rung]), last))
<1> DEFINE rung == Rung(db, active, last)
           match == Match(db, Gather(active, Ladder[rung]), last)
<1>1. DOMAIN match = Sets
  BY DEF Match, Sets
<1> HIDE DEF rung, match
<1>2. OddsOf(db, memory, last, rung, match).result = OddsWith(db, memory, last, rung, match)
  BY <1>1 DEF OddsOf, OddsWith
<1>3. OddsGiven(db, memory, last, active) =
         IF rung = 0 THEN [ result |-> NoOdds(last), memory |-> memory ] ELSE OddsOf(db, memory, last, rung, match)
  BY DEF OddsGiven, OddsAt, rung, match
<1>4. QED
  BY <1>2, <1>3 DEF rung, match

LEMMA SameOdds ==
    ASSUME NEW a, NEW b, NEW last, Proper(a), Agree(a, b, last), NEW active
    PROVE  OddsGiven(a, NoMemory, last, active).result = OddsGiven(b, NoMemory, last, active).result
<1> DEFINE rung(db) == Rung(db, active, last)
           match(db) == Match(db, Gather(active, Ladder[rung(db)]), last)
           pooled(db) == [ h \in Lengths |-> [ set \in Sets |-> Pooled(db, NoMemory, match(db)[set], h, last) ] ]
<1>1. rung(a) = rung(b)
  BY SameRung
<1>2. match(a) = match(b)
  BY <1>1, SameMatch
<1>3. \A set \in Sets : \A p \in match(a)[set] : p[1] \in DOMAIN a.price
  BY MatchesAreOfInstruments DEF Sets
<1> HIDE DEF rung, match
<1>4. \A h \in Lengths, set \in Sets :
         Pooled(a, NoMemory, match(a)[set], h, last) = Pooled(b, NoMemory, match(b)[set], h, last)
  <2> TAKE h \in Lengths, set \in Sets
  <2> DEFINE pairs == match(a)[set]
  <2>1. \A p \in pairs : p[1] \in DOMAIN a.price
    BY <1>3
  <2>2. match(b)[set] = pairs
    BY <1>2
  <2> HIDE DEF pairs
  <2>3. Pooled(a, NoMemory, pairs, h, last) = Pooled(b, NoMemory, pairs, h, last)
    BY <2>1, SamePool
  <2>4. QED
    BY <2>2, <2>3 DEF pairs
<1>5. pooled(a) = pooled(b)
  <2> DEFINE both(db, h) == [ set \in Sets |-> Pooled(db, NoMemory, match(db)[set], h, last) ]
  <2>1. \A h \in Lengths : both(a, h) = both(b, h)
    <3> TAKE h \in Lengths
    <3>1. \A set \in Sets :
             Pooled(a, NoMemory, match(a)[set], h, last) = Pooled(b, NoMemory, match(b)[set], h, last)
      BY <1>4
    <3>2. QED
      BY <3>1
  <2> HIDE DEF both
  <2>2. [ h \in Lengths |-> both(a, h) ] = [ h \in Lengths |-> both(b, h) ]
    BY <2>1
  <2>3. QED
    BY <2>2 DEF both
<1> HIDE DEF pooled
<1>6. \A db : OddsGiven(db, NoMemory, last, active).result =
         IF rung(db) = 0 THEN NoOdds(last)
         ELSE [ asOf |-> last, rung |-> rung(db), match |-> match(db).conditional, outcomes |-> pooled(db) ]
  BY OddsParts DEF rung, match, pooled, OddsWith
<1>7. QED
  BY <1>1, <1>2, <1>5, <1>6

\* Whatever the engine remembers, its matches are the same.
LEMMA SameMatches ==
    ASSUME NEW a, NEW b, NEW last, Agree(a, b, last), NEW active, NEW memory
    PROVE  LET x == OddsGiven(a, NoMemory, last, active).result
               y == OddsGiven(b, memory, last, active).result
           IN  x.asOf = y.asOf /\ x.rung = y.rung /\ x.match = y.match
<1> DEFINE rung(db) == Rung(db, active, last)
           match(db) == Match(db, Gather(active, Ladder[rung(db)]), last)
<1>1. rung(a) = rung(b)
  BY SameRung
<1>2. match(a) = match(b)
  BY <1>1, SameMatch
<1>3. \A db, m : OddsGiven(db, m, last, active).result =
         IF rung(db) = 0 THEN NoOdds(last) ELSE OddsWith(db, m, last, rung(db), match(db))
  BY OddsParts DEF rung, match
<1> HIDE DEF rung, match
<1> DEFINE x == OddsGiven(a, NoMemory, last, active).result
           y == OddsGiven(b, memory, last, active).result
<1>4. CASE rung(a) = 0
  <2>1. x = NoOdds(last) /\ y = NoOdds(last)
    BY <1>1, <1>3, <1>4
  <2>2. QED
    BY <2>1
<1>5. CASE rung(a) # 0
  <2>1. /\ x = OddsWith(a, NoMemory, last, rung(a), match(a))
        /\ y = OddsWith(b, memory, last, rung(a), match(a))
    BY <1>1, <1>2, <1>3, <1>5
  <2> HIDE DEF x, y
  <2>2. x.asOf = last /\ x.rung = rung(a) /\ x.match = match(a).conditional
    BY <2>1 DEF OddsWith
  <2>3. y.asOf = last /\ y.rung = rung(a) /\ y.match = match(a).conditional
    BY <2>1 DEF OddsWith
  <2>4. QED
    BY <2>2, <2>3 DEF x, y
<1>6. QED
  BY <1>4, <1>5

LEMMA LastIsOfSeries ==
    ASSUME NEW series, IsSeries(series), NEW asOf \in Int, DOMAIN Through(series, asOf) # {}
    PROVE  /\ LastDay(Through(series, asOf)) \in DOMAIN series
           /\ LastDay(Through(series, asOf)) \in Int /\ LastDay(Through(series, asOf)) <= asOf
<1> DEFINE S == DOMAIN Through(series, asOf)
<1>1. S = { d \in DOMAIN series : d <= asOf }
  BY ThroughIs
<1>2. IsFiniteSet(S) /\ S \subseteq Int
  BY ThroughIsSeries DEF IsSeries
<1>3. Max(S) \in S
  <2>1. S # {}
    OBVIOUS
  <2> HIDE DEF S
  <2>2. QED
    BY <1>2, <2>1, HasMax
<1> HIDE DEF S
<1>4. QED
  BY <1>1, <1>2, <1>3 DEF LastDay, S

LEMMA SameEvaluation ==
    ASSUME NEW a, NEW b, NEW asOf \in Int, Proper(a), Proper(b), Agree(a, b, asOf),
           NEW symbol \in DOMAIN a.price, DOMAIN Observable(a, symbol, asOf) # {}, NEW memory
    PROVE  LET x == Evaluate(a, NoMemory, symbol, asOf).result
               y == Evaluate(b, memory, symbol, asOf).result
           IN  /\ x = Evaluate(b, NoMemory, symbol, asOf).result
               /\ x.asOf = y.asOf /\ x.rung = y.rung /\ x.match = y.match
<1> DEFINE last == LastDay(Observable(a, symbol, asOf))
           active == ActiveConditions(a, symbol, last)
<1>1. LastDay(Observable(b, symbol, asOf)) = last
  BY SameObservable
<1>2. last \in Int /\ last <= asOf
  BY LastIsOfSeries DEF Observable, Proper
<1> HIDE DEF last
<1>3. Agree(a, b, last)
  BY <1>2, AgreeBefore
<1>4. ActiveConditions(b, symbol, last) = active
  BY <1>3, SameConditions
<1> HIDE DEF active
<1>5. /\ \A m : Evaluate(a, m, symbol, asOf) = OddsGiven(a, m, last, active)
      /\ \A m : Evaluate(b, m, symbol, asOf) = OddsGiven(b, m, last, active)
  BY <1>1, <1>4 DEF Evaluate, last, active
<1>6. OddsGiven(a, NoMemory, last, active).result = OddsGiven(b, NoMemory, last, active).result
  BY <1>3, SameOdds
<1>7. QED
  BY <1>3, <1>5, <1>6, SameMatches

-----------------------------------------------------------------------------
(* Analogues.                                                                *)

\* The days before d are the same in both, if d is not after last.
LEMMA SameRank ==
    ASSUME NEW x, NEW y, IsSeries(x), IsSeries(y), NEW last \in Int, Through(x, last) = Through(y, last),
           NEW d \in Int, d <= last
    PROVE  Rank(x, d) = Rank(y, d)
<1>1. { e \in DOMAIN x : e < d } = { e \in DOMAIN y : e < d }
  BY SameUntil DEF IsSeries
<1>2. QED
  BY <1>1 DEF Rank

\* A later day has as many days before it, or more.
LEMMA RankGrows ==
    ASSUME NEW series, IsSeries(series), NEW d \in Int, NEW e \in Int, d <= e
    PROVE  Rank(series, d) \in Nat /\ Rank(series, e) \in Nat /\ Rank(series, d) <= Rank(series, e)
<1> DEFINE before(x) == { k \in DOMAIN series : k < x }
<1>1. before(d) \subseteq before(e) /\ before(e) \subseteq DOMAIN series
  BY DEF IsSeries
<1>2. IsFiniteSet(before(e)) /\ IsFiniteSet(before(d))
  BY <1>1, FS_Subset DEF IsSeries
<1> HIDE DEF before
<1>3. /\ Cardinality(before(d)) \in Nat /\ Cardinality(before(e)) \in Nat
      /\ Cardinality(before(d)) <= Cardinality(before(e))
  BY <1>1, <1>2, FS_CardinalityType, FS_Subset
<1>4. QED
  BY <1>3 DEF Rank, before

LEMMA SameDomain ==
    ASSUME NEW a, NEW b, NEW last, Agree(a, b, last), NEW symbol, NEW name \in DOMAIN Weight
    PROVE  Through(Domain(a, symbol, name), last) = Through(Domain(b, symbol, name), last)
<1>1. name \in {"market", "sector", "company", "catalysts"}
  BY DEF Weight
<1>2. a.etf = b.etf
  BY DEF Agree
<1>3. \A n, s : Through(Values(a, n, s), last) = Through(Values(b, n, s), last)
  BY SameValues
<1>4. QED
  BY <1>1, <1>2, <1>3 DEF Domain

LEMMA SameSimilarity ==
    ASSUME NEW x, NEW y, NEW target \in Int, Through(x, target) = Through(y, target),
           NEW d \in Int, d <= target
    PROVE  Similarity(x, target, d) = Similarity(y, target, d)
<1>1. Basis(x, target) = Basis(y, target)
  BY DEF Basis
<1>2. Scorable(x, target) <=> Scorable(y, target)
  BY <1>1 DEF Scorable
<1>3. \A e \in {target, d} : /\ e \in DOMAIN x <=> e \in DOMAIN y
                             /\ e \in DOMAIN x => x[e] = y[e]
  BY SameUntil
<1>4. \A e \in {target, d} : e \in DOMAIN x => ZSign(x, target, e) = ZSign(y, target, e)
  BY <1>1, <1>3 DEF ZSign
<1>5. QED
  BY <1>2, <1>3, <1>4 DEF Similarity

LEMMA SameStages ==
    ASSUME NEW a, NEW b, NEW target \in Int, Agree(a, b, target), NEW symbol,
           NEW candidates, \A d \in candidates : d \in Int /\ d <= target
    PROVE  Staged(a, symbol, target, candidates) = Staged(b, symbol, target, candidates)
<1> DEFINE sim(db) == [ d \in candidates |->
                         [ name \in DOMAIN Weight |-> Similarity(Domain(db, symbol, name), target, d) ] ]
           sector(db) == Scorable(Domain(db, symbol, "sector"), target)
<1>1. \A d \in candidates, name \in DOMAIN Weight :
         Similarity(Domain(a, symbol, name), target, d) = Similarity(Domain(b, symbol, name), target, d)
  BY SameDomain, SameSimilarity
<1>2. sim(a) = sim(b)
  BY <1>1
<1>3. Basis(Domain(a, symbol, "sector"), target) = Basis(Domain(b, symbol, "sector"), target)
  BY SameDomain DEF Basis, Weight
<1>4. sector(a) = sector(b)
  BY <1>3 DEF Scorable
<1>5. \A db : Staged(db, symbol, target, candidates) = Select(sim(db), candidates, sector(db))
  BY DEF Staged
<1> HIDE DEF sim, sector
<1>6. QED
  BY <1>2, <1>4, <1>5

\* What followed, by the prices of the symbol, the market and the sector's fund.
FollowedBy(prices, market, sector, analogues, candidates) ==
    LET After(series, days, h) == { << d, ForwardReturn(series, d, h) >> : d \in days }
        Benchmark(series, days, h) == IF DOMAIN series = {} THEN {} ELSE Completed(After(series, days, h))
        Own(h)  == Completed(After(prices, { x.date : x \in analogues }, h))
        Days(h) == { s[1] : s \in Own(h) }
    IN  [ h \in Lengths |-> [ own |-> Own(h), market |-> Benchmark(market, Days(h), h),
                              sector |-> Benchmark(sector, Days(h), h),
                              baseline |-> Completed(After(prices, candidates, h)) ] ]

ObservableOf(db, s, last) == IF s = Absent THEN EmptySeries ELSE Observable(db, s, last)

LEMMA FollowedParts ==
    ASSUME NEW db, NEW symbol, NEW analogues, NEW candidates, NEW target
    PROVE  Followed(db, symbol, analogues, candidates, target) =
              FollowedBy(Observable(db, symbol, target), ObservableOf(db, "SPY", target),
                         ObservableOf(db, db.etf[symbol], target), analogues, candidates)
<1> DEFINE After(series, days, h) == { << d, ForwardReturn(series, d, h) >> : d \in days }
           Benchmark(s, days, h) ==
              IF s = Absent THEN {}
              ELSE IF DOMAIN Observable(db, s, target) = {} THEN {}
              ELSE Completed(After(Observable(db, s, target), days, h))
           Plain(series, days, h) == IF DOMAIN series = {} THEN {} ELSE Completed(After(series, days, h))
           Own(h)  == Completed(After(Observable(db, symbol, target), { x.date : x \in analogues }, h))
           Days(h) == { s[1] : s \in Own(h) }
           Base(h) == Completed(After(Observable(db, symbol, target), candidates, h))
<1>1. Followed(db, symbol, analogues, candidates, target) =
         [ h \in Lengths |-> [ own |-> Own(h), market |-> Benchmark("SPY", Days(h), h),
                               sector |-> Benchmark(db.etf[symbol], Days(h), h), baseline |-> Base(h) ] ]
  BY DEF Followed
<1>2. FollowedBy(Observable(db, symbol, target), ObservableOf(db, "SPY", target),
                 ObservableOf(db, db.etf[symbol], target), analogues, candidates) =
         [ h \in Lengths |-> [ own |-> Own(h), market |-> Plain(ObservableOf(db, "SPY", target), Days(h), h),
                               sector |-> Plain(ObservableOf(db, db.etf[symbol], target), Days(h), h),
                               baseline |-> Base(h) ] ]
  BY DEF FollowedBy
<1> HIDE DEF After, Own, Days, Base
<1>3. \A s, days : \A h : Benchmark(s, days, h) = Plain(ObservableOf(db, s, target), days, h)
  BY DEF ObservableOf, EmptySeries
<1> HIDE DEF Benchmark, Plain
<1>4. QED
  BY <1>1, <1>2, <1>3

LEMMA SameFollowed ==
    ASSUME NEW a, NEW b, NEW target, Proper(a), Agree(a, b, target), NEW symbol \in DOMAIN a.price,
           NEW analogues, NEW candidates
    PROVE  Followed(a, symbol, analogues, candidates, target) = Followed(b, symbol, analogues, candidates, target)
<1>1. \A s \in DOMAIN a.price \cup {Absent} : ObservableOf(a, s, target) = ObservableOf(b, s, target)
  BY SameObservable DEF ObservableOf
<1>2. Observable(a, symbol, target) = Observable(b, symbol, target)
  BY SameObservable
<1>3. {"SPY", a.etf[symbol]} \subseteq DOMAIN a.price \cup {Absent} /\ a.etf[symbol] = b.etf[symbol]
  BY DEF Proper, Agree
<1>4. QED
  BY <1>1, <1>2, <1>3, FollowedParts

Candidates(index, target) ==
    { d \in DOMAIN index : Rank(index, d) >= PriorSessions /\ Rank(index, d) < Rank(index, target) - Gap }

\* A candidate is a day before the target.
LEMMA CandidatesComeBefore ==
    ASSUME NEW index, IsSeries(index), NEW target \in Int, NEW d \in Candidates(index, target)
    PROVE  d \in Int /\ d \in DOMAIN index /\ d < target
<1>1. d \in DOMAIN index /\ d \in Int /\ Rank(index, d) < Rank(index, target) - Gap
  BY DEF Candidates, IsSeries
<1>2. Gap \in Nat
  BY SearchAssumption
<1>3. ASSUME target <= d PROVE FALSE
  BY <1>1, <1>2, <1>3, RankGrows
<1>4. QED
  BY <1>1, <1>3

LEMMA SameCandidates ==
    ASSUME NEW x, NEW y, IsSeries(x), IsSeries(y), NEW target \in Int, Through(x, target) = Through(y, target)
    PROVE  /\ Candidates(x, target) = Candidates(y, target)
           /\ \A d \in Candidates(x, target) : Rank(x, d) = Rank(y, d)
<1>1. \A d \in Int : d <= target => Rank(x, d) = Rank(y, d) /\ (d \in DOMAIN x <=> d \in DOMAIN y)
  BY SameRank, SameUntil
<1>2. Rank(x, target) = Rank(y, target)
  BY <1>1
<1>3. \A d \in Candidates(x, target) : d \in Int /\ d <= target
  BY CandidatesComeBefore
<1>4. \A d \in Candidates(y, target) : d \in Int /\ d <= target
  BY CandidatesComeBefore
<1>5. Candidates(x, target) \subseteq Candidates(y, target)
  BY <1>1, <1>2, <1>3 DEF Candidates
<1>6. Candidates(y, target) \subseteq Candidates(x, target)
  BY <1>1, <1>2, <1>4 DEF Candidates
<1>7. QED
  BY <1>1, <1>3, <1>5, <1>6

LEMMA ValuesAreSeries == ASSUME NEW db, Proper(db), NEW name, NEW subject PROVE IsSeries(Values(db, name, subject))
<1>1. IsSeries(EmptySeries)
  BY FS_EmptySet DEF IsSeries, EmptySeries
<1>2. QED
  BY <1>1 DEF Values, Proper

\* The search in its steps.
LEMMA FindParts ==
    ASSUME NEW db, NEW symbol, NEW asOf
    PROVE  LET index      == Values(db, "ret", symbol)
               target     == LastDay(Through(index, asOf))
               candidates == Candidates(index, target)
               similar    == Staged(db, symbol, target, candidates)
           IN  Find(db, symbol, asOf) =
                  FoundAmong(db, symbol, target, candidates, Cardinality(similar),
                             Thinned(similar, [ d \in candidates |-> Rank(index, d) ]))
  BY DEF Find, Candidates

LEMMA SameSearch ==
    ASSUME NEW a, NEW b, NEW asOf \in Int, Proper(a), Proper(b), Agree(a, b, asOf),
           NEW symbol \in DOMAIN a.price, DOMAIN Through(Values(a, "ret", symbol), asOf) # {}
    PROVE  Find(a, symbol, asOf) = Find(b, symbol, asOf)
<1> DEFINE index(db) == Values(db, "ret", symbol)
           target == LastDay(Through(index(a), asOf))
           candidates(db) == Candidates(index(db), target)
           similar(db) == Staged(db, symbol, target, candidates(db))
           positions(db) == [ d \in candidates(db) |-> Rank(index(db), d) ]
<1>1. IsSeries(index(a)) /\ IsSeries(index(b))
  BY ValuesAreSeries
<1>2. Through(index(a), asOf) = Through(index(b), asOf)
  BY SameValues
<1>3. target \in Int /\ target <= asOf /\ target = LastDay(Through(index(b), asOf))
  BY <1>1, <1>2, LastIsOfSeries
<1> HIDE DEF target
<1>4. Agree(a, b, target)
  BY <1>3, AgreeBefore
<1>5. Through(index(a), target) = Through(index(b), target)
  BY <1>4, SameValues
<1> HIDE DEF index
<1>6. /\ candidates(a) = candidates(b)
      /\ \A d \in candidates(a) : Rank(index(a), d) = Rank(index(b), d)
  BY <1>1, <1>3, <1>5, SameCandidates
<1>7. \A d \in candidates(a) : d \in Int /\ d <= target
  BY <1>1, <1>3, CandidatesComeBefore
<1> HIDE DEF candidates
<1>8. positions(a) = positions(b)
  BY <1>6
<1>9. similar(a) = similar(b)
  BY <1>3, <1>4, <1>6, <1>7, SameStages
<1> HIDE DEF positions, similar
<1> DEFINE chosen == Thinned(similar(a), positions(a))
           found(db) == FoundAmong(db, symbol, target, candidates(a), Cardinality(similar(a)), chosen)
<1>10. /\ Find(a, symbol, asOf) = found(a)
       /\ Find(b, symbol, asOf) = found(b)
  BY <1>3, <1>6, <1>8, <1>9, FindParts DEF target, index, candidates, similar, positions
<1>11. Followed(a, symbol, chosen, candidates(a), target) = Followed(b, symbol, chosen, candidates(a), target)
  BY <1>4, SameFollowed
<1> HIDE DEF chosen
<1>12. found(a) = found(b)
  BY <1>11 DEF FoundAmong
<1>13. QED
  BY <1>10, <1>12

-----------------------------------------------------------------------------
(* Answers.                                                                  *)

LEMMA EvaluateIsRecord ==
    ASSUME NEW db, NEW memory, NEW symbol, NEW asOf
    PROVE  DOMAIN Evaluate(db, memory, symbol, asOf) = {"result", "memory"}
  BY DEF Evaluate, OddsGiven, OddsAt, OddsOf

LEMMA ConditionalAnswer ==
    ASSUME NEW db, NEW memory, NEW symbol, NEW asOf
    PROVE  LET odds == Evaluate(db, memory, symbol, asOf).result
           IN  Asking(db, memory, "conditional", symbol, asOf).result =
                  [ odds |-> odds, scored |-> ScoredLengths(odds) ]
<1> DEFINE e == Evaluate(db, memory, symbol, asOf)
<1>1. Asking(db, memory, "conditional", symbol, asOf) = WithLengths(e)
  BY DEF Asking
<1>2. DOMAIN e = {"result", "memory"}
  BY EvaluateIsRecord
<1> HIDE DEF e
<1>3. WithLengths(e).result = [ odds |-> e.result, scored |-> ScoredLengths(e.result) ]
  BY <1>2 DEF WithLengths
<1>4. QED
  BY <1>1, <1>3 DEF e

\* What a new instance says of a day on a later one, and what of an answer does not
\* depend on what the instance remembers.
LEMMA AskedLater ==
    ASSUME NEW history \in Tapes, NEW early \in Int, NEW late \in Int, early <= late,
           NEW symbol \in Range(Targets), NEW model \in KindsOfModel,
           CanAnswer(Stored(history, late), model, symbol, early), NEW memory
    PROVE  LET a == Stored(history, early)
               b == Stored(history, late)
               x == Asking(a, NoMemory, model, symbol, early).result
               y == Asking(b, memory, model, symbol, early).result
           IN  /\ CanAnswer(a, model, symbol, early)
               /\ x = Asking(b, NoMemory, model, symbol, early).result
               /\ model # "conditional" => x = y
               /\ model = "conditional" =>
                     x.odds.asOf = y.odds.asOf /\ x.odds.rung = y.odds.rung /\ x.odds.match = y.odds.match
<1> DEFINE a == Stored(history, early)
           b == Stored(history, late)
<1>1. Proper(a) /\ Proper(b) /\ Agree(a, b, early)
  BY StoredIsProper, EveningsAgree
<1>2. symbol \in DOMAIN a.price
  BY StoredIs, TapesAssumption
<1> HIDE DEF a, b
<1>3. Observable(a, symbol, early) = Observable(b, symbol, early)
  BY <1>1, <1>2, SameObservable
<1>4. CASE model = "momentum"
  <2>1. \A db, m : Asking(db, m, model, symbol, early).result = Momentum(db, symbol, early)
    BY <1>4 DEF Asking
  <2>2. Momentum(a, symbol, early) = Momentum(b, symbol, early)
    BY <1>1, <1>2, SameMomentum
  <2>3. CanAnswer(a, model, symbol, early)
    BY <1>3, <1>4 DEF CanAnswer, b
  <2>4. QED
    BY <1>4, <2>1, <2>2, <2>3 DEF a, b
<1>5. CASE model = "analogues"
  <2>1. \A db, m : Asking(db, m, model, symbol, early).result = WithScores(Find(db, symbol, early))
    <3> TAKE db, m
    <3>1. Asking(db, m, "analogues", symbol, early) = [ result |-> Analogous(db, symbol, early), memory |-> m ]
      BY DEF Asking
    <3>2. QED
      BY <1>5, <3>1 DEF Analogous
  <2>2. Through(Values(a, "ret", symbol), early) = Through(Values(b, "ret", symbol), early)
    BY <1>1, SameValues
  <2>3. CanAnswer(a, model, symbol, early) /\ DOMAIN Through(Values(a, "ret", symbol), early) # {}
    BY <1>5, <2>2 DEF CanAnswer, b
  <2>4. Find(a, symbol, early) = Find(b, symbol, early)
    BY <1>1, <1>2, <2>3, SameSearch
  <2>5. QED
    BY <1>5, <2>1, <2>3, <2>4 DEF a, b
<1>6. CASE model = "conditional"
  <2>1. CanAnswer(a, model, symbol, early) /\ DOMAIN Observable(a, symbol, early) # {}
    BY <1>3, <1>6 DEF CanAnswer, b
  <2> DEFINE odds(db, m) == Evaluate(db, m, symbol, early).result
  <2>2. /\ odds(a, NoMemory) = odds(b, NoMemory)
        /\ odds(a, NoMemory).asOf = odds(b, memory).asOf
        /\ odds(a, NoMemory).rung = odds(b, memory).rung
        /\ odds(a, NoMemory).match = odds(b, memory).match
    BY <1>1, <1>2, <2>1, SameEvaluation
  <2>3. \A db, m : Asking(db, m, model, symbol, early).result =
                      [ odds |-> odds(db, m), scored |-> ScoredLengths(odds(db, m)) ]
    <3> TAKE db, m
    <3>1. Asking(db, m, "conditional", symbol, early).result =
             [ odds |-> odds(db, m), scored |-> ScoredLengths(odds(db, m)) ]
      BY ConditionalAnswer
    <3>2. QED
      BY <1>6, <3>1
  <2> HIDE DEF odds
  <2>4. \A db, m : Asking(db, m, model, symbol, early).result.odds = odds(db, m)
    <3> TAKE db, m
    <3> DEFINE x == Asking(db, m, model, symbol, early).result
    <3>1. x = [ odds |-> odds(db, m), scored |-> ScoredLengths(odds(db, m)) ]
      BY <2>3
    <3> HIDE DEF x
    <3>2. x.odds = odds(db, m)
      BY <3>1
    <3>3. QED
      BY <3>2 DEF x
  <2> DEFINE x == Asking(a, NoMemory, model, symbol, early).result
             y == Asking(b, memory, model, symbol, early).result
  <2>5. x = Asking(b, NoMemory, model, symbol, early).result
    BY <2>2, <2>3
  <2>6. x.odds = odds(a, NoMemory) /\ y.odds = odds(b, memory)
    BY <2>4
  <2> HIDE DEF x, y
  <2>7. x.odds.asOf = y.odds.asOf /\ x.odds.rung = y.odds.rung /\ x.odds.match = y.odds.match
    BY <2>2, <2>6
  <2>8. QED
    BY <1>6, <2>1, <2>5, <2>7 DEF a, b, x, y
<1>7. QED
  BY <1>4, <1>5, <1>6 DEF KindsOfModel

\* An answer about a day that has been, in agreement with the live one.
Truthful(answer) ==
    /\ answer.model \in KindsOfModel /\ answer.symbol \in Range(Targets)
    /\ answer.asked \in Int /\ answer.asked <= today
    /\ CanAnswer(Stored(tape, answer.asked), answer.model, answer.symbol, answer.asked)
    /\ Memoryless(answer, answer.result) =
         Memoryless(answer, Live(answer.model, answer.symbol, answer.asked))

AnswersInv ==
    /\ tape \in Tapes /\ today \in Int
    /\ harness # Absent =>
          /\ harness.date \in Int /\ harness.date <= today
          /\ harness.passed \in Nat
          /\ DOMAIN harness = {"date", "passed", "memory"}
    /\ told # Absent => Truthful(told)

LEMMA AnsweredTruthfully ==
    ASSUME tape \in Tapes, today \in Int, NEW by \in {"validation", "harness"}, NEW model \in KindsOfModel,
           NEW symbol \in Range(Targets), NEW asOf \in Int, asOf <= today, CanAnswer(Database, model, symbol, asOf),
           NEW memory, by = "validation" => memory = NoMemory
    PROVE  Truthful(Answer(by, model, symbol, asOf, Asking(Database, memory, model, symbol, asOf).result))
<1> DEFINE result == Asking(Database, memory, model, symbol, asOf).result
           answer == Answer(by, model, symbol, asOf, result)
           live == Live(model, symbol, asOf)
<1>1. /\ CanAnswer(Stored(tape, asOf), model, symbol, asOf)
      /\ live = Asking(Database, NoMemory, model, symbol, asOf).result
      /\ model # "conditional" => live = result
      /\ model = "conditional" =>
            live.odds.asOf = result.odds.asOf /\ live.odds.rung = result.odds.rung /\ live.odds.match = result.odds.match
  BY AskedLater DEF Database, Live
<1>2. by = "validation" => live = result
  BY <1>1
<1> HIDE DEF live, result
<1>3. /\ answer.by = by /\ answer.model = model /\ answer.symbol = symbol
      /\ answer.asked = asOf /\ answer.result = result
  BY DEF Answer
<1> HIDE DEF answer
<1>4. Memoryless(answer, result) = Memoryless(answer, live)
  BY <1>1, <1>2, <1>3 DEF Memoryless
<1>5. Truthful(answer)
  BY <1>1, <1>3, <1>4 DEF Truthful, live
<1>6. QED
  BY <1>5 DEF answer, result

LEMMA NextAnswersInv == AnswersInv /\ [EvaluationNext]_evaluationVars => AnswersInv'
<1> SUFFICES ASSUME AnswersInv, [EvaluationNext]_evaluationVars PROVE AnswersInv'
  OBVIOUS
<1> USE DEF AnswersInv
\* An answer stays true as days pass.
<1>1. ASSUME tape' = tape, today' \in Int, today <= today', told # Absent PROVE told' = told => Truthful(told)'
  BY <1>1 DEF Truthful, Live
<1>2. CASE NextDay
  <2>1. tape' = tape /\ today' = today + 1 /\ harness' = harness /\ told' = told
    BY <1>2 DEF NextDay
  <2>2. told # Absent => Truthful(told)'
    BY <1>1, <2>1
  <2>3. QED
    BY <2>1, <2>2
<1>3. ASSUME NEW model \in KindsOfModel, NEW i \in DOMAIN Targets, NEW d \in ScoringDates,
             ValidatePair(model, Targets[i], d)
      PROVE  AnswersInv'
  <2> DEFINE answer == Answer("validation", model, Targets[i], d, Asking(Database, NoMemory, model, Targets[i], d).result)
  <2>1. told' = answer /\ tape' = tape /\ today' = today /\ harness' = harness
    BY <1>3 DEF ValidatePair
  <2>2. d \in Int /\ d <= today /\ CanAnswer(Database, model, Targets[i], d) /\ Targets[i] \in Range(Targets)
    BY <1>3, QuestionsAssumption DEF ValidatePair, Range
  <2>3. Truthful(answer)
    BY <2>2, AnsweredTruthfully
  <2> HIDE DEF answer
  <2>4. Truthful(told)'
    BY <2>1, <2>3 DEF Truthful, Live
  <2>5. QED
    BY <2>1, <2>4
<1>4. ASSUME NEW d \in ScoringDates, NEW n \in 0 .. Len(Targets) - 1, NewInstances(d, n) PROVE AnswersInv'
  <2>1. /\ harness' = [ date |-> d, passed |-> n, memory |-> NoMemory ]
        /\ tape' = tape /\ today' = today /\ told' = told /\ d \in Int /\ d <= today
    BY <1>4, QuestionsAssumption DEF NewInstances
  <2>2. told # Absent => Truthful(told)'
    BY <1>1, <2>1
  <2>3. n \in Nat
    BY QuestionsAssumption
  <2>4. harness'.date = d /\ harness'.passed = n /\ DOMAIN harness' = {"date", "passed", "memory"}
    BY <2>1
  <2>5. QED
    BY <2>1, <2>2, <2>3, <2>4
<1>5. ASSUME NEW model \in KindsOfModel, HarnessPair(model) PROVE AnswersInv'
  <2> DEFINE symbol == Targets[harness.passed + 1]
             answer == Answer("harness", model, symbol, harness.date,
                              Asking(Database, harness.memory, model, symbol, harness.date).result)
  <2>1. /\ harness # Absent /\ harness.passed < Len(Targets) /\ tape' = tape /\ today' = today
        /\ told' = IF CanAnswer(Database, model, symbol, harness.date) THEN answer ELSE told
    BY <1>5 DEF HarnessPair
  <2>2. harness' = [ harness EXCEPT !.passed = @ + 1,
                       !.memory = IF CanAnswer(Database, "conditional", symbol, harness.date)
                                  THEN Evaluate(Database, @, symbol, harness.date).memory ELSE @ ]
    BY <1>5 DEF HarnessPair
  <2>3. /\ DOMAIN harness' = DOMAIN harness
        /\ harness'.date = harness.date /\ harness'.passed = harness.passed + 1
    BY <2>1, <2>2
  <2>4. symbol \in Range(Targets)
    <3>1. harness.passed + 1 \in DOMAIN Targets
      BY <2>1, QuestionsAssumption
    <3>2. QED
      BY <3>1 DEF Range
  <2> HIDE DEF symbol
  <2>5. told' # Absent => Truthful(told)'
    <3>1. CASE CanAnswer(Database, model, symbol, harness.date)
      <4>1. Truthful(answer)
        BY <2>1, <2>4, <3>1, AnsweredTruthfully
      <4> HIDE DEF answer
      <4>2. QED
        BY <2>1, <3>1, <4>1 DEF Truthful, Live
    <3>2. CASE ~ CanAnswer(Database, model, symbol, harness.date)
      <4>1. told' = told
        BY <2>1, <3>2
      <4>2. QED
        BY <1>1, <2>1, <4>1
    <3>3. QED
      BY <3>1, <3>2
  <2>6. QED
    BY <2>1, <2>3, <2>5
<1>6. CASE UNCHANGED evaluationVars
  <2>1. tape' = tape /\ today' = today /\ harness' = harness /\ told' = told
    BY <1>6 DEF evaluationVars
  <2>2. told # Absent => Truthful(told)'
    BY <1>1, <2>1
  <2>3. QED
    BY <2>1, <2>2
<1>7. QED
  BY <1>2, <1>3, <1>4, <1>5, <1>6 DEF EvaluationNext

\* Whatever day it is asked on, an answer about a scoring date is the one live
\* inference gave that evening: no threshold, score, match or outcome of momentum,
\* analogues or conditional odds looks past the date (research/engine.py:101-104),
\* but for the samples the harness's conditional engine remembers.
THEOREM ReplaysAgree ==
    EvaluationInit /\ [][EvaluationNext]_evaluationVars => []ReplayTellsTheSame
<1>1. EvaluationInit => AnswersInv
  BY QuestionsAssumption DEF EvaluationInit, AnswersInv
<1>2. AnswersInv => ReplayTellsTheSame
  BY DEF AnswersInv, Truthful, ReplayTellsTheSame
<1>3. QED
  BY <1>1, <1>2, NextAnswersInv, PTL

-----------------------------------------------------------------------------
(* Ranks in a strict total order, given as a set of pairs.                   *)

Below(R, S, x) == { y \in S : << y, x >> \in R }

Ordered(R, S) ==
    /\ \A x \in S : << x, x >> \notin R
    /\ \A x, y, z \in S : << x, y >> \in R /\ << y, z >> \in R => << x, z >> \in R
    /\ \A x, y \in S : x # y => << x, y >> \in R \/ << y, x >> \in R

LEMMA RanksDiffer ==
    ASSUME NEW R, NEW S, IsFiniteSet(S), Ordered(R, S), NEW x \in S, NEW y \in S, << x, y >> \in R
    PROVE  Cardinality(Below(R, S, x)) # Cardinality(Below(R, S, y))
<1>1. Below(R, S, x) \in SUBSET Below(R, S, y) /\ Below(R, S, y) \in SUBSET S
  BY DEF Below, Ordered
<1>2. x \in Below(R, S, y) /\ x \notin Below(R, S, x)
  BY DEF Below, Ordered
<1>3. IsFiniteSet(Below(R, S, y))
  BY <1>1, FS_Subset
<1>4. QED
  BY <1>1, <1>2, <1>3, FS_Subset

LEMMA RankIsOne ==
    ASSUME NEW R, NEW S, IsFiniteSet(S), Ordered(R, S), NEW x \in S, NEW y \in S,
           Cardinality(Below(R, S, x)) = Cardinality(Below(R, S, y))
    PROVE  x = y
<1>1. CASE << x, y >> \in R
  BY <1>1, RanksDiffer
<1>2. CASE << y, x >> \in R
  BY <1>2, RanksDiffer
<1>3. QED
  BY <1>1, <1>2 DEF Ordered

\* Every rank below the number of elements is taken.
LEMMA RanksOnto ==
    ASSUME NEW R, NEW S, IsFiniteSet(S), Ordered(R, S)
    PROVE  /\ Cardinality(S) \in Nat
           /\ \A x \in S : Cardinality(Below(R, S, x)) \in 0 .. Cardinality(S) - 1
           /\ \A k \in 0 .. Cardinality(S) - 1 : \E x \in S : Cardinality(Below(R, S, x)) = k
<1> DEFINE n == Cardinality(S)
           ranks == 0 .. n - 1
           f == [ x \in S |-> Cardinality(Below(R, S, x)) ]
<1>1. n \in Nat
  BY FS_CardinalityType
<1>2. \A x \in S : f[x] \in ranks
  <2> TAKE x \in S
  <2>1. Below(R, S, x) \in SUBSET (S \ {x})
    BY DEF Below, Ordered
  <2>2. IsFiniteSet(S \ {x}) /\ Cardinality(S \ {x}) = n - 1
    BY FS_RemoveElement
  <2>3. IsFiniteSet(Below(R, S, x)) /\ Cardinality(Below(R, S, x)) <= n - 1
    BY <2>1, <2>2, FS_Subset
  <2>4. Cardinality(Below(R, S, x)) \in Nat
    BY <2>3, FS_CardinalityType
  <2>5. QED
    BY <1>1, <2>3, <2>4
<1>3. f \in Injection(S, ranks)
  <2>1. \A x, y \in S : f[x] = f[y] => x = y
    BY RankIsOne
  <2>2. f \in [ S -> ranks ]
    BY <1>2
  <2>3. QED
    BY <2>1, <2>2 DEF Injection, IsInjective
<1>4. IsFiniteSet(ranks) /\ Cardinality(ranks) = n
  <2>1. 0 \in Int /\ n - 1 \in Int
    BY <1>1
  <2> HIDE DEF n
  <2>2. IsFiniteSet(0 .. n - 1) /\ Cardinality(0 .. n - 1) = IF 0 > n - 1 THEN 0 ELSE n - 1 - 0 + 1
    BY <2>1, FS_Interval
  <2>3. QED
    BY <1>1, <2>2
<1> HIDE DEF f, ranks
<1>5. f \in Surjection(S, ranks)
  BY <1>3, <1>4, FS_Injection
<1>6. \A k \in ranks : \E x \in S : f[x] = k
  BY <1>5 DEF Surjection
<1>7. QED
  BY <1>1, <1>2, <1>6 DEF f, ranks

\* The k-th element is the one of rank k.
LEMMA KthElement ==
    ASSUME NEW R, NEW S, IsFiniteSet(S), Ordered(R, S), NEW k \in 0 .. Cardinality(S) - 1
    PROVE  LET x == CHOOSE x \in S : Cardinality(Below(R, S, x)) = k
           IN  x \in S /\ Cardinality(Below(R, S, x)) = k
<1>1. \E x \in S : Cardinality(Below(R, S, x)) = k
  BY RanksOnto
<1>2. QED
  BY <1>1

-----------------------------------------------------------------------------
(* Days.                                                                     *)

Earlier(S) == { p \in S \X S : p[1] < p[2] }

LEMMA DaysAreOrdered == ASSUME NEW S \in SUBSET Int PROVE Ordered(Earlier(S), S)
  BY DEF Ordered, Earlier

LEMMA RankIsBelow ==
    ASSUME NEW series, NEW d \in DOMAIN series
    PROVE  Rank(series, d) = Cardinality(Below(Earlier(DOMAIN series), DOMAIN series, d))
<1>1. { e \in DOMAIN series : e < d } = Below(Earlier(DOMAIN series), DOMAIN series, d)
  BY DEF Below, Earlier
<1>2. QED
  BY <1>1 DEF Rank

LEMMA DayHasRank ==
    ASSUME NEW series, IsSeries(series)
    PROVE  /\ Cardinality(DOMAIN series) \in Nat
           /\ \A d \in DOMAIN series : Rank(series, d) \in 0 .. Cardinality(DOMAIN series) - 1
           /\ \A k \in 0 .. Cardinality(DOMAIN series) - 1 : \E d \in DOMAIN series : Rank(series, d) = k
           /\ \A d, e \in DOMAIN series : Rank(series, d) = Rank(series, e) => d = e
<1> DEFINE S == DOMAIN series
           R == Earlier(S)
           rank(d) == Cardinality(Below(R, S, d))
<1>1. IsFiniteSet(S) /\ Ordered(R, S)
  BY DaysAreOrdered DEF IsSeries
<1>2. \A d \in S : Rank(series, d) = rank(d)
  BY RankIsBelow
<1> HIDE DEF S, R
<1>3. /\ Cardinality(S) \in Nat
      /\ \A d \in S : rank(d) \in 0 .. Cardinality(S) - 1
      /\ \A k \in 0 .. Cardinality(S) - 1 : \E d \in S : rank(d) = k
  BY <1>1, RanksOnto
<1>4. \A d, e \in S : rank(d) = rank(e) => d = e
  BY <1>1, RankIsOne
<1> HIDE DEF rank
<1>5. QED
  BY <1>2, <1>3, <1>4 DEF S

-----------------------------------------------------------------------------
(* Analogues, the closest first.                                             *)

LEMMA FractionsChain ==
    ASSUME NEW n1 \in Int, NEW n2 \in Int, NEW n3 \in Int,
           NEW d1 \in Nat \ {0}, NEW d2 \in Nat \ {0}, NEW d3 \in Nat \ {0},
           n1 * d2 >= n2 * d1, n2 * d3 >= n3 * d2
    PROVE  /\ n1 * d3 >= n3 * d1
           /\ n1 * d3 = n3 * d1 => n1 * d2 = n2 * d1 /\ n2 * d3 = n3 * d2
<1> DEFINE p == n1 * d2 - n2 * d1
           q == n2 * d3 - n3 * d2
           r == n1 * d3 - n3 * d1
<1>1. p \in Nat /\ q \in Nat /\ r \in Int
  OBVIOUS
<1>2. d2 * r = p * d3 + q * d1
  OBVIOUS
<1> HIDE DEF p, q, r
<1>3. p * d3 \in Nat /\ q * d1 \in Nat
  BY <1>1
<1>4. d2 * r >= 0
  BY <1>1, <1>2, <1>3
<1>5. r >= 0
  BY <1>1, <1>4
<1>6. r = 0 => p = 0 /\ q = 0
  <2> SUFFICES ASSUME r = 0 PROVE p = 0 /\ q = 0
    OBVIOUS
  <2>1. p * d3 + q * d1 = 0
    BY <1>2
  <2>2. p * d3 = 0 /\ q * d1 = 0
    BY <1>3, <2>1
  <2>3. QED
    BY <1>1, <2>2
<1>7. QED
  BY <1>1, <1>5, <1>6 DEF p, q, r

\* An analogue with a date and a mean that has a denominator.
Weighed(x) ==
    /\ x.date \in Int
    /\ Overall(x)[1] \in Int /\ Overall(x)[2] \in Nat \ {0}

Ranked(S) == { p \in S \X S : Closer(p[1], p[2]) }

LEMMA AnaloguesAreOrdered ==
    ASSUME NEW S, \A x \in S : Weighed(x), \A x, y \in S : x.date = y.date => x = y
    PROVE  Ordered(Ranked(S), S)
<1>1. \A x, y \in S : << x, y >> \in Ranked(S) <=> Closer(x, y)
  BY DEF Ranked
<1>2. ASSUME NEW x \in S PROVE ~ Closer(x, x)
  BY DEF Closer, Weighed
<1>3. ASSUME NEW x \in S, NEW y \in S, NEW z \in S, Closer(x, y), Closer(y, z) PROVE Closer(x, z)
  <2> DEFINE n1 == Overall(x)[1]
             d1 == Overall(x)[2]
             n2 == Overall(y)[1]
             d2 == Overall(y)[2]
             n3 == Overall(z)[1]
             d3 == Overall(z)[2]
  <2>1. /\ n1 \in Int /\ n2 \in Int /\ n3 \in Int
        /\ d1 \in Nat \ {0} /\ d2 \in Nat \ {0} /\ d3 \in Nat \ {0}
        /\ x.date \in Int /\ y.date \in Int /\ z.date \in Int
    BY DEF Weighed
  <2>2. n1 * d2 > n2 * d1 \/ (n1 * d2 = n2 * d1 /\ x.date < y.date)
    BY <1>3 DEF Closer
  <2>3. n2 * d3 > n3 * d2 \/ (n2 * d3 = n3 * d2 /\ y.date < z.date)
    BY <1>3 DEF Closer
  <2> HIDE DEF n1, n2, n3, d1, d2, d3
  <2>4. n1 * d2 \in Int /\ n2 * d1 \in Int /\ n2 * d3 \in Int /\ n3 * d2 \in Int /\ n1 * d3 \in Int /\ n3 * d1 \in Int
    BY <2>1
  <2>5. n1 * d2 >= n2 * d1 /\ n2 * d3 >= n3 * d2
    BY <2>2, <2>3, <2>4
  <2>6. /\ n1 * d3 >= n3 * d1
        /\ n1 * d3 = n3 * d1 => n1 * d2 = n2 * d1 /\ n2 * d3 = n3 * d2
    BY <2>1, <2>5, FractionsChain
  <2>7. n1 * d3 > n3 * d1 \/ (n1 * d3 = n3 * d1 /\ x.date < z.date)
    BY <2>1, <2>2, <2>3, <2>4, <2>6
  <2>8. QED
    BY <2>7 DEF Closer, n1, n2, n3, d1, d2, d3
<1>4. ASSUME NEW x \in S, NEW y \in S, x # y PROVE Closer(x, y) \/ Closer(y, x)
  <2>1. x.date \in Int /\ y.date \in Int /\ x.date # y.date
    BY <1>4 DEF Weighed
  <2>2. Overall(x)[1] * Overall(y)[2] \in Int /\ Overall(y)[1] * Overall(x)[2] \in Int
    BY DEF Weighed
  <2>3. QED
    BY <2>1, <2>2 DEF Closer
<1>5. QED
  BY <1>1, <1>2, <1>3, <1>4 DEF Ordered

\* The place of x in the ranking.
Place(S, x) == Cardinality({ y \in S : Closer(y, x) })

LEMMA RankingListsAll ==
    ASSUME NEW S, IsFiniteSet(S), Ordered(Ranked(S), S)
    PROVE  /\ Cardinality(S) \in Nat
           /\ InOrderOf(S) \in [ 1 .. Cardinality(S) -> S ]
           /\ \A x \in S : \E i \in 1 .. Cardinality(S) : InOrderOf(S)[i] = x
<1> DEFINE n == Cardinality(S)
           rank(x) == Cardinality(Below(Ranked(S), S, x))
           nth(k) == CHOOSE x \in S : rank(x) = k
<1>1. \A x \in S : Place(S, x) = rank(x)
  <2> TAKE x \in S
  <2>1. { y \in S : Closer(y, x) } = Below(Ranked(S), S, x)
    BY DEF Below, Ranked
  <2>2. QED
    BY <2>1 DEF Place
<1>2. /\ n \in Nat
      /\ \A x \in S : rank(x) \in 0 .. n - 1
      /\ \A k \in 0 .. n - 1 : \E x \in S : rank(x) = k
  BY RanksOnto
<1>3. \A x, y \in S : rank(x) = rank(y) => x = y
  BY RankIsOne
<1> HIDE DEF rank, n
<1>4. \A k : (CHOOSE x \in S : Place(S, x) = k) = nth(k)
  BY <1>1
<1>5. InOrderOf(S) = [ i \in 1 .. n |-> nth(i - 1) ]
  <2>1. InOrderOf(S) = [ i \in 1 .. n |-> CHOOSE x \in S : Place(S, x) = i - 1 ]
    BY DEF InOrderOf, Place, n
  <2>2. QED
    BY <1>4, <2>1
<1>6. \A k \in 0 .. n - 1 : nth(k) \in S /\ rank(nth(k)) = k
  BY <1>2
<1> HIDE DEF nth
<1>7. \A i \in 1 .. n : nth(i - 1) \in S
  BY <1>2, <1>6
<1>8. ASSUME NEW x \in S PROVE \E i \in 1 .. n : InOrderOf(S)[i] = x
  <2>1. rank(x) \in 0 .. n - 1 /\ rank(x) + 1 \in 1 .. n /\ (rank(x) + 1) - 1 = rank(x)
    BY <1>2
  <2>2. nth(rank(x)) = x
    BY <1>3, <1>6, <2>1
  <2>3. InOrderOf(S)[rank(x) + 1] = x
    BY <1>5, <2>1, <2>2
  <2>4. QED
    BY <2>1, <2>3
<1>9. QED
  BY <1>2, <1>5, <1>7, <1>8 DEF n

-----------------------------------------------------------------------------
(* What is left of the ranking is of the ranking.                            *)

FarFrom(x, kept, positions) ==
    \A y \in kept : LET away == positions[x.date] - positions[y.date] IN away >= Gap \/ -away >= Gap

Kept(g, ranked, positions, n) ==
    g = [ i \in 0 .. n |->
            IF i = 0 THEN {}
            ELSE IF FarFrom(ranked[i], g[i - 1], positions) THEN g[i - 1] \cup {ranked[i]} ELSE g[i - 1] ]

LEMMA KeptExists == ASSUME NEW ranked, NEW positions, NEW n \in Nat PROVE \E g : Kept(g, ranked, positions, n)
<1> DEFINE Next(i, before) == IF FarFrom(ranked[i], before, positions) THEN before \cup {ranked[i]} ELSE before
           Bad == { m \in Nat : ~ \E g : Kept(g, ranked, positions, m) }
<1>1. \A g, m : Kept(g, ranked, positions, m) <=> g = [ i \in 0 .. m |-> IF i = 0 THEN {} ELSE Next(i, g[i - 1]) ]
  BY DEF Kept
<1> HIDE DEF Next
<1>2. ASSUME NEW m \in Bad PROVE \E k \in Bad : k < m
  <2>1. m # 0
    <3>1. 0 .. 0 = {0}
      OBVIOUS
    <3> DEFINE g == [ i \in 0 .. 0 |-> {} ]
    <3>2. g = [ i \in 0 .. 0 |-> IF i = 0 THEN {} ELSE Next(i, g[i - 1]) ]
      BY <3>1
    <3> HIDE DEF g
    <3>3. Kept(g, ranked, positions, 0)
      BY <1>1, <3>2
    <3>4. QED
      BY <3>3
  <2>2. ASSUME NEW g, Kept(g, ranked, positions, m - 1) PROVE FALSE
    <3> DEFINE h == [ i \in 0 .. m |-> IF i = m THEN Next(m, g[m - 1]) ELSE g[i] ]
    <3>1. g = [ i \in 0 .. m - 1 |-> IF i = 0 THEN {} ELSE Next(i, g[i - 1]) ]
      BY <1>1, <2>2
    <3>2. ASSUME NEW i \in 0 .. m PROVE h[i] = IF i = 0 THEN {} ELSE Next(i, h[i - 1])
      <4>1. CASE i = m
        <5>1. m - 1 \in 0 .. m /\ m - 1 # m
          BY <2>1
        <5>2. h[m] = Next(m, g[m - 1]) /\ h[m - 1] = g[m - 1]
          BY <5>1
        <5>3. QED
          BY <2>1, <4>1, <5>2
      <4>2. CASE i # m
        <5>1. i \in 0 .. m - 1
          BY <4>2
        <5>2. h[i] = g[i] /\ g[i] = IF i = 0 THEN {} ELSE Next(i, g[i - 1])
          BY <3>1, <4>2, <5>1
        <5>3. i # 0 => i - 1 \in 0 .. m /\ i - 1 # m
          BY <5>1
        <5>4. i # 0 => h[i - 1] = g[i - 1]
          BY <5>3
        <5>5. QED
          BY <5>2, <5>4
      <4>3. QED
        BY <4>1, <4>2
    <3>3. h = [ i \in 0 .. m |-> h[i] ]
      OBVIOUS
    <3> HIDE DEF h
    <3>4. h = [ i \in 0 .. m |-> IF i = 0 THEN {} ELSE Next(i, h[i - 1]) ]
      BY <3>2, <3>3
    <3>5. Kept(h, ranked, positions, m)
      BY <1>1, <3>4
    <3>6. QED
      BY <3>5
  <2>3. m - 1 \in Bad
    BY <2>1, <2>2
  <2>4. QED
    BY <2>3
<1>3. Bad = {}
  <2>1. Bad \in SUBSET Nat
    OBVIOUS
  <2> HIDE DEF Bad
  <2>2. QED
    BY <1>2, <2>1, NumberDescent
<1>4. QED
  BY <1>3

LEMMA KeptWereRanked ==
    ASSUME NEW ranked, NEW positions, NEW n \in Nat, NEW g, Kept(g, ranked, positions, n)
    PROVE  \A i \in 0 .. n : g[i] \subseteq { ranked[k] : k \in 1 .. n }
<1> DEFINE all == { ranked[k] : k \in 1 .. n }
           Bad == { m \in Nat : m <= n /\ ~ (g[m] \subseteq all) }
<1>1. ASSUME NEW m \in Bad PROVE \E k \in Bad : k < m
  <2>1. m \in 0 .. n
    OBVIOUS
  <2>2. m # 0
    <3>1. g[0] = {}
      BY DEF Kept
    <3>2. QED
      BY <3>1
  <2>3. g[m] \subseteq g[m - 1] \cup {ranked[m]}
    BY <2>1, <2>2 DEF Kept
  <2>4. ranked[m] \in all
    BY <2>1, <2>2
  <2> HIDE DEF all
  <2>5. ~ (g[m - 1] \subseteq all)
    BY <2>3, <2>4
  <2>6. m - 1 \in Bad /\ m - 1 < m
    BY <2>1, <2>2, <2>5
  <2>7. QED
    BY <2>6
<1>2. Bad = {}
  <2>1. Bad \in SUBSET Nat
    OBVIOUS
  <2> HIDE DEF Bad
  <2>2. QED
    BY <1>1, <2>1, NumberDescent
<1>3. QED
  BY <1>2

LEMMA ThinnedIsPart ==
    ASSUME NEW S, IsFiniteSet(S), Ordered(Ranked(S), S), NEW positions
    PROVE  Thinned(S, positions) \subseteq S
<1> DEFINE ranked == InOrderOf(S)
           n == Len(ranked)
           g == CHOOSE g : Kept(g, ranked, positions, n)
<1>1. ranked \in Seq(S) /\ n \in Nat /\ \A k \in 1 .. n : ranked[k] \in S
  <2>1. Cardinality(S) \in Nat /\ ranked \in [ 1 .. Cardinality(S) -> S ]
    BY RankingListsAll
  <2> HIDE DEF ranked
  <2>2. ranked \in Seq(S)
    BY <2>1
  <2>3. QED
    BY <2>2
<1> HIDE DEF ranked
<1>2. Deduplicated(ranked, positions) = g[n]
  BY DEF Deduplicated, Kept, FarFrom
<1> HIDE DEF n
<1>3. Kept(g, ranked, positions, n)
  BY <1>1, KeptExists
<1> HIDE DEF g
<1>4. g[n] \subseteq { ranked[k] : k \in 1 .. n }
  <2>1. \A i \in 0 .. n : g[i] \subseteq { ranked[k] : k \in 1 .. n }
    BY <1>1, <1>3, KeptWereRanked
  <2>2. n \in 0 .. n
    BY <1>1
  <2>3. QED
    BY <2>1, <2>2
<1>5. Thinned(S, positions) \subseteq Deduplicated(ranked, positions)
  BY DEF Thinned, Best, ranked
<1>6. QED
  BY <1>1, <1>2, <1>4, <1>5

-----------------------------------------------------------------------------
(* Analogues are of candidates, and can be ranked.                           *)

LEMMA NearestIsPart == ASSUME NEW days, NEW n, NEW score PROVE Nearest(days, n, score) \subseteq days
  BY DEF Nearest, Best

IsMean(g, x, S) ==
    g = [ T \in SUBSET S |-> IF T = {} THEN 0 ELSE Weight[Chosen(T)] * x.sim[Chosen(T)] + g[T \ {Chosen(T)}] ]

Present(x) == { name \in DOMAIN Weight : x.sim[name] # Absent }

LEMMA NumeratorIsSum ==
    ASSUME NEW x, NEW f, IsFiniteSet(Present(x)), \A name \in Present(x) : f[name] = Weight[name] * x.sim[name]
    PROVE  Overall(x)[1] = SumOver(f, Present(x))
<1> DEFINE S == Present(x)
           h == [ T \in SUBSET S |-> SumOver(f, T) ]
<1>1. Overall(x)[1] = (CHOOSE g : IsMean(g, x, S))[S]
  BY DEF Overall, MapThenSumSet, MapThenFoldSet, IsMean, Chosen, Present
<1>2. \A T \in SUBSET S : T # {} => Chosen(T) \in S
  BY DEF Chosen
<1> HIDE DEF S
<1>3. ASSUME NEW g PROVE IsMean(g, x, S) <=> IsSumOf(g, f, S)
  <2>1. \A T \in SUBSET S : T # {} => Weight[Chosen(T)] * x.sim[Chosen(T)] = f[Chosen(T)]
    BY <1>2 DEF S
  <2>2. [ T \in SUBSET S |-> IF T = {} THEN 0 ELSE Weight[Chosen(T)] * x.sim[Chosen(T)] + g[T \ {Chosen(T)}] ]
        = [ T \in SUBSET S |-> IF T = {} THEN 0 ELSE f[Chosen(T)] + g[T \ {Chosen(T)}] ]
    BY <2>1
  <2>3. QED
    BY <2>2 DEF IsMean, IsSumOf
<1>4. IsSumOf(h, f, S)
  BY SumsExist DEF S
<1>5. IsMean(CHOOSE g : IsMean(g, x, S), x, S)
  BY <1>3, <1>4
<1>6. (CHOOSE g : IsMean(g, x, S)) = h
  BY <1>3, <1>4, <1>5, SumsUnique DEF S
<1>7. QED
  BY <1>1, <1>6 DEF S

LEMMA MeansAreWeighed ==
    ASSUME NEW x, x.date \in Int, x.sim["company"] # Absent,
           \A name \in DOMAIN Weight : x.sim[name] \in Int \cup {Absent}
    PROVE  Weighed(x)
<1> DEFINE S == Present(x)
           f == [ name \in S |-> Weight[name] * x.sim[name] ]
<1>1. DOMAIN Weight = {"market", "sector", "company", "catalysts"} /\ \A name \in DOMAIN Weight : Weight[name] \in Nat
  BY DEF Weight
<1>2. S \subseteq DOMAIN Weight /\ "company" \in S
  BY <1>1 DEF Present
<1>3. IsFiniteSet(S)
  <2>1. IsFiniteSet({"market"}) /\ IsFiniteSet({"market"} \cup {"sector"})
    BY FS_Singleton, FS_AddElement
  <2>2. IsFiniteSet({"market"} \cup {"sector"} \cup {"company"})
    BY <2>1, FS_AddElement
  <2>3. IsFiniteSet({"market"} \cup {"sector"} \cup {"company"} \cup {"catalysts"})
    BY <2>2, FS_AddElement
  <2>4. DOMAIN Weight = {"market"} \cup {"sector"} \cup {"company"} \cup {"catalysts"}
    BY <1>1
  <2>5. QED
    BY <1>2, <2>3, <2>4, FS_Subset
<1>4. \A name \in S : f[name] \in Int
  BY <1>1 DEF Present
<1>5. Overall(x)[1] = SumOver(f, S) /\ SumOver(f, S) \in Int
  <2>1. \A name \in S : f[name] = Weight[name] * x.sim[name]
    OBVIOUS
  <2> HIDE DEF f
  <2>2. QED
    BY <1>3, <1>4, <2>1, NumeratorIsSum, SumInt
<1>6. Overall(x)[2] = SumOver(Weight, S)
  BY DEF Overall, SumOver, Present
<1> HIDE DEF S, f
<1>7. SumOver(Weight, {"company"}) = 30
  BY SumSingle DEF Weight
<1>8. SumOver(Weight, S) \in Nat /\ SumOver(Weight, {"company"}) <= SumOver(Weight, S)
  BY <1>1, <1>2, <1>3, SumNat, SumPart
<1>9. QED
  BY <1>5, <1>6, <1>7, <1>8 DEF Weighed

LEMMA SimilarIsInt == ASSUME NEW series, NEW target, NEW d PROVE Similarity(series, target, d) \in Int \cup {Absent}
<1>1. \A e : ZSign(series, target, e) \in Int
  BY DEF ZSign, SignOf
<1>2. QED
  BY <1>1 DEF Similarity

\* Those that passed the stages: one of a candidate, and all of them comparable.
LEMMA StagedAreOrdered ==
    ASSUME NEW db, NEW symbol, NEW target, NEW candidates \in SUBSET Int, IsFiniteSet(candidates)
    PROVE  LET S == Staged(db, symbol, target, candidates)
           IN  /\ IsFiniteSet(S) /\ Ordered(Ranked(S), S)
               /\ \A x \in S : x.date \in candidates
<1> DEFINE S == Staged(db, symbol, target, candidates)
           sim == [ d \in candidates |->
                     [ name \in DOMAIN Weight |-> Similarity(Domain(db, symbol, name), target, d) ] ]
           analogue(d) == [ date |-> d, sim |-> sim[d] ]
<1>1. PICK T \in SUBSET candidates :
         S = { analogue(d) : d \in { d \in T : sim[d].company # Absent } }
  <2> DEFINE market == Nearest({ d \in candidates : sim[d].market # Absent }, MarketCount,
                               [ d \in candidates |-> sim[d].market ])
             score  == [ d \in candidates |-> IF sim[d].sector = Absent THEN -2 ELSE sim[d].sector ]
             sector == IF Scorable(Domain(db, symbol, "sector"), target) THEN Nearest(market, SectorCount, score) ELSE market
  <2>1. sector \in SUBSET candidates
    BY NearestIsPart
  <2> HIDE DEF sim
  <2>2. S = { analogue(d) : d \in { d \in sector : sim[d].company # Absent } }
    BY DEF Staged, Select, sim
  <2>3. QED
    BY <2>1, <2>2
<1> DEFINE U == { d \in T : sim[d].company # Absent }
           f == [ d \in U |-> analogue(d) ]
<1>2. \A d \in U, name \in DOMAIN Weight : sim[d][name] \in Int \cup {Absent}
  BY SimilarIsInt
<1>3. IsFiniteSet(U)
  BY FS_Subset
<1> HIDE DEF S, sim
<1>4. \A x \in S : /\ x.date \in candidates /\ x = analogue(x.date)
                   /\ Weighed(x)
  <2> TAKE x \in S
  <2>1. PICK d \in U : x = analogue(d)
    BY <1>1
  <2>2. x.date = d /\ x.sim = sim[d] /\ sim[d].company # Absent
    BY <2>1
  <2>3. Weighed(x)
    BY <1>2, <2>2, MeansAreWeighed
  <2>4. QED
    BY <2>1, <2>2, <2>3
<1>5. f \in Surjection(U, S)
  BY <1>1 DEF Surjection
<1>6. IsFiniteSet(S)
  BY <1>3, <1>5, FS_Surjection
<1>7. Ordered(Ranked(S), S)
  <2>1. \A x, y \in S : x.date = y.date => x = y
    BY <1>4
  <2>2. QED
    BY <1>4, <2>1, AnaloguesAreOrdered
<1>8. QED
  BY <1>4, <1>6, <1>7 DEF S

-----------------------------------------------------------------------------
(* The embargo.                                                              *)

\* A session that is so many sessions after the first days is one of them.
LEMMA OwnIsObservable ==
    ASSUME NEW sessions, IsSeries(sessions), NEW target \in Int, NEW h \in Nat \ {0},
           NEW d \in DOMAIN sessions, d <= target,
           ForwardReturn(Through(sessions, target), d, h) # Absent
    PROVE  LabelObservable(sessions, d, target, h)
<1> DEFINE prices == Through(sessions, target)
           k == Rank(sessions, d) + h
<1>1. DOMAIN prices = { e \in DOMAIN sessions : e <= target }
  BY ThroughIs
<1>2. IsSeries(prices) /\ d \in DOMAIN prices
  BY <1>1, ThroughIsSeries
<1>3. Through(prices, target) = Through(sessions, target)
  BY ThroughTwice
<1>4. ForwardReturn(prices, d, h) # Absent
  OBVIOUS
<1> HIDE DEF prices
<1>5. \A e \in DOMAIN prices : Rank(prices, e) = Rank(sessions, e)
  BY <1>1, <1>2, <1>3, SameRank DEF IsSeries
<1>6. Rank(prices, d) + h < Cardinality(DOMAIN prices)
  BY <1>2, <1>4 DEF ForwardReturn, Position
<1>7. Rank(prices, d) \in 0 .. Cardinality(DOMAIN prices) - 1 /\ Cardinality(DOMAIN prices) \in Nat
  BY <1>2, DayHasRank
<1>8. k \in 0 .. Cardinality(DOMAIN prices) - 1
  BY <1>2, <1>5, <1>6, <1>7
<1> HIDE DEF k
<1>9. PICK e \in DOMAIN prices : Rank(prices, e) = k
  BY <1>1, <1>2, <1>8, DayHasRank
<1>10. e \in DOMAIN sessions /\ Rank(sessions, e) = k /\ e <= target
  BY <1>1, <1>5, <1>9
<1>11. DayAt(sessions, k) = e
  <2>1. \A x \in DOMAIN sessions : Rank(sessions, x) = k => x = e
    BY <1>10, DayHasRank
  <2>2. QED
    BY <1>10, <2>1 DEF DayAt
<1>12. k < Cardinality(DOMAIN sessions)
  <2>1. Cardinality(DOMAIN prices) <= Cardinality(DOMAIN sessions) /\ Cardinality(DOMAIN sessions) \in Nat
    BY <1>1, FS_Subset, FS_CardinalityType DEF IsSeries
  <2>2. QED
    BY <1>7, <1>8, <2>1
<1>13. QED
  BY <1>10, <1>11, <1>12 DEF LabelObservable, k

LEMMA PartIsOrdered ==
    ASSUME NEW S, Ordered(Ranked(S), S), NEW T \in SUBSET S PROVE Ordered(Ranked(T), T)
<1>1. \A x, y \in T : << x, y >> \in Ranked(T) <=> << x, y >> \in Ranked(S)
  BY DEF Ranked
<1>2. QED
  BY <1>1 DEF Ordered

OwnOf(sessions, chosen, target, h) ==
    Completed({ << d, ForwardReturn(Through(sessions, target), d, h) >> : d \in { x.date : x \in chosen } })

\* Every outcome used is of an analogue whose outcome was observable.
LEMMA OwnAreCounted ==
    ASSUME NEW sessions, IsSeries(sessions), NEW target \in Int, NEW h \in Nat \ {0},
           NEW chosen, IsFiniteSet(chosen), Ordered(Ranked(chosen), chosen),
           \A x \in chosen : x.date \in DOMAIN sessions /\ x.date <= target
    PROVE  LET analogues == InOrderOf(chosen)
           IN  ~ (Cardinality(OwnOf(sessions, chosen, target, h)) >
                    Cardinality({ i \in DOMAIN analogues : LabelObservable(sessions, analogues[i].date, target, h) }))
<1> DEFINE analogues == InOrderOf(chosen)
           prices == Through(sessions, target)
           own == OwnOf(sessions, chosen, target, h)
           counted == { i \in DOMAIN analogues : LabelObservable(sessions, analogues[i].date, target, h) }
           f == [ s \in own |-> CHOOSE i \in counted : analogues[i].date = s[1] ]
<1>1. /\ Cardinality(chosen) \in Nat
      /\ DOMAIN analogues = 1 .. Cardinality(chosen)
      /\ \A x \in chosen : \E i \in DOMAIN analogues : analogues[i] = x
  BY RankingListsAll
<1>2. \A s \in own : \E x \in chosen : s = << x.date, ForwardReturn(prices, x.date, h) >> /\ ForwardReturn(prices, x.date, h) # Absent
  BY DEF OwnOf, Completed
<1> HIDE DEF analogues, own
<1>3. ASSUME NEW s \in own PROVE \E i \in counted : analogues[i].date = s[1]
  <2>1. PICK x \in chosen : s = << x.date, ForwardReturn(prices, x.date, h) >> /\ ForwardReturn(prices, x.date, h) # Absent
    BY <1>2
  <2>2. LabelObservable(sessions, x.date, target, h)
    BY <2>1, OwnIsObservable
  <2>3. PICK i \in DOMAIN analogues : analogues[i] = x
    BY <1>1
  <2>4. i \in counted /\ analogues[i].date = s[1]
    BY <2>1, <2>2, <2>3
  <2>5. QED
    BY <2>4
<1>4. IsFiniteSet(counted) /\ Cardinality(counted) \in Nat
  <2>1. counted \in SUBSET (1 .. Cardinality(chosen))
    BY <1>1
  <2>2. 1 \in Int /\ Cardinality(chosen) \in Int
    BY <1>1
  <2> HIDE DEF counted
  <2>3. IsFiniteSet(1 .. Cardinality(chosen))
    BY <2>2, FS_Interval
  <2>4. QED
    BY <2>1, <2>3, FS_Subset, FS_CardinalityType
<1>5. \A s, t \in own : s[1] = t[1] => s = t
  BY <1>2
<1> HIDE DEF counted
<1>6. \A s \in own : f[s] \in counted /\ analogues[f[s]].date = s[1]
  BY <1>3
<1>7. f \in Injection(own, counted)
  <2>1. f \in [ own -> counted ]
    BY <1>6
  <2>2. \A s, t \in own : f[s] = f[t] => s = t
    BY <1>5, <1>6
  <2> HIDE DEF f
  <2>3. QED
    BY <2>1, <2>2 DEF Injection, IsInjective
<1> HIDE DEF f
<1>8. IsFiniteSet(own) /\ Cardinality(own) <= Cardinality(counted)
  BY <1>4, <1>7, FS_Injection
<1>9. Cardinality(own) \in Nat
  BY <1>8, FS_CardinalityType
<1>10. ~ (Cardinality(own) > Cardinality(counted))
  BY <1>4, <1>8, <1>9
<1>11. QED
  BY <1>10 DEF own, counted, analogues

\* A search asks for no outcome that was not observable on the day it is about.
LEMMA SearchKeepsEmbargo ==
    ASSUME NEW db, Proper(db), NEW symbol \in DOMAIN db.price, NEW asOf \in Int,
           DOMAIN Values(db, "ret", symbol) \subseteq DOMAIN db.price[symbol],
           DOMAIN Through(Values(db, "ret", symbol), asOf) # {}
    PROVE  Violations(db, symbol, Find(db, symbol, asOf)) = {}
<1> DEFINE index      == Values(db, "ret", symbol)
           sessions   == db.price[symbol]
           target     == LastDay(Through(index, asOf))
           candidates == Candidates(index, target)
           similar    == Staged(db, symbol, target, candidates)
           chosen     == Thinned(similar, [ d \in candidates |-> Rank(index, d) ])
           found      == Find(db, symbol, asOf)
<1>1. IsSeries(index) /\ IsSeries(sessions) /\ DOMAIN index \subseteq DOMAIN sessions
  BY ValuesAreSeries DEF Proper
<1>2. target \in Int
  BY <1>1, LastIsOfSeries
<1>3. found = FoundAmong(db, symbol, target, candidates, Cardinality(similar), chosen)
  BY FindParts
<1>4. Observable(db, symbol, target) = Through(sessions, target)
  BY DEF Observable
<1> HIDE DEF index, target, found, sessions
<1>5. candidates \in SUBSET DOMAIN index /\ \A d \in candidates : d \in Int /\ d <= target
  <2>1. \A d \in candidates : d \in Int /\ d \in DOMAIN index /\ d < target
    BY <1>1, <1>2, CandidatesComeBefore
  <2> HIDE DEF candidates
  <2>2. QED
    BY <1>2, <2>1
<1> HIDE DEF candidates
<1>6. candidates \in SUBSET Int /\ IsFiniteSet(candidates)
  BY <1>1, <1>5, FS_Subset DEF IsSeries
<1>7. IsFiniteSet(similar) /\ Ordered(Ranked(similar), similar) /\ \A x \in similar : x.date \in candidates
  BY <1>6, StagedAreOrdered
<1> HIDE DEF similar
<1>8. chosen \in SUBSET similar
  BY <1>7, ThinnedIsPart
<1> HIDE DEF chosen
<1>9. IsFiniteSet(chosen) /\ Ordered(Ranked(chosen), chosen)
  BY <1>7, <1>8, FS_Subset, PartIsOrdered
<1>10. \A x \in chosen : x.date \in DOMAIN sessions /\ x.date <= target
  BY <1>1, <1>5, <1>7, <1>8
<1>11. CASE found = NoAnalogues(target)
  BY <1>11 DEF NoAnalogues, Violations, found
<1>12. CASE found # NoAnalogues(target)
  <2> DEFINE outcomes == Followed(db, symbol, chosen, candidates, target)
  <2>1. found = [ asOf |-> target, analogues |-> InOrderOf(chosen), outcomes |-> outcomes ]
    BY <1>3, <1>12 DEF FoundAmong
  <2>2. \A h \in Lengths : outcomes[h].own = OwnOf(sessions, chosen, target, h)
    BY <1>4 DEF Followed, OwnOf
  <2> HIDE DEF outcomes
  <2>3. found.asOf = target /\ found.analogues = InOrderOf(chosen) /\ found.outcomes = outcomes
    BY <2>1
  <2>4. ASSUME NEW h \in Lengths
        PROVE  ~ (Cardinality(found.outcomes[h].own) >
                    Cardinality({ i \in DOMAIN found.analogues :
                                    LabelObservable(sessions, found.analogues[i].date, found.asOf, h) }))
    <3>1. h \in Nat \ {0}
      BY StudiesAssumption
    <3>2. QED
      BY <1>1, <1>2, <1>9, <1>10, <2>2, <2>3, <3>1, OwnAreCounted
  <2>5. Violations(db, symbol, found) = {}
    BY <2>4 DEF Violations, sessions
  <2>6. QED
    BY <2>5 DEF found
<1>13. QED
  BY <1>11, <1>12

LEMMA EveningsKeepEmbargo ==
    ASSUME NEW history \in Tapes, NEW early \in Int, NEW late \in Int, early <= late,
           NEW symbol \in Range(Targets), CanAnswer(Stored(history, early), "analogues", symbol, early)
    PROVE  Violations(Stored(history, late), symbol, Analogous(Stored(history, early), symbol, early).found) = {}
<1> DEFINE a == Stored(history, early)
           b == Stored(history, late)
           ret == Values(history, "ret", symbol)
<1>1. Proper(a) /\ Proper(b) /\ Agree(a, b, early)
  BY StoredIsProper, EveningsAgree
<1>2. symbol \in DOMAIN history.price /\ symbol \in DOMAIN a.price /\ symbol \in DOMAIN b.price
  BY StoredIs, TapesAssumption
<1>3. DOMAIN Values(b, "ret", symbol) \subseteq DOMAIN b.price[symbol]
  <2>1. DOMAIN ret \subseteq DOMAIN history.price[symbol]
    BY <1>2, TapesAssumption
  <2>2. CASE << "ret", symbol >> \in DOMAIN history.feature
    <3>1. Values(b, "ret", symbol) = Through(ret, late) /\ b.price[symbol] = Through(history.price[symbol], late)
      BY <1>2, <2>2, StoredIs DEF Values
    <3> HIDE DEF b, ret
    <3>2. \A series : DOMAIN Through(series, late) = { d \in DOMAIN series : d <= late }
      BY ThroughIs
    <3>3. QED
      BY <2>1, <3>1, <3>2
  <2>3. CASE << "ret", symbol >> \notin DOMAIN history.feature
    BY <2>3, StoredIs DEF Values, EmptySeries
  <2>4. QED
    BY <2>2, <2>3
<1>4. DOMAIN Through(Values(a, "ret", symbol), early) # {}
  BY DEF CanAnswer
<1> HIDE DEF a, b
<1>5. Through(Values(a, "ret", symbol), early) = Through(Values(b, "ret", symbol), early)
  BY <1>1, SameValues
<1>6. Find(a, symbol, early) = Find(b, symbol, early)
  BY <1>1, <1>2, <1>4, SameSearch
<1>7. Violations(b, symbol, Find(b, symbol, early)) = {}
  BY <1>1, <1>2, <1>3, <1>4, <1>5, SearchKeepsEmbargo
<1>8. Analogous(a, symbol, early).found = Find(a, symbol, early)
  BY DEF Analogous, WithScores
<1>9. QED
  BY <1>6, <1>7, <1>8 DEF a, b

\* verify_analogue_observability finds no violation on any later day: outcomes are
\* used of no more analogues than had one by the scoring date (validation/eligibility.py).
THEOREM EmbargoKept ==
    EvaluationInit /\ [][EvaluationNext]_evaluationVars => []EmbargoHolds
<1>1. EvaluationInit => AnswersInv
  BY QuestionsAssumption DEF EvaluationInit, AnswersInv
<1>2. AnswersInv => EmbargoHolds
  <2> SUFFICES ASSUME AnswersInv, told # Absent, told.model = "analogues"
               PROVE  Violations(Database, told.symbol, told.result.found) = {}
    BY DEF EmbargoHolds
  <2>1. /\ told.symbol \in Range(Targets) /\ told.asked \in Int /\ told.asked <= today
        /\ CanAnswer(Stored(tape, told.asked), "analogues", told.symbol, told.asked)
        /\ Memoryless(told, told.result) = Memoryless(told, Live("analogues", told.symbol, told.asked))
    BY DEF AnswersInv, Truthful
  <2>2. told.result = Live("analogues", told.symbol, told.asked)
    BY <2>1 DEF Memoryless
  <2>3. \A db, memory, symbol, asOf : Asking(db, memory, "analogues", symbol, asOf).result = Analogous(db, symbol, asOf)
    <3> TAKE db, memory, symbol, asOf
    <3>1. Asking(db, memory, "analogues", symbol, asOf) = [ result |-> Analogous(db, symbol, asOf), memory |-> memory ]
      BY DEF Asking
    <3>2. QED
      BY <3>1
  <2>4. told.result = Analogous(Stored(tape, told.asked), told.symbol, told.asked)
    BY <2>2, <2>3 DEF Live
  <2>5. QED
    BY <2>1, <2>4, EveningsKeepEmbargo DEF AnswersInv, Database
<1>3. QED
  BY <1>1, <1>2, NextAnswersInv, PTL
=============================================================================
