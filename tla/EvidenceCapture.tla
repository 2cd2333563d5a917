-------------------------- MODULE EvidenceCapture ---------------------------
(***************************************************************************)
(* Walk-forward capture by the experiment harness                          *)
(* (research/experiments/harness.py): evidence of every model for every    *)
(* pair of symbol and scoring date is appended to a file that the analysis *)
(* reads later, behind a frozen pre-registration (prereg.py,               *)
(* cli/experiment.py).                                                     *)
(*                                                                         *)
(* The writer is buffered and meant to be killed and resumed: the file may *)
(* end in the middle of a pair, of a line, or just before a line's         *)
(* newline.  A pair counts as captured once its marker is in the file.     *)
(***************************************************************************)
EXTENDS Integers, Sequences, FiniteSets

CONSTANTS
    Pairs,        \* all pairs, 1 .. Pairs in the order they are captured
    Grids,        \* the pairs that the options of a capture may select
    Models,       \* the models, 1 .. Models in their order
    Plans,        \* what a pre-registration may say
    NoPlan,
    MaxKills,     \* bound: writers killed, or failed by a model
    MaxEdits      \* bound: edits of a pre-registration

ASSUME GridAssumption == Pairs \in Nat /\ Models \in Nat /\ Grids \subseteq SUBSET (1 .. Pairs)

VARIABLES
    file,     \* the lines of the predictions file
    ended,    \* whether the last of them has its newline
    prereg,   \* [plan, digest]: the pre-registration on disk, frozen with a digest
    writer,   \* "idle", "writing", or "done"
    grid,     \* the pairs this capture is to cover
    done,     \* the pairs the writer found captured when it began
    pass,     \* the captures begun so far
    under,    \* what the pre-registration said when this capture began
    kills,
    edits

captureVars == << file, ended, prereg, writer, grid, done, pass, under, kills, edits >>

----------------------------------------------------------------------------
(***************************************************************************)
(* The pre-registration: a digest is what it is taken over.                *)
(***************************************************************************)

IsFrozen == prereg.digest # NoPlan

\* A defect: that a digest is there is taken for the plan being unchanged.
FrozenOnce == IsFrozen

Verified == IsFrozen /\ prereg.digest = prereg.plan

\* `mip experiment freeze` does not touch a plan that is frozen.
Freeze(plan) ==
    /\ ~ IsFrozen
    /\ prereg' = [plan |-> plan, digest |-> plan]
    /\ UNCHANGED << file, ended, writer, grid, done, pass, under, kills, edits >>

\* Somebody edits the file: a plan changes, its digest stays.
Edit(plan) ==
    /\ IsFrozen /\ edits < MaxEdits
    /\ prereg' = [prereg EXCEPT !.plan = plan]
    /\ edits' = edits + 1
    /\ UNCHANGED << file, ended, writer, grid, done, pass, under, kills >>

----------------------------------------------------------------------------
(***************************************************************************)
(* Lines.                                                                  *)
(***************************************************************************)

Torn == [pair |-> 0, model |-> 0, kind |-> "torn", pass |-> 0, plan |-> NoPlan]

Line(pair, model, kind) ==
    [pair |-> pair, model |-> model, kind |-> kind, pass |-> pass, plan |-> under]

\* What capturing a pair writes: one line for each model, be it evidence, an
\* omission or an error; and the marker.
Block(pair) ==
    [ m \in 1 .. Models |-> Line(pair, m, "outcome") ] \o << Line(pair, 0, "pair_done") >>

Readable(lines) == \A i \in DOMAIN lines : lines[i].kind # "torn"

\* A defect: a pair with any line counts.
CapturedByAnyLine(lines) == { lines[i].pair : i \in DOMAIN lines }

Captured(lines) == { lines[i].pair : i \in { j \in DOMAIN lines : lines[j].kind = "pair_done" } }

\* What is appended to a line without its newline is glued to it, and neither
\* can be parsed any more.
Appended(lines) ==
    IF ended THEN file \o lines
    ELSE [file EXCEPT ![Len(file)] = Torn] \o Tail(lines)

----------------------------------------------------------------------------
(***************************************************************************)
(* Capture.                                                                *)
(***************************************************************************)

\* The grid comes from the command's options and from the calendar and prices
\* of the day; nothing compares it with the windows of the pre-registration.  A
\* line that does not parse ends a capture before it begins.
Begin ==
    /\ writer = "idle"
    /\ Verified
    /\ Readable(file)
    /\ writer' = "writing"
    /\ grid' \in Grids
    /\ done' = Captured(file)
    /\ pass' = pass + 1
    /\ under' = prereg.plan
    /\ UNCHANGED << file, ended, prereg, kills, edits >>

Due == { p \in grid : p \notin done }

Next1 == CHOOSE p \in Due : \A q \in Due : p <= q

\* The pair's lines reach the file together with the flush after them.
CapturePair ==
    /\ writer = "writing" /\ Due # {}
    /\ file' = Appended(Block(Next1))
    /\ ended' = TRUE
    /\ done' = done \union {Next1}
    /\ UNCHANGED << prereg, writer, grid, pass, under, kills, edits >>

Finish ==
    /\ writer = "writing" /\ Due = {}
    /\ writer' = "done"
    /\ UNCHANGED << file, ended, prereg, grid, done, pass, under, kills, edits >>

\* How far the buffer got: the first n lines of the next pair, and perhaps a
\* piece of the line after them, or all of it but its newline.
Flushed(n) ==
    LET whole == SubSeq(Block(Next1), 1, n) IN
    \/ n > 0 /\ file' = Appended(whole) /\ ended' = TRUE
    \/ \E cut \in {Torn, Block(Next1)[n + 1]} :
           file' = Appended(whole \o << cut >>) /\ ended' = FALSE

\* The writer dies before or while the buffer is flushed.
Kill ==
    /\ writer = "writing" /\ kills < MaxKills
    /\ kills' = kills + 1
    /\ writer' = "idle"
    /\ \/ UNCHANGED << file, ended >>
       \/ Due # {} /\ \E n \in 0 .. Models : Flushed(n)
    /\ UNCHANGED << prereg, grid, done, pass, under, edits >>

\* A model that resolves a later date than it was asked for ends the capture
\* before anything of the pair is written.
Abort ==
    /\ writer = "writing" /\ Due # {} /\ kills < MaxKills
    /\ kills' = kills + 1
    /\ writer' = "idle"
    /\ UNCHANGED << file, ended, prereg, grid, done, pass, under, edits >>

----------------------------------------------------------------------------
CaptureInit ==
    /\ file = << >> /\ ended = TRUE /\ prereg = [plan |-> NoPlan, digest |-> NoPlan]
    /\ writer = "idle" /\ grid = {} /\ done = {} /\ pass = 0 /\ under = NoPlan
    /\ kills = 0 /\ edits = 0

CaptureNext ==
    \/ \E plan \in Plans : Freeze(plan) \/ Edit(plan)
    \/ Begin \/ CapturePair \/ Finish \/ Kill \/ Abort

CaptureSpec == CaptureInit /\ [][CaptureNext]_captureVars

----------------------------------------------------------------------------
(***************************************************************************)
(* Properties.                                                             *)
(***************************************************************************)

\* Is every model in one pass over a pair?
Whole(lines, pair, n) ==
    \A m \in 1 .. Models : \E i \in DOMAIN lines :
        lines[i].pair = pair /\ lines[i].pass = n /\ lines[i].model = m

\* "It is resumable, de-duplicates" (harness.py:6): wherever the harness's
\* writers were killed, and whichever grids they covered, a pair that a next
\* capture would skip (harness.py:143-152, _done) has a line of every model,
\* from one pass over it.  A next capture skips nothing of a file it cannot
\* read.  The older driver validation/walkforward.py, whose _done_dates takes
\* any line of a date, is not the subject.
SkippedPairsAreWhole ==
    Readable(file) =>
        \A p \in Captured(file) : \E n \in 1 .. pass : Whole(file, p, n)

\* "REFUSES without a verified frozen pre-registration"
\* (cli/experiment.py:136-137): a pre-registration edited between two captures
\* stops the second, so whatever line can be read was captured while the one
\* pre-registration that was frozen said what it said when it was frozen.  This
\* does not make the captured pairs those of its windows: the grid is an option
\* of the command.
OneFrozenPlan ==
    \A i \in DOMAIN file :
        file[i].kind # "torn" => IsFrozen /\ file[i].plan = prereg.digest
=============================================================================
