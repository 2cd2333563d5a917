------------------------------ MODULE MCLedger ------------------------------
(***************************************************************************)
(* Instances of Ledger for TLC.  Importers meet one another at the unique  *)
(* index, rebuilders at the rows they delete, and an importer a rebuilder  *)
(* only through the ledger: an instance lets the members of one team work. *)
(***************************************************************************)
EXTENDS Ledger

CONSTANT Teams   \* sets of importers and rebuilders

VARIABLE active  \* the team at work

Row(ext, type, instr, date, quantity) ==
    [ ext |-> ext, type |-> type, instr |-> instr, date |-> date, quantity |-> quantity ]

\* A broker file that oversells on its own; its correction, which repeats a row
\* and adds a back-dated one; a file that is refused.
SomeFiles ==
    { << Row("a", "buy", "x", 1, 2), Row("b", "sell", "x", 2, 3) >>,
      << Row("a", "buy", "x", 1, 2), Row("c", "opening_balance", "x", 0, 2) >>,
      << Row("e", "dividend", None, 1, 0), Row("e", "dividend", None, 2, 0) >> }

MCInit == Init /\ active \in Teams

MCNext ==
    /\ \/ \E c \in Importers \intersect active : Import(c)
       \/ \E r \in Rebuilders \intersect active : RebuildStep(r) \/ CrashRebuild(r)
       \/ \E i \in Instruments, d \in TradingDays : Price(i, d)
    /\ UNCHANGED active

\* What the next step of a rebuild waits for.
CanStep(r) ==
    /\ rebuilder[r].pc = "idle" => Replay(ledger, Positions(ledger)).ok
    /\ rebuilder[r].pc = "clearing" => ~AwaitsClosures(r)
    /\ rebuilder[r].pc = "deleting" => ~AwaitsLots(r)

\* WF_vars(RebuildStep(r)) for the rebuilders of the team, written out: TLC would
\* evaluate ENABLED RebuildStep(r) by building every row of the rebuild.
TeamFairness ==
    \A r \in Rebuilders :
        \/ []<>~(r \in active /\ CanStep(r))
        \/ []<><< rebuilder'[r].pc # rebuilder[r].pc >>_vars

MCSpec == MCInit /\ [][MCNext]_<< vars, active >> /\ TeamFairness
=============================================================================
