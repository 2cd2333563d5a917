--------------------------- MODULE MCFeatureStore ---------------------------
(***************************************************************************)
(* Instances of FeatureStore for TLC.  Market features read the macro      *)
(* series only and instrument features the two other sources only, so the  *)
(* two are checked side by side, each with its own kinds of ingestion.     *)
(***************************************************************************)
EXTENDS FeatureStore

VARIABLE scene

\* The long end is published the day after, the short end at once.
SomeLags == [ s \in Series |-> IF s = "long" THEN 1 ELSE 0 ]

MCInit == Init /\ scene \in {"market", "instrument"}

RevisedMacro == world'.macro # world.macro

MCNext ==
    /\ UNCHANGED scene
    /\ Next
    /\ \A kind \in Kinds : Fetch(kind) => (kind = "macro") = (scene = "market")
    /\ Revise => RevisedMacro = (scene = "market")

MCSpec ==
    /\ MCInit /\ [][MCNext]_<< vars, scene >>
    /\ SF_vars(Fetch("macro") /\ scene = "market")
    /\ \A kind \in Kinds \ {"macro"} : SF_vars(Fetch(kind) /\ scene = "instrument")
    /\ WF_vars(CommitIngest) /\ WF_vars(BeginBuild) /\ WF_vars(CommitBuild)
=============================================================================
