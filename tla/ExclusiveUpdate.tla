-------------------------- MODULE ExclusiveUpdate --------------------------
(***************************************************************************)
(* What the update promises its users, with no lock, audit row, retry or   *)
(* crash in sight: updates work one at a time, each serves the stages of   *)
(* the pipeline in dependency order, and besides the working update only   *)
(* the commands that run a single stage write.                             *)
(***************************************************************************)
EXTENDS StagePlan

CONSTANTS
    Updates, None, Inputs,
    Command,    \* the writer of what a command commits
    Commanded   \* the inputs that commands are run for

VARIABLES
    phase,   \* each update is waiting, working or gone
    served,  \* the stages each update has served, or taken over as served
    data     \* who wrote each input of the assessment last

vars == << phase, served, data >>

Init ==
    /\ phase = [u \in Updates |-> "waiting"]
    /\ served = [u \in Updates |-> {}]
    /\ data = [s \in Inputs |-> None]

\* Nobody is working, so u may.
Begin(u) ==
    /\ \A v \in Updates : phase[v] # "working"
    /\ phase[u] = "waiting"
    /\ phase' = [phase EXCEPT ![u] = "working"]
    /\ UNCHANGED << served, data >>

\* u takes a stage over from the run it resumes: nothing is written.
TakeOver(u, s) ==
    /\ phase[u] = "working"
    /\ served' = [served EXCEPT ![u] = @ \union {s}]
    /\ UNCHANGED << phase, data >>

Write(u, s) ==
    data' = IF s \in Inputs THEN [data EXCEPT ![s] = u] ELSE data

\* u serves a stage whose dependencies it has served.
Serve(u, s) ==
    /\ phase[u] = "working"
    /\ s \notin served[u]
    /\ DEPENDENCIES[s] \subseteq served[u]
    /\ served' = [served EXCEPT ![u] = @ \union {s}]
    /\ Write(u, s)
    /\ UNCHANGED phase

\* u writes what it could of a stage without serving it.
Attempt(u, s) ==
    /\ phase[u] = "working"
    /\ s \notin served[u]
    /\ DEPENDENCIES[s] \subseteq served[u]
    /\ Write(u, s)
    /\ UNCHANGED << phase, served >>

\* u gives up waiting, or is done working.
Leave(u) ==
    /\ phase[u] # "gone"
    /\ phase' = [phase EXCEPT ![u] = "gone"]
    /\ served' = [served EXCEPT ![u] = {}]
    /\ UNCHANGED data

\* A command rewrites an input, whoever works.
Overwrite(s) ==
    /\ data' = [data EXCEPT ![s] = Command]
    /\ UNCHANGED << phase, served >>

Next ==
    \/ \E u \in Updates :
        \/ Begin(u) \/ Leave(u)
        \/ \E s \in Stages \ GateStages : TakeOver(u, s) \/ Serve(u, s) \/ Attempt(u, s)
    \/ \E s \in Commanded : Overwrite(s)

Spec == Init /\ [][Next]_vars
=============================================================================
