------------------------ MODULE MCPredictionArchive -------------------------
(***************************************************************************)
(* Instances of PredictionArchive for TLC.  Reporters never read outcomes  *)
(* and evaluators only read which predictions there are, so the two are    *)
(* checked side by side: in one scene reporters contend for the archive,   *)
(* in the other evaluators sweep what one reporter archives.               *)
(***************************************************************************)
EXTENDS PredictionArchive

VARIABLE scene

Prediction(symbol, horizon) == [ symbol |-> symbol, asOf |-> 2, horizon |-> horizon ]
x == Prediction("x", "2d")
y == Prediction("y", "1d")

\* The sessions after 1 are 3, 4 and 5: the predictions are made on day 2, and y is never priced.
SomePrices == {"x"} \X {1, 3, 4}
SomeHorizons == [ h \in {"1d", "2d"} |-> IF h = "1d" THEN 1 ELSE 2 ]
SomeSweep == << x, y >>
SomeBatches == { << x, y >>, << y, x >> }

OneReporter == CHOOSE r \in Reporters : TRUE

MCInit ==
    /\ Init
    /\ scene \in {"archiving", "evaluating"}

MCNext ==
    /\ UNCHANGED scene
    /\ \/ scene = "archiving" /\ \E r \in Reporters : ReporterStep(r)
       \/ /\ scene = "evaluating"
          /\ \/ MarketStep
             \/ \E e \in Evaluators : SweepStep(e) \/ CrashEvaluator(e)
             \/ archive = << >> /\ ReporterStep(OneReporter)

MCSpec == MCInit /\ [][MCNext]_<< vars, scene >>
               /\ \A e \in Evaluators : WF_vars(SweepStep(e) /\ scene = "evaluating")
=============================================================================
