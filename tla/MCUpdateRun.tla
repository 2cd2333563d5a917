---------------------------- MODULE MCUpdateRun ----------------------------
(* Instances of UpdateRun for TLC. *)
EXTENDS UpdateClaims, TLC

Symmetry == Permutations(Updates)

\* The whole pipeline, `--only prices`, and `--from-stage features`.
FullWindow == {<<1, 12>>}
SomeWindows == {<<1, 12>>, <<3, 3>>, <<7, 12>>}

NoSkips == {{}}
SomeSkips == {{}, {"macro", "reports"}}
=============================================================================
