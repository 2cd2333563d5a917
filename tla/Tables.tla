------------------------------- MODULE Tables -------------------------------
(***************************************************************************)
(* A table is a function from its keys to its rows.  (As @@ of TLC, but    *)
(* with a definition that proofs can use.)                                 *)
(***************************************************************************)

\* The rows of new, over those of old that have other keys.
Over(new, old) ==
    [ key \in DOMAIN new \union DOMAIN old |-> IF key \in DOMAIN new THEN new[key] ELSE old[key] ]
=============================================================================
