----------------------------- MODULE MCConnQueue -----------------------------
(* Model values for the runs of ConnQueue. *)
EXTENDS ConnQueueRefinement

CONSTANTS c1, c2

MCFifos == {c1, c2} \X {"request", "response", "notification"}
=============================================================================
