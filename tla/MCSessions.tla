----------------------------- MODULE MCSessions -----------------------------
(* Requests for the runs of Sessions. *)
EXTENDS Sessions

CONSTANTS k1, k2

\* k1 is stored, k2 is not.
MCRequests ==
    {[op |-> "unsubscribe", key |-> k1], [op |-> "subscribe", key |-> k2],
     [op |-> "disconnect", key |-> k1]}

Symmetry == Permutations(Managers) \cup Permutations(Clients)
=============================================================================
