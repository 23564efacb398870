-------------------------------- MODULE MCKvs --------------------------------
(* Model values for the runs of Kvs. *)
EXTENDS KvsRefinement

CONSTANTS a, B, one, odd, v1, v2

\* `B' ("B...") and `one' ("1...") share bucket 1, `a' is alone in bucket 0,
\* and `odd' ("_...") has no bucket; TABLE_SIZE 2 is what these keys reach.
MCInitial ==
    [k \in Keys |-> CASE k = a -> 97 [] k = B -> 66 [] k = one -> 49
                      [] k = odd -> 95]

MCCommands ==
    {[op |-> "write", args |-> <<<<one, v2>>, <<a, v1>>, <<one, v1>>>>],
     [op |-> "write", args |-> <<<<B, v1>>, <<one, v1>>>>],
     [op |-> "write", args |-> <<<<a, v1>>, <<odd, v1>>>>],
     [op |-> "delete", args |-> <<one, B, one>>],
     [op |-> "delete", args |-> <<B, a>>],
     [op |-> "read", args |-> <<B, one>>],
     [op |-> "read", args |-> <<a, odd>>],
     [op |-> "show", args |-> <<>>],
     [op |-> "backup", args |-> <<>>]}

MCUpdates ==
    {[op |-> "write", args |-> <<<<a, v1>>>>],
     [op |-> "write", args |-> <<<<a, v2>>>>]}
=============================================================================
