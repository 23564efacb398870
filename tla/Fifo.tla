-------------------------------- MODULE Fifo --------------------------------
(***************************************************************************)
(* What queue.c and its semaphores promise together: a bounded buffer from *)
(* which the managers take the connection requests in the order the host   *)
(* put them in, each of them once.                                         *)
(***************************************************************************)
EXTENDS Integers, Sequences

CONSTANTS
    Items,    \* what can be put in
    Takers,   \* who takes
    Nothing,  \* what a taker has between two items
    Capacity

VARIABLES
    buffer,  \* the items inside, oldest first
    taken    \* the item each taker has in hand

vars == <<buffer, taken>>

Init == buffer = <<>> /\ taken = [m \in Takers |-> Nothing]

Put(i) ==
    /\ Len(buffer) < Capacity
    /\ buffer' = Append(buffer, i)
    /\ UNCHANGED taken

Take(m) ==
    /\ buffer # <<>> /\ taken[m] = Nothing
    /\ taken' = [taken EXCEPT ![m] = Head(buffer)]
    /\ buffer' = Tail(buffer)

Drop(m) ==
    /\ taken' = [taken EXCEPT ![m] = Nothing]
    /\ UNCHANGED buffer

Next == (\E i \in Items : Put(i)) \/ \E m \in Takers : Take(m) \/ Drop(m)

Spec == Init /\ [][Next]_vars
=============================================================================
