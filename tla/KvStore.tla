------------------------------- MODULE KvStore -------------------------------
(***************************************************************************)
(* What the key-value store promises the job threads: a map from keys to   *)
(* values on which every command takes effect at one moment between its    *)
(* call and its return, all the pairs of a WRITE or DELETE together.       *)
(* operations.c promises it by a read-write lock around the whole table.   *)
(***************************************************************************)
EXTENDS KvSemantics

CONSTANTS
    Threads,  \* who calls the store
    Commands  \* what they may ask of it

VARIABLES
    store,   \* the map
    status,  \* of each thread: idle, pending (called), done (took effect)
    call,    \* the command of each thread
    reply,   \* the lines it prints
    crashed  \* the server is dead

vars == <<store, status, call, reply, crashed>>

Init ==
    /\ store = [k \in Keys |-> NotFound]
    /\ status = [t \in Threads |-> "idle"]
    /\ call = [t \in Threads |-> [op |-> "none", args |-> <<>>]]
    /\ reply = [t \in Threads |-> <<>>]
    /\ crashed = FALSE

Call(t, c) ==
    /\ ~crashed /\ status[t] = "idle"
    /\ status' = [status EXCEPT ![t] = "pending"]
    /\ call' = [call EXCEPT ![t] = c]
    /\ reply' = [reply EXCEPT ![t] = <<>>]
    /\ UNCHANGED <<store, crashed>>

TakeEffect(t) ==
    /\ ~crashed /\ status[t] = "pending"
    /\ store' = Effect(call[t], store)
    /\ \E r \in Replies(call[t], store) : reply' = [reply EXCEPT ![t] = r]
    /\ status' = [status EXCEPT ![t] = "done"]
    /\ UNCHANGED <<call, crashed>>

Return(t) ==
    /\ ~crashed /\ status[t] = "done"
    /\ status' = [status EXCEPT ![t] = "idle"]
    /\ UNCHANGED <<store, call, reply, crashed>>

Crash == crashed' = TRUE /\ UNCHANGED <<store, status, call, reply>>

Next ==
    \/ \E t \in Threads : TakeEffect(t) \/ Return(t)
    \/ \E t \in Threads, c \in Commands : Call(t, c)
    \/ Crash

Spec == Init /\ [][Next]_vars
=============================================================================
