----------------------------- MODULE KvSemantics -----------------------------
(***************************************************************************)
(* What one command does to a map from keys to values, and the lines it    *)
(* answers with: what WRITE, READ, DELETE, SHOW and BACKUP of operations.c *)
(* come to, without buckets, loops or locks.                               *)
(***************************************************************************)
EXTENDS Integers, Sequences, SequencesExt

CONSTANTS
    Keys,     \* the key strings that occur
    NotFound  \* what the map says of an absent key

\* The positions of k in a WRITE; the last one decides.
Written(c, k) == {n \in DOMAIN c.args : c.args[n][1] = k}

Effect(c, s) ==
    CASE c.op = "write" ->
           [k \in Keys |-> IF Written(c, k) = {} THEN s[k]
                           ELSE c.args[Max(Written(c, k))][2]]
      [] c.op = "delete" ->
           [k \in Keys |-> IF k \in ToSet(c.args) THEN NotFound ELSE s[k]]
      [] OTHER -> s

\* A DELETE complains of a key that is absent, or that it names again.
Complains(c, s, n) ==
    \/ s[c.args[n]] = NotFound
    \/ \E m \in 1 .. n - 1 : c.args[m] = c.args[n]

Complaint(c, s, n) ==
    IF Complains(c, s, n) THEN <<<<c.args[n], "KVSMISSING">>>> ELSE <<>>

Missing(c, s) == FlattenSeq([n \in DOMAIN c.args |-> Complaint(c, s, n)])

\* SHOW and a backup list every pair once, in no promised order.
Listings(s) == SetToSeqs({<<k, s[k]>> : k \in {x \in Keys : s[x] # NotFound}})

Replies(c, s) ==
    CASE c.op = "write" -> {<<>>}
      [] c.op = "read" ->
           {[n \in DOMAIN c.args |->
               <<c.args[n], IF s[c.args[n]] = NotFound THEN "KVSERROR"
                            ELSE s[c.args[n]]>>]}
      [] c.op = "delete" -> {Missing(c, s)}
      [] c.op = "show" -> Listings(s)
      [] c.op = "backup" -> Listings(s) \cup {<<>>}  \* fork may fail
=============================================================================
