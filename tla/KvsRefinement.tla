---------------------------- MODULE KvsRefinement ----------------------------
(***************************************************************************)
(* Kvs implements KvStore.  A call takes effect when it gets the lock (a   *)
(* backup: when it forks).  From then on its outcome is fixed, so the      *)
(* abstract map is the table with the rest of the writer's loop applied to *)
(* it, and the abstract reply is what was printed plus what is still to be *)
(* printed.                                                                *)
(***************************************************************************)
EXTENDS Kvs

InBody(t) == pc[t] = "body"

\* What is left of a call whose loop stands at pos[t].
Rest(t) ==
    [op   |-> cmd[t].op,
     args |-> SubSeq(cmd[t].args, pos[t], Len(cmd[t].args))]

Listing(ht, from) ==
    FlattenSeq([n \in 1 .. TABLE_SIZE - from + 1 |-> Lines(ht[from + n - 2])])

Sem == INSTANCE KvSemantics

StoreMap ==
    IF writer = NoThread THEN Contents(table)
    ELSE Sem!Effect(Rest(writer), Contents(table))

Status(t) ==
    CASE pc[t] = "idle" -> "idle"
      [] pc[t] = "lock" -> "pending"
      [] InBody(t) /\ cmd[t].op = "backup" /\ pos[t] = 1 -> "pending"
      [] OTHER -> "done"

RestOfReply(t) ==
    CASE cmd[t].op = "show" -> Listing(table, pos[t])
      [] cmd[t].op = "backup" -> <<>>
      [] OTHER -> CHOOSE r \in Sem!Replies(Rest(t), Contents(table)) : TRUE

Reply(t) ==
    IF image[t] # NoImage THEN Listing(image[t], 1)
    ELSE IF InBody(t) THEN out[t] \o RestOfReply(t)
    ELSE out[t]

Store == INSTANCE KvStore WITH
           store <- StoreMap, call <- cmd,
           status <- [t \in Threads |-> Status(t)],
           reply <- [t \in Threads |-> Reply(t)]

\* The store that the job threads see is the abstract one: commands do not
\* interfere, and no READ, SHOW or backup observes half of a WRITE or DELETE
\* (the locks of operations.c and the loops inside them).
ImplementsKvStore == Store!Spec
=============================================================================
