--------------------------------- MODULE Kvs ---------------------------------
(***************************************************************************)
(* The store of server/operations.c under concurrent calls.  Job threads   *)
(* call kvs_write, kvs_read, kvs_delete, kvs_show and kvs_backup; a call   *)
(* takes the table's read-write lock, goes through its pairs, keys or      *)
(* buckets one at a time, and releases the lock.                           *)
(*                                                                         *)
(* kvs_backup holds the read lock around fork only; the child's copy of    *)
(* the table, `image', is what its backup file will list.                  *)
(*                                                                         *)
(* An access through a wild pointer kills the process: `crashed'.          *)
(***************************************************************************)
EXTENDS KvsTable

CONSTANTS
    Threads,   \* the threads that call the store
    Commands,  \* the commands that occur in the job files
    NoThread,  \* nobody holds the write lock
    NoImage    \* kvs_backup has made no child

Command ==
    [op : {"write"}, args : Seq(Keys \X Values)]
      \cup [op : {"read", "delete"}, args : Seq(Keys)]
      \cup [op : {"show", "backup"}, args : {<<>>}]

ASSUME KvsAssumption ==
    /\ Commands \subseteq Command
    /\ NoThread \notin Threads
    /\ NotFound \notin Values /\ NoImage \notin HashTable

VARIABLES
    table,    \* kvs_table->table
    writer,   \* holder of tablelock for writing
    readers,  \* holders of tablelock for reading
    pc,       \* where each thread stands in its call
    cmd,      \* the current or last call of each thread
    pos,      \* next pair, key or bucket of the call
    out,      \* what the call has written to the job's .out file
    image,    \* the table as the child forked by the call has it
    crashed   \* the server process is dead

vars == <<table, writer, readers, pc, cmd, pos, out, image, crashed>>

NoCall == [op |-> "none", args |-> <<>>]

Init ==
    /\ table = create_hash_table
    /\ writer = NoThread
    /\ readers = {}
    /\ pc = [t \in Threads |-> "idle"]
    /\ cmd = [t \in Threads |-> NoCall]
    /\ pos = [t \in Threads |-> 1]
    /\ out = [t \in Threads |-> <<>>]
    /\ image = [t \in Threads |-> NoImage]
    /\ crashed = FALSE

-----------------------------------------------------------------------------
(* Entering a call, and the lock. *)

Call(t, c) ==
    /\ ~crashed /\ pc[t] = "idle"
    /\ pc' = [pc EXCEPT ![t] = "lock"]
    /\ cmd' = [cmd EXCEPT ![t] = c]
    /\ pos' = [pos EXCEPT ![t] = 1]
    /\ out' = [out EXCEPT ![t] = <<>>]
    /\ image' = [image EXCEPT ![t] = NoImage]
    /\ UNCHANGED <<table, writer, readers, crashed>>

Writes(t) == cmd[t].op \in {"write", "delete"}

Enter(t) ==
    /\ ~crashed /\ pc[t] = "lock"
    /\ pc' = [pc EXCEPT ![t] = "body"]
    /\ UNCHANGED <<table, cmd, pos, out, image, crashed>>

\* MUTANT: readers do not keep a writer out.
WrLockOverReaders(t) ==
    /\ Writes(t) /\ writer = NoThread
    /\ writer' = t
    /\ UNCHANGED readers
    /\ Enter(t)

WrLock(t) ==
    /\ Writes(t) /\ writer = NoThread /\ readers = {}
    /\ writer' = t
    /\ UNCHANGED readers
    /\ Enter(t)

RdLock(t) ==
    /\ ~Writes(t) /\ writer = NoThread
    /\ readers' = readers \cup {t}
    /\ UNCHANGED writer
    /\ Enter(t)

-----------------------------------------------------------------------------
(* The loops inside the calls: one iteration per step. *)

Steps(c) ==
    CASE c.op \in {"write", "read", "delete"} -> Len(c.args)
      [] c.op = "show"                        -> TABLE_SIZE
      [] OTHER                                -> 1

At(t, op) ==
    /\ ~crashed /\ pc[t] = "body" /\ cmd[t].op = op
    /\ pos[t] <= Steps(cmd[t])

\* The key an iteration of kvs_write, kvs_read or kvs_delete is about.
KeyAt(t) ==
    IF cmd[t].op = "write" THEN cmd[t].args[pos[t]][1] ELSE cmd[t].args[pos[t]]

Faults(t) ==
    \/ NoBucket(KeyAt(t))
    \/ Writes(t) /\ WildSubscribers(table, KeyAt(t))

\* MUTANT: the loop counts down.
Rewind(t) ==
    /\ pos' = [pos EXCEPT ![t] = @ - 1]
    /\ UNCHANGED <<writer, readers, pc, cmd, crashed>>

Advance(t) ==
    /\ pos' = [pos EXCEPT ![t] = @ + 1]
    /\ UNCHANGED <<writer, readers, pc, cmd, crashed>>

Emit(t, lines) == out' = [out EXCEPT ![t] = @ \o lines]

WritePair(t) ==
    /\ At(t, "write") /\ ~Faults(t)
    /\ \E residue \in HeapResidue :
          table' = write_pair(table, KeyAt(t), cmd[t].args[pos[t]][2], residue)
    /\ Advance(t) /\ UNCHANGED <<out, image>>

ReadPair(t) ==
    /\ At(t, "read") /\ ~Faults(t)
    /\ LET v == read_pair(table, KeyAt(t))
       IN  Emit(t, <<<<KeyAt(t), IF v = NotFound THEN "KVSERROR" ELSE v>>>>)
    /\ Advance(t) /\ UNCHANGED <<table, image>>

DeletePair(t) ==
    /\ At(t, "delete") /\ ~Faults(t)
    /\ IF Occurs(table[hash(KeyAt(t))], KeyAt(t))
       THEN table' = delete_pair(table, KeyAt(t)) /\ UNCHANGED out
       ELSE Emit(t, <<<<KeyAt(t), "KVSMISSING">>>>) /\ UNCHANGED table
    /\ Advance(t) /\ UNCHANGED image

ShowBucket(t) ==
    /\ At(t, "show")
    /\ Emit(t, Lines(table[pos[t] - 1]))
    /\ Advance(t) /\ UNCHANGED <<table, image>>

Fork(t) ==
    /\ At(t, "backup")
    /\ image' = [image EXCEPT ![t] = table]
    /\ Advance(t) /\ UNCHANGED <<table, out>>

ForkFails(t) ==
    /\ At(t, "backup")
    /\ Advance(t) /\ UNCHANGED <<table, out, image>>

\* SIGSEGV in one thread ends the whole server.
SegFault(t) ==
    /\ \E op \in {"write", "read", "delete"} : At(t, op)
    /\ Faults(t)
    /\ crashed' = TRUE
    /\ UNCHANGED <<table, writer, readers, pc, cmd, pos, out, image>>

\* MUTANT: the lock is released before the last iteration.
UnlockEarly(t) ==
    /\ ~crashed /\ pc[t] = "body" /\ pos[t] >= Steps(cmd[t])
    /\ pc' = [pc EXCEPT ![t] = "idle"]
    /\ writer' = IF Writes(t) THEN NoThread ELSE writer
    /\ readers' = readers \ {t}
    /\ UNCHANGED <<table, cmd, pos, out, image, crashed>>

Unlock(t) ==
    /\ ~crashed /\ pc[t] = "body" /\ pos[t] > Steps(cmd[t])
    /\ pc' = [pc EXCEPT ![t] = "idle"]
    /\ writer' = IF Writes(t) THEN NoThread ELSE writer
    /\ readers' = readers \ {t}
    /\ UNCHANGED <<table, cmd, pos, out, image, crashed>>

-----------------------------------------------------------------------------
Step(t) ==
    \/ WrLock(t) \/ RdLock(t)
    \/ WritePair(t) \/ ReadPair(t) \/ DeletePair(t) \/ ShowBucket(t)
    \/ Fork(t) \/ ForkFails(t)
    \/ SegFault(t)
    \/ Unlock(t)

\* A dead server stays dead: no thread is waiting for anything.
Dead == crashed /\ UNCHANGED vars

Next ==
    \/ \E t \in Threads : Step(t) \/ \E c \in Commands : Call(t, c)
    \/ Dead

Spec == Init /\ [][Next]_vars

-----------------------------------------------------------------------------
(* Properties *)

Line == Keys \X (Values \cup {"KVSERROR", "KVSMISSING"})

TypeOK ==
    /\ table \in HashTable
    /\ writer \in Threads \cup {NoThread}
    /\ readers \subseteq Threads
    /\ pc \in [Threads -> {"idle", "lock", "body"}]
    /\ cmd \in [Threads -> Command \cup {NoCall}]
    /\ pos \in [Threads -> Nat \ {0}]
    /\ out \in [Threads -> Seq(Line)]
    /\ image \in [Threads -> HashTable \cup {NoImage}]
    /\ crashed \in BOOLEAN

\* The table never holds a key twice or in a bucket its hash does not lead
\* to, and neither does the copy a backup lists: the search in write_pair
\* and the unlinking in delete_pair, under any interleaving of the calls.
TablesWellFormed ==
    /\ WellFormed(table)
    /\ \A t \in Threads : image[t] # NoImage => WellFormed(image[t])

\* While a call reads the table, from its lock to its unlock, no step of any
\* thread changes it: READ, SHOW and fork see one state of the store.
ReadersSeeOneTable ==
    [][(\E t \in Threads : pc[t] = "body" /\ ~Writes(t)) => table' = table]_vars

\* operations.h on kvs_write: "If key already exists it is updated."  With
\* keys that have a bucket nothing a job asks of the store can kill the
\* server; write_pair's uninitialised `head' decides.
UpdatesSurvive == ~crashed
=============================================================================
