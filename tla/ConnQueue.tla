------------------------------ MODULE ConnQueue ------------------------------
(***************************************************************************)
(* Connection requests on their way from the host thread, which reads the  *)
(* register fifo, to the manager threads, which serve one client each      *)
(* (server/main.c, manages_register_fifo and manager_thread_handler).      *)
(*                                                                         *)
(* Producer and consumers share the list of queue.c under lock_queue; the  *)
(* semaphore `empty' counts free places, `full' counts waiting requests.   *)
(* The host runs from the start, the managers only after the job phase.    *)
(*                                                                         *)
(* A manager whose fifos could be opened stays with that client: its loop  *)
(* over the client's commands has no exit, not even after a DISCONNECT.    *)
(***************************************************************************)
EXTENDS QueueList

CONSTANTS
    Clients,            \* clients that ask for a connection
    Managers,           \* the manager threads
    host,               \* the host thread
    MAX_SESSION_COUNT,  \* initial value of `empty'
    NoThread            \* nobody owns lock_queue

ASSUME ConnQueueAssumption ==
    /\ IsFiniteSet(Managers)
    /\ MAX_SESSION_COUNT \in Nat \ {0}
    /\ Cardinality(Nodes) >= MAX_SESSION_COUNT
    /\ host \notin Managers /\ NoThread \notin Managers \cup {host}
    /\ Fifos = Clients \X {"request", "response", "notification"}

VARIABLES
    queue,       \* manager_queue
    empty,       \* semaphore
    full,        \* semaphore
    lock_queue,  \* owner of the mutex
    hpc,         \* where the host stands
    client,      \* the client whose fifo names the host has extracted
    new,         \* the node enqueue is about to link
    mpc,         \* where each manager stands
    name_fifos   \* what pop returns to each manager

vars == <<queue, empty, full, lock_queue, hpc, client, new, mpc, name_fifos>>

hostVars == <<hpc, client, new>>
managerVars == <<mpc, name_fifos>>

Init ==
    /\ queue = create_queue
    /\ empty = MAX_SESSION_COUNT
    /\ full = 0
    /\ lock_queue = NoThread
    /\ hpc = "read"
    /\ client = NULL
    /\ new = NULL
    /\ mpc = [m \in Managers |-> "absent"]
    /\ name_fifos = [m \in Managers |-> NULL]

-----------------------------------------------------------------------------
(* The host thread. *)

HostGoto(from, to) == hpc = from /\ hpc' = to

\* A CONNECT message: the paths of one client are copied out of the buffer.
\* Reads that are not a CONNECT leave the queue alone.
HostRead(c) ==
    /\ HostGoto("read", "wait")
    /\ client' = c
    /\ UNCHANGED <<queue, empty, full, lock_queue, new, managerVars>>

\* MUTANT: `empty' is decremented without waiting for a place.
HostTryEmpty ==
    /\ HostGoto("wait", "lock")
    /\ empty' = empty - 1
    /\ UNCHANGED <<queue, full, lock_queue, client, new, managerVars>>

HostWaitEmpty ==
    /\ empty > 0
    /\ HostGoto("wait", "lock")
    /\ empty' = empty - 1
    /\ UNCHANGED <<queue, full, lock_queue, client, new, managerVars>>

HostLock ==
    /\ lock_queue = NoThread
    /\ HostGoto("lock", "fill")
    /\ lock_queue' = host
    /\ UNCHANGED <<queue, empty, full, client, new, managerVars>>

\* main.c passes the request fifo first, queue.c takes the response fifo
\* first: each name ends up in the other's field.
HostFill ==
    /\ HostGoto("fill", "link")
    /\ \E node \in Nodes \ queue.live :
          /\ new' = node
          /\ queue' = new_node(queue, node, <<client, "request">>,
                              <<client, "response">>, <<client, "notification">>)
    /\ UNCHANGED <<empty, full, lock_queue, client, managerVars>>

HostEnqueue ==
    /\ HostGoto("link", "unlock")
    /\ queue' = enqueue(queue, new)
    /\ UNCHANGED <<empty, full, lock_queue, client, new, managerVars>>

HostUnlock ==
    /\ HostGoto("unlock", "post")
    /\ lock_queue' = NoThread
    /\ UNCHANGED <<queue, empty, full, client, new, managerVars>>

\* MUTANT: a wakeup is lost when one is pending already.
HostPostBinary ==
    /\ HostGoto("post", "read")
    /\ full' = 1
    /\ UNCHANGED <<queue, empty, lock_queue, client, new, managerVars>>

HostPostFull ==
    /\ HostGoto("post", "read")
    /\ full' = full + 1
    /\ UNCHANGED <<queue, empty, lock_queue, client, new, managerVars>>

-----------------------------------------------------------------------------
(* The manager threads. *)

Goto(m, from, to) == mpc[m] = from /\ mpc' = [mpc EXCEPT ![m] = to]

\* main creates them once every job has ended and every backup is reaped.
Create(m) ==
    /\ Goto(m, "absent", "wait")
    /\ UNCHANGED <<queue, empty, full, lock_queue, hostVars, name_fifos>>

\* MUTANT: sem_trywait, its result not looked at.
TryFull(m) ==
    /\ Goto(m, "wait", "lock")
    /\ full' = IF full > 0 THEN full - 1 ELSE 0
    /\ UNCHANGED <<queue, empty, lock_queue, hostVars, name_fifos>>

WaitFull(m) ==
    /\ full > 0
    /\ Goto(m, "wait", "lock")
    /\ full' = full - 1
    /\ UNCHANGED <<queue, empty, lock_queue, hostVars, name_fifos>>

\* MUTANT: the mutex is not taken.
LockUnguarded(m) ==
    /\ Goto(m, "lock", "copy")
    /\ lock_queue' = m
    /\ UNCHANGED <<queue, empty, full, hostVars, name_fifos>>

Lock(m) ==
    /\ lock_queue = NoThread
    /\ Goto(m, "lock", "copy")
    /\ lock_queue' = m
    /\ UNCHANGED <<queue, empty, full, hostVars, name_fifos>>

Copy(m) ==
    /\ Goto(m, "copy", "unlink")
    /\ name_fifos' = [name_fifos EXCEPT ![m] = front(queue)]
    /\ UNCHANGED <<queue, empty, full, lock_queue, hostVars>>

Pop(m) ==
    /\ Goto(m, "unlink", "unlock")
    /\ queue' = pop(queue)
    /\ UNCHANGED <<empty, full, lock_queue, hostVars, name_fifos>>

Unlock(m) ==
    /\ Goto(m, "unlock", "post")
    /\ lock_queue' = NoThread
    /\ UNCHANGED <<queue, empty, full, hostVars, name_fifos>>

\* MUTANT: the place is kept until the client has gone.
PostLost(m) ==
    /\ Goto(m, "post", "open")
    /\ UNCHANGED <<queue, empty, full, lock_queue, hostVars, name_fifos>>

PostEmpty(m) ==
    /\ Goto(m, "post", "open")
    /\ empty' = empty + 1
    /\ UNCHANGED <<queue, full, lock_queue, hostVars, name_fifos>>

\* pop returned NULL, or one of the fifos could not be opened.  An open that
\* blocks for ever is a manager that stays in "open".
Skip(m) ==
    /\ Goto(m, "open", "wait")
    /\ UNCHANGED <<queue, empty, full, lock_queue, hostVars, name_fifos>>

\* The fifos are open; the loop over the client's commands begins.
Session(m) ==
    /\ name_fifos[m] # NULL
    /\ Goto(m, "open", "session")
    /\ UNCHANGED <<queue, empty, full, lock_queue, hostVars, name_fifos>>

-----------------------------------------------------------------------------
HostStep ==
    \/ HostWaitEmpty \/ HostLock \/ HostFill \/ HostEnqueue \/ HostUnlock
    \/ HostPostFull

TakeStep(m) ==
    \/ WaitFull(m) \/ Lock(m) \/ Copy(m) \/ Pop(m) \/ Unlock(m) \/ PostEmpty(m)

Next ==
    \/ \E c \in Clients : HostRead(c)
    \/ HostStep
    \/ \E m \in Managers : Create(m) \/ TakeStep(m) \/ Skip(m) \/ Session(m)

Spec == Init /\ [][Next]_vars

\* Threads run: a thread that can take its next step for ever takes it.
\* Nothing is assumed of who gets a mutex or a semaphore first, of clients,
\* or of how long an open blocks.
Fairness == WF_vars(HostStep) /\ \A m \in Managers : WF_vars(TakeStep(m))

FairSpec == Spec /\ Fairness

-----------------------------------------------------------------------------
(* Properties *)

HostPCs == {"read", "wait", "lock", "fill", "link", "unlock", "post"}
ManagerPCs ==
    {"absent", "wait", "lock", "copy", "unlink", "unlock", "post", "open",
     "session"}

TypeOK ==
    /\ queue \in Queue
    /\ empty \in Nat
    /\ full \in Nat
    /\ lock_queue \in Managers \cup {host, NoThread}
    /\ hpc \in HostPCs
    /\ client \in Clients \cup {NULL}
    /\ new \in Link
    /\ mpc \in [Managers -> ManagerPCs]
    /\ name_fifos \in [Managers -> Connection \cup {NULL}]

\* Places and requests that a thread has taken from one semaphore and not
\* yet given to the other.
HostHolds ==
    IF hpc \in {"lock", "fill", "link", "unlock", "post"} THEN 1 ELSE 0
Holding ==
    {m \in Managers : mpc[m] \in {"lock", "copy", "unlink", "unlock", "post"}}

\* No place is lost or made twice: whatever the threads do, free places,
\* waiting requests and those in a thread's hands add up to the number
\* `empty' was initialised with (the four semaphore calls of main.c).
PlacesAreConserved ==
    empty + full + HostHolds + Cardinality(Holding) = MAX_SESSION_COUNT

\* The list never holds more requests than there are places for, and a
\* manager that was let through by `full' finds one: the test for NULL after
\* pop is never needed, and no client is dropped by it.
PopFindsRequest ==
    /\ Cardinality(queue.live) <= MAX_SESSION_COUNT
    /\ \A m \in Managers : mpc[m] \in {"copy", "unlink"} => ~isEmpty(queue)

\* The pointers of the list stay inside it, between any two steps of the
\* host and the managers: no use of a freed node in enqueue or pop.
ListIsSound == NoDangling(queue)

\* A request at the front does not stay there while a manager is waiting:
\* some manager takes it, or every manager is with a client or opening one's
\* fifos.  What a lost sem_post or a missed wakeup would break.
FrontIsTaken ==
    \A n \in Nodes :
       (queue.head = n) ~>
          \/ queue.head # n
          \/ \A m \in Managers : mpc[m] \in {"absent", "open", "session"}
=============================================================================
