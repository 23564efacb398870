------------------------ MODULE ConnQueueRefinement ------------------------
(***************************************************************************)
(* ConnQueue implements Fifo: the buffer is what one reads by following    *)
(* `next' from the head of the linked list; a manager has taken a request  *)
(* when pop has unlinked its node.                                         *)
(***************************************************************************)
EXTENDS ConnQueue

\* The nodes reached from head, NULL when the end is passed.
Reached[i \in 0 .. Cardinality(Nodes)] ==
    IF i = 0 THEN queue.head
    ELSE IF Reached[i - 1] = NULL THEN NULL ELSE queue.next[Reached[i - 1]]

Buffer ==
    LET length == Cardinality({i \in DOMAIN Reached : Reached[i] # NULL})
    IN  [i \in 1 .. length |-> queue.data[Reached[i - 1]]]

Requests ==
    {[response_fifo_name     |-> <<c, "request">>,
      request_fifo_name      |-> <<c, "response">>,
      notification_fifo_name |-> <<c, "notification">>] : c \in Clients}

Taken ==
    [m \in Managers |->
       IF mpc[m] \in {"unlock", "post", "open", "session"}
       THEN name_fifos[m] ELSE NULL]

Ideal == INSTANCE Fifo WITH
           Items    <- Requests,
           Takers   <- Managers,
           Nothing  <- NULL,
           Capacity <- MAX_SESSION_COUNT,
           buffer   <- Buffer,
           taken    <- Taken

\* Requests reach the managers in the order the host read them, none lost,
\* doubled or mixed with another, and the host waits when the queue is full
\* (enqueue and pop on the linked list, under the mutex and semaphores).
ImplementsFifo == Ideal!Spec
=============================================================================
