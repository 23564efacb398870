------------------------------ MODULE QueueList ------------------------------
(***************************************************************************)
(* The linked list of server/queue.c: head and tail pointers, and malloc'd *)
(* nodes.  A node that is freed keeps its contents until malloc hands it   *)
(* out again, so a pointer left behind to it would be followed.            *)
(***************************************************************************)
EXTENDS Integers, FiniteSets, Sequences

CONSTANTS
    Nodes,  \* the chunks malloc may return for a node
    Fifos,  \* path names of clients' fifos
    NULL

ASSUME QueueListAssumption ==
    /\ IsFiniteSet(Nodes)
    /\ NULL \notin Nodes

Connection ==
    [response_fifo_name : Fifos, request_fifo_name : Fifos,
     notification_fifo_name : Fifos]

Link == Nodes \cup {NULL}

Queue ==
    [head : Link, tail : Link, live : SUBSET Nodes,
     next : [Nodes -> Link], data : [Nodes -> Connection \cup {NULL}]]

create_queue ==
    [head |-> NULL, tail |-> NULL, live |-> {},
     next |-> [n \in Nodes |-> NULL], data |-> [n \in Nodes |-> NULL]]

isEmpty(q) == q.head = NULL

\* enqueue: a node, filled in, with the parameters in the order of queue.c;
\* `node' is what malloc returned ...
new_node(q, node, response_fifo, request_fifo, notification_fifo) ==
    [q EXCEPT !.live = @ \cup {node},
              !.next = [@ EXCEPT ![node] = NULL],
              !.data = [@ EXCEPT ![node] =
                          [response_fifo_name     |-> response_fifo,
                           request_fifo_name      |-> request_fifo,
                           notification_fifo_name |-> notification_fifo]]]

\* ... and linked behind the last one.
enqueue(q, node) ==
    [q EXCEPT !.head = IF q.tail = NULL THEN node ELSE @,
              !.next = [n \in Nodes |-> IF n = q.tail THEN node ELSE @[n]],
              !.tail = node]

\* pop: the contents of the head are copied ...
front(q) == IF isEmpty(q) THEN NULL ELSE q.data[q.head]

\* MUTANT: tail keeps pointing to the freed node.
PopKeepsTail(q) ==
    IF isEmpty(q) THEN q
    ELSE [q EXCEPT !.head = q.next[q.head], !.live = @ \ {q.head}]

\* ... and the head is unlinked and freed.
pop(q) ==
    IF isEmpty(q) THEN q
    ELSE [q EXCEPT !.head = q.next[q.head],
                   !.tail = IF q.next[q.head] = NULL THEN NULL ELSE @,
                   !.live = @ \ {q.head}]

-----------------------------------------------------------------------------
\* No pointer that a later call follows leads to a freed node.
NoDangling(q) ==
    /\ q.head \in q.live \cup {NULL}
    /\ q.tail \in q.live \cup {NULL}
    /\ q.head = NULL <=> q.tail = NULL
    /\ \A n \in q.live : q.next[n] \in q.live \cup {NULL}
=============================================================================
