--------------------------- MODULE ConnQueueProofs ---------------------------
(***************************************************************************)
(* Proofs about ConnQueue, for any number of places, managers and clients: *)
(* no place is lost, pop always finds a request, the linked list never     *)
(* leads to a freed node, and the whole is a Fifo (QueueIsFifo).           *)
(*                                                                         *)
(* None of them is inductive.  That pop finds a request needs the live     *)
(* nodes counted against `full' and the threads between semaphore and list *)
(* (Counted); that the pointers are sound needs the list to be ONE chain   *)
(* from head to tail (Linked): pointers that are merely all live could     *)
(* still close a cycle beside it.  The refinement needs the chain too: the *)
(* abstract buffer is what one reads along it (BufferIsChain).             *)
(***************************************************************************)
EXTENDS ConnQueueRefinement, SequenceTheorems, FiniteSetTheorems,
        WellFoundedInduction, TLAPS

\* The nodes of s, in order, are the list from head to tail.
IsChain(q, s) ==
    /\ \A i, j \in 1 .. Len(s) : s[i] = s[j] => i = j
    /\ q.head = IF s = <<>> THEN NULL ELSE s[1]
    /\ q.tail = IF s = <<>> THEN NULL ELSE s[Len(s)]
    /\ \A i \in 1 .. Len(s) : q.next[s[i]] = IF i = Len(s) THEN NULL ELSE s[i + 1]

Elements(s) == {s[i] : i \in 1 .. Len(s)}

\* The node that enqueue has filled and not yet linked.
Pending == IF hpc = "link" THEN {new} ELSE {}

Linked ==
    /\ hpc = "link" => new \in Nodes /\ queue.next[new] = NULL
    /\ \E s \in Seq(Nodes) :
          /\ IsChain(queue, s)
          /\ queue.live = Elements(s) \cup Pending
          /\ Elements(s) \cap Pending = {}

LockInv ==
    /\ hpc \in {"fill", "link", "unlock"} <=> lock_queue = host
    /\ \A m \in Managers :
          mpc[m] \in {"copy", "unlink", "unlock"} <=> lock_queue = m

\* A manager that has been let through by `full' and has not unlinked a node.
Popping == {m \in Managers : mpc[m] \in {"lock", "copy", "unlink"}}
HostAdded == IF hpc \in {"link", "unlock", "post"} THEN 1 ELSE 0

Counted ==
    Cardinality(queue.live) = full + Cardinality(Popping) + HostAdded

\* The host has read a request before it enqueues one.
ClientInv == hpc # "read" => client \in Clients

IInv == TypeOK /\ LockInv /\ ClientInv /\ Linked /\ Counted /\ PlacesAreConserved

-----------------------------------------------------------------------------
(* The linked list. *)

\* The empty list is a chain.
LEMMA CreateChain == IsChain(create_queue, <<>>) /\ create_queue \in Queue
BY DEF IsChain, create_queue, Queue, Link

\* Filling in a node that is not in the list leaves the list alone.
LEMMA NewNodeChain ==
    ASSUME NEW q \in Queue, NEW s \in Seq(Nodes), IsChain(q, s),
           NEW node \in Nodes, node \notin Elements(s),
           NEW a \in Fifos, NEW b \in Fifos, NEW c \in Fifos
    PROVE  /\ new_node(q, node, a, b, c) \in Queue
           /\ new_node(q, node, a, b, c).live = q.live \cup {node}
           /\ new_node(q, node, a, b, c).next[node] = NULL
           /\ IsChain(new_node(q, node, a, b, c), s)
<1> DEFINE r == new_node(q, node, a, b, c)
<1>1. /\ r \in Queue /\ r.live = q.live \cup {node}
      /\ r.head = q.head /\ r.tail = q.tail
      /\ \A n \in Nodes : r.next[n] = IF n = node THEN NULL ELSE q.next[n]
  BY DEF new_node, Queue, Link, Connection
<1> HIDE DEF r
<1>2. \A i \in 1 .. Len(s) : s[i] \in Nodes /\ s[i] # node
  BY ElementOfSeq DEF Elements
<1>3. IsChain(r, s)
  BY <1>1, <1>2 DEF IsChain
<1> QED
  BY <1>1, <1>3 DEF r

\* Linking a node behind the tail extends the chain by that node.
LEMMA EnqueueChain ==
    ASSUME NEW q \in Queue, NEW s \in Seq(Nodes), IsChain(q, s),
           NEW node \in Nodes, node \notin Elements(s), q.next[node] = NULL
    PROVE  /\ enqueue(q, node) \in Queue
           /\ enqueue(q, node).live = q.live
           /\ Append(s, node) \in Seq(Nodes)
           /\ IsChain(enqueue(q, node), Append(s, node))
           /\ Elements(Append(s, node)) = Elements(s) \cup {node}
<1> DEFINE r == enqueue(q, node)
           u == Append(s, node)
<1>1. Len(s) \in Nat /\ \A i \in 1 .. Len(s) : s[i] \in Nodes /\ s[i] # node
  BY ElementOfSeq DEF Elements
<1>2. /\ u \in Seq(Nodes) /\ Len(u) = Len(s) + 1 /\ u[Len(s) + 1] = node
      /\ \A i \in 1 .. Len(s) : u[i] = s[i]
  BY <1>1, AppendProperties
<1>3. /\ r \in Queue /\ r.live = q.live /\ r.tail = node
      /\ r.head = IF q.tail = NULL THEN node ELSE q.head
      /\ \A n \in Nodes : r.next[n] = IF n = q.tail THEN node ELSE q.next[n]
  BY DEF enqueue, Queue, Link
<1> HIDE DEF r, u
<1>4. u # <<>> /\ (s = <<>> <=> Len(s) = 0)
  BY <1>1, <1>2
<1>5. \A i, j \in 1 .. Len(u) : u[i] = u[j] => i = j
  BY <1>1, <1>2 DEF IsChain
<1>6. r.head = u[1]
  <2>1. CASE s = <<>>
    BY <2>1, <1>2, <1>3, <1>4 DEF IsChain
  <2>2. CASE s # <<>>
    <3>1. 1 \in 1 .. Len(s) /\ Len(s) \in 1 .. Len(s)
      BY <2>2, <1>1, <1>4
    <3>2. q.tail \in Nodes
      BY <2>2, <3>1, <1>1 DEF IsChain
    <3> QED
      BY <2>2, <3>1, <3>2, <1>2, <1>3, QueueListAssumption DEF IsChain
  <2> QED
    BY <2>1, <2>2
<1>7. ASSUME NEW i \in 1 .. Len(u)
      PROVE  r.next[u[i]] = IF i = Len(u) THEN NULL ELSE u[i + 1]
  <2>1. CASE i = Len(u)
    <3>1. node # q.tail
      BY <1>1, <1>4, QueueListAssumption DEF IsChain
    <3> QED
      BY <2>1, <3>1, <1>2, <1>3
  <2>2. CASE i # Len(u)
    <3>1. i \in 1 .. Len(s) /\ u[i] = s[i] /\ s # <<>> /\ s[i] \in Nodes
      BY <2>2, <1>1, <1>2, <1>4
    <3>2. s[i] = q.tail <=> i = Len(s)
      BY <3>1, <1>1 DEF IsChain
    <3>3. CASE i = Len(s)
      BY <3>1, <3>2, <3>3, <2>2, <1>2, <1>3
    <3>4. CASE i # Len(s)
      <4>1. i + 1 \in 1 .. Len(s) /\ q.next[s[i]] = s[i + 1]
        BY <3>1, <3>4, <1>1 DEF IsChain
      <4> QED
        BY <4>1, <3>1, <3>2, <3>4, <2>2, <1>2, <1>3
    <3> QED
      BY <3>3, <3>4
  <2> QED
    BY <2>1, <2>2
<1>8. IsChain(r, u)
  BY <1>2, <1>3, <1>4, <1>5, <1>6, <1>7 DEF IsChain
<1>9. Elements(u) = Elements(s) \cup {node}
  <2>1. \A i \in 1 .. Len(u) : i \in 1 .. Len(s) \/ i = Len(s) + 1
    BY <1>1, <1>2
  <2>2. \A i \in 1 .. Len(s) : i \in 1 .. Len(u)
    BY <1>1, <1>2
  <2>3. Len(s) + 1 \in 1 .. Len(u)
    BY <1>1, <1>2
  <2> QED
    BY <2>1, <2>2, <2>3, <1>2 DEF Elements
<1> QED
  BY <1>2, <1>3, <1>8, <1>9 DEF r, u, Elements

\* Unlinking the head leaves the chain of the other nodes.
LEMMA PopChain ==
    ASSUME NEW q \in Queue, NEW s \in Seq(Nodes), IsChain(q, s), s # <<>>
    PROVE  /\ pop(q) \in Queue
           /\ q.head \in Elements(s)
           /\ pop(q).live = q.live \ {q.head}
           /\ Tail(s) \in Seq(Nodes)
           /\ IsChain(pop(q), Tail(s))
           /\ Elements(Tail(s)) = Elements(s) \ {q.head}
<1> DEFINE r == pop(q)
           u == Tail(s)
<1>1. Len(s) \in Nat \ {0} /\ \A i \in 1 .. Len(s) : s[i] \in Nodes
  BY ElementOfSeq, EmptySeq
<1>2. /\ u \in Seq(Nodes) /\ Len(u) = Len(s) - 1
      /\ \A i \in 1 .. Len(s) - 1 : u[i] = s[i + 1]
  BY <1>1, HeadTailProperties
<1>3. 1 \in 1 .. Len(s) /\ q.head = s[1] /\ q.head \in Nodes /\ q.head # NULL
  BY <1>1, QueueListAssumption DEF IsChain
<1>4. /\ r \in Queue /\ r.live = q.live \ {q.head} /\ r.head = q.next[q.head]
      /\ r.tail = IF q.next[q.head] = NULL THEN NULL ELSE q.tail
      /\ r.next = q.next
  BY <1>3 DEF pop, isEmpty, Queue, Link
<1> HIDE DEF r, u
<1>5. u = <<>> <=> Len(s) = 1
  BY <1>1, <1>2
<1>6. \A i, j \in 1 .. Len(u) : u[i] = u[j] => i = j
  <2> TAKE i, j \in 1 .. Len(u)
  <2>1. i + 1 \in 1 .. Len(s) /\ j + 1 \in 1 .. Len(s)
    BY <1>1, <1>2
  <2>2. s[i + 1] = s[j + 1] => i + 1 = j + 1
    BY <2>1 DEF IsChain
  <2> QED
    BY <2>2, <1>1, <1>2
<1>7. /\ r.head = IF u = <<>> THEN NULL ELSE u[1]
      /\ r.tail = IF u = <<>> THEN NULL ELSE u[Len(u)]
  <2>1. CASE Len(s) = 1
    <3>1. q.next[q.head] = NULL
      BY <2>1, <1>3 DEF IsChain
    <3> QED
      BY <2>1, <3>1, <1>4, <1>5
  <2>2. CASE Len(s) # 1
    <3> DEFINE l == Len(s)
    <3>a. l \in Nat /\ l # 0 /\ l # 1
      BY <2>2, <1>1
    <3> HIDE DEF l
    <3>b. 2 \in 1 .. l
      BY <3>a
    <3>0. 2 \in 1 .. Len(s) /\ 1 + 1 = 2
      BY <3>b DEF l
    <3>1. q.next[s[1]] = s[2] /\ s[2] # NULL
      BY <2>2, <3>0, <1>1, <1>3, QueueListAssumption DEF IsChain
    <3>2. u[1] = s[2] /\ u[Len(u)] = s[Len(s)]
      BY <2>2, <1>1, <1>2
    <3> QED
      BY <2>2, <3>1, <3>2, <1>3, <1>4, <1>5 DEF IsChain
  <2> QED
    BY <2>1, <2>2
<1>8. ASSUME NEW i \in 1 .. Len(u)
      PROVE  r.next[u[i]] = IF i = Len(u) THEN NULL ELSE u[i + 1]
  <2>1. i + 1 \in 1 .. Len(s) /\ u[i] = s[i + 1]
    BY <1>1, <1>2
  <2>2. q.next[s[i + 1]] = IF i + 1 = Len(s) THEN NULL ELSE s[i + 2]
    BY <2>1, <1>1 DEF IsChain
  <2>3. i # Len(u) => u[i + 1] = s[i + 2]
    BY <1>1, <1>2
  <2> QED
    BY <2>1, <2>2, <2>3, <1>1, <1>2, <1>4
<1>9. IsChain(r, u)
  BY <1>6, <1>7, <1>8 DEF IsChain
<1>10. Elements(u) = Elements(s) \ {q.head}
  <2>1. ASSUME NEW i \in 1 .. Len(u)
        PROVE  u[i] \in Elements(s) /\ u[i] # q.head
    <3>1. i + 1 \in 1 .. Len(s) /\ u[i] = s[i + 1] /\ i + 1 # 1
      BY <1>1, <1>2
    <3> QED
      BY <3>1, <1>3 DEF IsChain, Elements
  <2>2. ASSUME NEW j \in 1 .. Len(s), s[j] # q.head
        PROVE  \E i \in 1 .. Len(u) : u[i] = s[j]
    <3>1. j - 1 \in 1 .. Len(u) /\ u[j - 1] = s[j]
      BY <2>2, <1>1, <1>2, <1>3
    <3> QED
      BY <3>1
  <2> QED
    BY <2>1, <2>2 DEF Elements
<1> QED
  BY <1>2, <1>3, <1>4, <1>9, <1>10 DEF r, u, Elements

\* A chain has no pointer out of it.
LEMMA ChainIsSound ==
    ASSUME NEW q \in Queue, NEW s \in Seq(Nodes), IsChain(q, s),
           NEW P, q.live = Elements(s) \cup P, \A n \in P : q.next[n] = NULL
    PROVE  NoDangling(q)
<1>1. Len(s) \in Nat /\ \A i \in 1 .. Len(s) : s[i] \in Nodes
  BY ElementOfSeq
<1>2. s = <<>> \/ (1 \in 1 .. Len(s) /\ Len(s) \in 1 .. Len(s))
  BY <1>1, EmptySeq
<1>3. \A i \in 1 .. Len(s) : s[i] \in q.live
  BY DEF Elements
<1>4. /\ q.head \in q.live \cup {NULL} /\ q.tail \in q.live \cup {NULL}
      /\ q.head = NULL <=> q.tail = NULL
  BY <1>1, <1>2, <1>3, QueueListAssumption DEF IsChain
<1>5. ASSUME NEW n \in Elements(s)
      PROVE  q.next[n] \in q.live \cup {NULL}
  <2>1. PICK i \in 1 .. Len(s) : n = s[i]
    BY <1>5 DEF Elements
  <2>2. CASE i = Len(s)
    BY <2>1, <2>2 DEF IsChain
  <2>3. CASE i # Len(s)
    <3>1. i + 1 \in 1 .. Len(s)
      BY <2>3, <1>1
    <3> QED
      BY <2>1, <2>3, <3>1, <1>3 DEF IsChain
  <2> QED
    BY <2>2, <2>3
<1> QED
  BY <1>4, <1>5 DEF NoDangling

-----------------------------------------------------------------------------
(* The sets that are counted. *)

LEMMA FiniteCounts ==
    ASSUME TypeOK
    PROVE  /\ IsFiniteSet(Popping) /\ Cardinality(Popping) \in Nat
           /\ IsFiniteSet(Holding) /\ Cardinality(Holding) \in Nat
           /\ IsFiniteSet(queue.live) /\ Cardinality(queue.live) \in Nat
           /\ Popping \subseteq Holding
           /\ Cardinality(Popping) <= Cardinality(Holding)
<1>1. /\ Popping \in SUBSET Managers /\ Holding \in SUBSET Managers
      /\ queue.live \in SUBSET Nodes
      /\ Popping \subseteq Holding
  BY DEF Popping, Holding, TypeOK, Queue
<1>2. IsFiniteSet(Managers) /\ IsFiniteSet(Nodes)
  BY ConnQueueAssumption, QueueListAssumption
<1>3. IsFiniteSet(Popping) /\ IsFiniteSet(Holding) /\ IsFiniteSet(queue.live)
  BY <1>1, <1>2, FS_Subset
<1> QED
  BY <1>1, <1>3, FS_CardinalityType, FS_Subset

\* A step of one manager changes the two sets by that manager at most.
LEMMA PoppingChanges ==
    ASSUME TypeOK, NEW m \in Managers, NEW from, NEW to, Goto(m, from, to)
    PROVE  LET P == {"lock", "copy", "unlink"}
           IN  Cardinality(Popping') =
                 IF from \in P THEN IF to \in P THEN Cardinality(Popping)
                                    ELSE Cardinality(Popping) - 1
                 ELSE IF to \in P THEN Cardinality(Popping) + 1
                      ELSE Cardinality(Popping)
<1> DEFINE P == {"lock", "copy", "unlink"}
<1>1. IsFiniteSet(Popping)
  BY FiniteCounts
<1>2. CASE from \in P <=> to \in P
  <2>1. Popping' = Popping
    BY <1>2 DEF Popping, Goto, TypeOK
  <2> QED
    BY <1>2, <2>1
<1>3. CASE from \in P /\ to \notin P
  <2>1. Popping' = Popping \ {m} /\ m \in Popping
    BY <1>3 DEF Popping, Goto, TypeOK
  <2> QED
    BY <1>1, <1>3, <2>1, FS_RemoveElement
<1>4. CASE from \notin P /\ to \in P
  <2>1. Popping' = Popping \cup {m} /\ m \notin Popping
    BY <1>4 DEF Popping, Goto, TypeOK
  <2> QED
    BY <1>1, <1>4, <2>1, FS_AddElement
<1> QED
  BY <1>2, <1>3, <1>4

LEMMA HoldingChanges ==
    ASSUME TypeOK, NEW m \in Managers, NEW from, NEW to, Goto(m, from, to)
    PROVE  LET H == {"lock", "copy", "unlink", "unlock", "post"}
           IN  Cardinality(Holding') =
                 IF from \in H THEN IF to \in H THEN Cardinality(Holding)
                                    ELSE Cardinality(Holding) - 1
                 ELSE IF to \in H THEN Cardinality(Holding) + 1
                      ELSE Cardinality(Holding)
<1> DEFINE H == {"lock", "copy", "unlink", "unlock", "post"}
<1>1. IsFiniteSet(Holding)
  BY FiniteCounts
<1>2. CASE from \in H <=> to \in H
  <2>1. Holding' = Holding
    BY <1>2 DEF Holding, Goto, TypeOK
  <2> QED
    BY <1>2, <2>1
<1>3. CASE from \in H /\ to \notin H
  <2>1. Holding' = Holding \ {m} /\ m \in Holding
    BY <1>3 DEF Holding, Goto, TypeOK
  <2> QED
    BY <1>1, <1>3, <2>1, FS_RemoveElement
<1>4. CASE from \notin H /\ to \in H
  <2>1. Holding' = Holding \cup {m} /\ m \notin Holding
    BY <1>4 DEF Holding, Goto, TypeOK
  <2> QED
    BY <1>1, <1>4, <2>1, FS_AddElement
<1> QED
  BY <1>2, <1>3, <1>4

\* A host step leaves both alone.
LEMMA HostKeeps ==
    ASSUME UNCHANGED mpc
    PROVE  Popping' = Popping /\ Holding' = Holding
BY DEF Popping, Holding

-----------------------------------------------------------------------------
LEMMA InitIInv == Init => IInv
<1> SUFFICES ASSUME Init PROVE IInv
  OBVIOUS
<1>1. TypeOK
  BY CreateChain, ConnQueueAssumption
     DEF Init, TypeOK, Connection, Link, HostPCs, ManagerPCs
<1>2. LockInv /\ ClientInv
  BY ConnQueueAssumption DEF Init, LockInv, ClientInv
<1>3. Linked
  <2>1. <<>> \in Seq(Nodes) /\ Elements(<<>>) = {} /\ create_queue.live = {}
    BY DEF Elements, create_queue
  <2> HIDE DEF create_queue
  <2> QED
    BY <2>1, CreateChain DEF Init, Linked, Pending
<1>4. Cardinality(Popping) = 0 /\ Cardinality(Holding) = 0
  <2>1. Popping = {} /\ Holding = {}
    BY DEF Init, Popping, Holding
  <2> QED
    BY <2>1, FS_EmptySet
<1>5. Cardinality(queue.live) = 0
  <2>1. queue.live = {}
    BY DEF Init, create_queue
  <2> QED
    BY <2>1, FS_EmptySet
<1>6. Counted /\ PlacesAreConserved
  BY <1>4, <1>5, ConnQueueAssumption
     DEF Init, Counted, PlacesAreConserved, HostAdded, HostHolds
<1> QED
  BY <1>1, <1>2, <1>3, <1>6 DEF IInv

\* While a manager is between the lock and its unlinking, the list has a
\* head: some live node was counted for it, and the host is not in the middle
\* of enqueue.
LEMMA ListNotEmpty ==
    ASSUME IInv, NEW m \in Managers, mpc[m] \in {"copy", "unlink"}
    PROVE  \E s \in Seq(Nodes) :
              /\ s # <<>>
              /\ IsChain(queue, s)
              /\ queue.live = Elements(s)
              /\ Pending = {}
<1>1. lock_queue = m /\ hpc # "link"
  BY ConnQueueAssumption DEF IInv, LockInv
<1>2. PICK s \in Seq(Nodes) :
         IsChain(queue, s) /\ queue.live = Elements(s) \cup Pending
  BY DEF IInv, Linked
<1>3. Pending = {}
  BY <1>1 DEF Pending
<1>4. Cardinality(queue.live) > 0
  <2>1. m \in Popping
    BY DEF Popping
  <2>2. Cardinality(Popping) # 0 /\ Cardinality(Popping) \in Nat
    BY <2>1, FiniteCounts, FS_EmptySet DEF IInv
  <2> QED
    BY <2>2 DEF IInv, Counted, TypeOK, HostAdded
<1>5. s # <<>>
  <2> SUFFICES ASSUME s = <<>> PROVE FALSE
    OBVIOUS
  <2>1. queue.live = {}
    BY <1>2, <1>3 DEF Elements
  <2> QED
    BY <1>4, <2>1, FS_EmptySet
<1> QED
  BY <1>2, <1>3, <1>5

\* The program counters, the mutex and the semaphores.
LEMMA NextControl ==
    IInv /\ [Next]_vars
      => /\ hpc' \in HostPCs /\ client' \in Clients \cup {NULL} /\ new' \in Link
         /\ mpc' \in [Managers -> ManagerPCs]
         /\ name_fifos' \in [Managers -> Connection \cup {NULL}]
         /\ empty' \in Nat /\ full' \in Nat
         /\ lock_queue' \in Managers \cup {host, NoThread}
         /\ LockInv' /\ ClientInv'
<1> DEFINE Control ==
             /\ hpc' \in HostPCs /\ client' \in Clients \cup {NULL}
             /\ new' \in Link
             /\ mpc' \in [Managers -> ManagerPCs]
             /\ name_fifos' \in [Managers -> Connection \cup {NULL}]
             /\ empty' \in Nat /\ full' \in Nat
             /\ lock_queue' \in Managers \cup {host, NoThread}
             /\ LockInv' /\ ClientInv'
<1> SUFFICES ASSUME IInv, [Next]_vars PROVE Control
  OBVIOUS
<1>0. TypeOK /\ LockInv /\ ClientInv
  BY DEF IInv
<1> USE ConnQueueAssumption
    DEF TypeOK, LockInv, ClientInv, HostPCs, ManagerPCs, HostGoto, Goto,
        hostVars, managerVars
<1>1. ASSUME NEW c \in Clients, HostRead(c) PROVE Control
  BY <1>0, <1>1 DEF HostRead
<1>2. CASE HostWaitEmpty \/ HostPostFull
  BY <1>0, <1>2 DEF HostWaitEmpty, HostPostFull
<1>3. CASE HostLock \/ HostUnlock
  BY <1>0, <1>3 DEF HostLock, HostUnlock
<1>4. CASE HostFill \/ HostEnqueue
  BY <1>0, <1>4 DEF HostFill, HostEnqueue, Link
<1>5. ASSUME NEW m \in Managers, WaitFull(m) \/ PostEmpty(m) PROVE Control
  BY <1>0, <1>5 DEF WaitFull, PostEmpty
<1>6. ASSUME NEW m \in Managers, Lock(m) \/ Unlock(m) PROVE Control
  BY <1>0, <1>6 DEF Lock, Unlock
<1>7. ASSUME NEW m \in Managers, Copy(m) PROVE Control
  <2>1. front(queue) \in Connection \cup {NULL}
    BY <1>0 DEF front, isEmpty, Queue, Link
  <2> QED
    BY <1>0, <1>7, <2>1 DEF Copy
<1>8. ASSUME NEW m \in Managers, Pop(m) PROVE Control
  BY <1>0, <1>8 DEF Pop
<1>9. ASSUME NEW m \in Managers, Create(m) \/ Skip(m) \/ Session(m)
      PROVE  Control
  BY <1>0, <1>9 DEF Create, Skip, Session
<1>10. CASE UNCHANGED vars
  BY <1>0, <1>10 DEF vars
<1> QED
  BY <1>1, <1>2, <1>3, <1>4, <1>5, <1>6, <1>7, <1>8, <1>9, <1>10
     DEF Next, HostStep, TakeStep

\* The list, and the count of its nodes.
LEMMA NextList ==
    IInv /\ [Next]_vars => queue' \in Queue /\ Linked' /\ Counted'
<1> SUFFICES ASSUME IInv, [Next]_vars
             PROVE  queue' \in Queue /\ Linked' /\ Counted'
  OBVIOUS
<1> DEFINE p == Cardinality(Popping)
           k == Cardinality(queue.live)
<1>0. /\ TypeOK /\ LockInv /\ ClientInv /\ Linked /\ Counted
      /\ queue \in Queue /\ full \in Nat /\ p \in Nat /\ k \in Nat
      /\ IsFiniteSet(queue.live)
  BY FiniteCounts DEF IInv, TypeOK
<1>1. ASSUME UNCHANGED queue, Pending' = Pending,
             hpc' = "link" => hpc = "link" /\ new' = new,
             full' + Cardinality(Popping') + HostAdded' = full + p + HostAdded
      PROVE  queue' \in Queue /\ Linked' /\ Counted'
  BY <1>0, <1>1 DEF Linked, Counted, IsChain
<1>2. CASE \/ HostStep /\ ~HostFill /\ ~HostEnqueue
           \/ \E c \in Clients : HostRead(c)
           \/ UNCHANGED vars
  <2>1. Popping' = Popping
    BY <1>2, HostKeeps
       DEF HostStep, HostRead, HostWaitEmpty, HostLock, HostUnlock,
           HostPostFull, managerVars, vars
  <2>2. full' + HostAdded' = full + HostAdded
    BY <1>0, <1>2
       DEF HostStep, HostRead, HostWaitEmpty, HostLock, HostUnlock,
           HostPostFull, HostGoto, HostAdded, vars
  <2>3. /\ UNCHANGED queue /\ Pending' = Pending
        /\ hpc' = "link" => hpc = "link" /\ new' = new
    BY <1>2
       DEF HostStep, HostRead, HostWaitEmpty, HostLock, HostUnlock,
           HostPostFull, HostGoto, Pending, vars
  <2>4. HostAdded \in Nat /\ HostAdded' \in Nat /\ full' \in Nat
    BY <1>0, <1>2
       DEF HostStep, HostRead, HostWaitEmpty, HostLock, HostUnlock,
           HostPostFull, HostAdded, vars
  <2>5. full' + Cardinality(Popping') + HostAdded' = full + p + HostAdded
    <3>1. PICK a \in Nat : a = HostAdded
      BY <2>4
    <3>2. PICK b \in Nat : b = HostAdded'
      BY <2>4
    <3>3. PICK c \in Nat : c = p
      BY <1>0
    <3>4. PICK d \in Nat : d = full
      BY <1>0
    <3>5. PICK e \in Nat : e = full'
      BY <2>4
    <3>6. e + b = d + a
      BY <2>2, <3>1, <3>2, <3>4, <3>5
    <3>7. e + c + b = d + c + a
      BY <3>6
    <3> QED
      BY <2>1, <3>1, <3>2, <3>3, <3>4, <3>5, <3>7
  <2> QED
    BY <1>1, <2>3, <2>5
<1>3. CASE HostFill
  <2>1. PICK node \in Nodes \ queue.live :
           /\ new' = node
           /\ queue' = new_node(queue, node, <<client, "request">>,
                               <<client, "response">>, <<client, "notification">>)
    BY <1>3 DEF HostFill
  <2>2. /\ <<client, "request">> \in Fifos /\ <<client, "response">> \in Fifos
        /\ <<client, "notification">> \in Fifos
    BY <1>0, <1>3, ConnQueueAssumption DEF ClientInv, HostFill, HostGoto
  <2>3. hpc = "fill" /\ hpc' = "link" /\ UNCHANGED <<full, mpc>>
    BY <1>3 DEF HostFill, HostGoto, managerVars
  <2>4. PICK s \in Seq(Nodes) :
           IsChain(queue, s) /\ queue.live = Elements(s) \cup Pending
    BY <1>0 DEF Linked
  <2>5. Pending = {} /\ Pending' = {node}
    BY <2>1, <2>3 DEF Pending
  <2>6. /\ queue' \in Queue /\ queue'.live = queue.live \cup {node}
        /\ queue'.next[node] = NULL /\ IsChain(queue', s)
    <3>1. node \in Nodes /\ node \notin Elements(s)
      BY <2>4
    <3> DEFINE a == <<client, "request">>
               b == <<client, "response">>
               c == <<client, "notification">>
    <3>2. /\ a \in Fifos /\ b \in Fifos /\ c \in Fifos
          /\ queue' = new_node(queue, node, a, b, c)
      BY <2>1, <2>2
    <3>3. queue \in Queue /\ IsChain(queue, s)
      BY <1>0, <2>4
    <3> HIDE DEF a, b, c
    <3>4. /\ new_node(queue, node, a, b, c) \in Queue
          /\ new_node(queue, node, a, b, c).live = queue.live \cup {node}
          /\ new_node(queue, node, a, b, c).next[node] = NULL
          /\ IsChain(new_node(queue, node, a, b, c), s)
      BY <3>1, <3>2, <3>3, NewNodeChain
    <3> QED
      BY <3>2, <3>4
  <2>7. Linked'
    BY <2>1, <2>3, <2>4, <2>5, <2>6 DEF Linked
  <2>8. Cardinality(queue'.live) = k + 1
    BY <1>0, <2>1, <2>6, FS_AddElement
  <2>9. Counted'
    <3>1. Popping' = Popping /\ HostAdded = 0 /\ HostAdded' = 1
      BY <2>3, HostKeeps DEF HostAdded
    <3> QED
      BY <1>0, <2>3, <2>8, <3>1 DEF Counted
  <2> QED
    BY <2>6, <2>7, <2>9
<1>4. CASE HostEnqueue
  <2>1. /\ hpc = "link" /\ hpc' = "unlock" /\ UNCHANGED <<full, mpc>>
        /\ queue' = enqueue(queue, new)
    BY <1>4 DEF HostEnqueue, HostGoto, managerVars
  <2>2. Pending = {new} /\ Pending' = {} /\ new \in Nodes /\ queue.next[new] = NULL
    BY <1>0, <2>1 DEF Pending, Linked
  <2>3. PICK s \in Seq(Nodes) :
           /\ IsChain(queue, s) /\ queue.live = Elements(s) \cup Pending
           /\ Elements(s) \cap Pending = {}
    BY <1>0 DEF Linked
  <2>4. /\ queue' \in Queue /\ queue'.live = queue.live
        /\ Append(s, new) \in Seq(Nodes)
        /\ IsChain(queue', Append(s, new))
        /\ Elements(Append(s, new)) = Elements(s) \cup {new}
    BY <1>0, <2>1, <2>2, <2>3, EnqueueChain
  <2>5. Linked'
    BY <2>1, <2>2, <2>3, <2>4 DEF Linked
  <2>6. Counted'
    <3>1. Popping' = Popping /\ HostAdded = 1 /\ HostAdded' = 1
      BY <2>1, HostKeeps DEF HostAdded
    <3> QED
      BY <1>0, <2>1, <2>4, <3>1 DEF Counted
  <2> QED
    BY <2>4, <2>5, <2>6
<1>5. ASSUME NEW m \in Managers, WaitFull(m)
      PROVE  queue' \in Queue /\ Linked' /\ Counted'
  <2>1. Cardinality(Popping') = p + 1
    BY <1>0, <1>5, PoppingChanges DEF WaitFull
  <2>2. full' = full - 1 /\ UNCHANGED <<queue, hpc, new>>
    BY <1>5 DEF WaitFull, hostVars
  <2>3. HostAdded' = HostAdded /\ HostAdded \in Nat /\ Pending' = Pending
    BY <2>2 DEF HostAdded, Pending
  <2> QED
    BY <1>0, <1>1, <2>1, <2>2, <2>3
<1>6. ASSUME NEW m \in Managers, Pop(m)
      PROVE  queue' \in Queue /\ Linked' /\ Counted'
  <2>1. /\ mpc[m] = "unlink" /\ queue' = pop(queue)
        /\ UNCHANGED <<full, hpc, new>>
    BY <1>6 DEF Pop, Goto, hostVars
  <2>2. PICK s \in Seq(Nodes) :
           /\ s # <<>> /\ IsChain(queue, s) /\ queue.live = Elements(s)
           /\ Pending = {}
    BY <2>1, ListNotEmpty
  <2>3. /\ queue' \in Queue /\ queue.head \in Elements(s)
        /\ queue'.live = queue.live \ {queue.head}
        /\ Tail(s) \in Seq(Nodes) /\ IsChain(queue', Tail(s))
        /\ Elements(Tail(s)) = Elements(s) \ {queue.head}
    BY <1>0, <2>1, <2>2, PopChain
  <2>4. Pending' = {} /\ hpc' # "link"
    BY <2>1, <2>2 DEF Pending
  <2>5. Linked'
    BY <2>2, <2>3, <2>4 DEF Linked
  <2>6. Cardinality(queue'.live) = k - 1
    <3>1. queue.head \in queue.live
      BY <2>2, <2>3
    <3>2. Cardinality(queue.live \ {queue.head}) = k - 1
      BY <1>0, <3>1, FS_RemoveElement
    <3> QED
      BY <2>3, <3>2
  <2>7. Cardinality(Popping') = p - 1
    BY <1>0, <1>6, PoppingChanges DEF Pop
  <2>8. HostAdded' = HostAdded /\ HostAdded \in Nat
    BY <2>1 DEF HostAdded
  <2> QED
    BY <1>0, <2>1, <2>3, <2>5, <2>6, <2>7, <2>8 DEF Counted
<1>7. ASSUME NEW m \in Managers,
             \/ Lock(m) \/ Copy(m) \/ Unlock(m) \/ PostEmpty(m)
             \/ Create(m) \/ Skip(m) \/ Session(m)
      PROVE  queue' \in Queue /\ Linked' /\ Counted'
  <2>1. Cardinality(Popping') = p
    BY <1>0, <1>7, PoppingChanges
       DEF Lock, Copy, Unlock, PostEmpty, Create, Skip, Session
  <2>2. UNCHANGED <<queue, full, hpc, new>>
    BY <1>7 DEF Lock, Copy, Unlock, PostEmpty, Create, Skip, Session, hostVars
  <2>3. HostAdded' = HostAdded /\ Pending' = Pending
    BY <2>2 DEF HostAdded, Pending
  <2> QED
    BY <1>1, <2>1, <2>2, <2>3
<1> QED
  BY <1>2, <1>3, <1>4, <1>5, <1>6, <1>7 DEF Next, TakeStep

\* The places.
LEMMA NextPlaces == IInv /\ [Next]_vars => PlacesAreConserved'
<1> SUFFICES ASSUME IInv, [Next]_vars PROVE PlacesAreConserved'
  OBVIOUS
<1> DEFINE h == Cardinality(Holding)
<1>0. /\ TypeOK /\ PlacesAreConserved /\ h \in Nat
      /\ empty \in Nat /\ full \in Nat
  BY FiniteCounts DEF IInv, TypeOK
<1>1. CASE HostStep \/ (\E c \in Clients : HostRead(c)) \/ UNCHANGED vars
  <2>1. Holding' = Holding
    BY <1>1, HostKeeps
       DEF HostStep, HostRead, HostWaitEmpty, HostLock, HostFill, HostEnqueue,
           HostUnlock, HostPostFull, managerVars, vars
  <2>2. empty' + full' + HostHolds' = empty + full + HostHolds
    BY <1>0, <1>1
       DEF HostStep, HostRead, HostWaitEmpty, HostLock, HostFill, HostEnqueue,
           HostUnlock, HostPostFull, HostGoto, HostHolds, vars
  <2>3. /\ HostHolds \in Nat /\ HostHolds' \in Nat
        /\ empty' \in Nat /\ full' \in Nat
    BY NextControl DEF HostHolds
  <2> QED
    BY <1>0, <2>1, <2>2, <2>3 DEF PlacesAreConserved
<1>2. ASSUME NEW m \in Managers, WaitFull(m)
      PROVE  PlacesAreConserved'
  <2>1. Cardinality(Holding') = h + 1
    BY <1>0, <1>2, HoldingChanges DEF WaitFull
  <2>2. full' = full - 1 /\ UNCHANGED <<empty, hpc>>
    BY <1>2 DEF WaitFull, hostVars
  <2>3. HostHolds' = HostHolds /\ HostHolds \in Nat
    BY <2>2 DEF HostHolds
  <2> QED
    BY <1>0, <2>1, <2>2, <2>3 DEF PlacesAreConserved
<1>3. ASSUME NEW m \in Managers, PostEmpty(m)
      PROVE  PlacesAreConserved'
  <2>1. Cardinality(Holding') = h - 1
    BY <1>0, <1>3, HoldingChanges DEF PostEmpty
  <2>2. empty' = empty + 1 /\ UNCHANGED <<full, hpc>>
    BY <1>3 DEF PostEmpty, hostVars
  <2>3. HostHolds' = HostHolds /\ HostHolds \in Nat
    BY <2>2 DEF HostHolds
  <2> QED
    BY <1>0, <2>1, <2>2, <2>3 DEF PlacesAreConserved
<1>4. ASSUME NEW m \in Managers,
             \/ Lock(m) \/ Copy(m) \/ Pop(m) \/ Unlock(m)
             \/ Create(m) \/ Skip(m) \/ Session(m)
      PROVE  PlacesAreConserved'
  <2>1. Cardinality(Holding') = h
    BY <1>0, <1>4, HoldingChanges
       DEF Lock, Copy, Pop, Unlock, Create, Skip, Session
  <2>2. UNCHANGED <<empty, full, hpc>>
    BY <1>4 DEF Lock, Copy, Pop, Unlock, Create, Skip, Session, hostVars
  <2>3. HostHolds' = HostHolds
    BY <2>2 DEF HostHolds
  <2> QED
    BY <1>0, <2>1, <2>2, <2>3 DEF PlacesAreConserved
<1> QED
  BY <1>1, <1>2, <1>3, <1>4 DEF Next, TakeStep

LEMMA Invariance == Spec => []IInv
<1>1. IInv /\ [Next]_vars => IInv'
  BY NextControl, NextList, NextPlaces DEF IInv, TypeOK
<1> QED
  BY InitIInv, <1>1, PTL DEF Spec

-----------------------------------------------------------------------------
\* The variables keep their types: neither semaphore goes below zero.
THEOREM TypeCorrect == Spec => []TypeOK
<1>1. IInv => TypeOK
  BY DEF IInv
<1> QED
  BY Invariance, <1>1, PTL

\* For any number of places and managers: places are never lost or made.
THEOREM PlacesConserved == Spec => []PlacesAreConserved
<1>1. IInv => PlacesAreConserved
  BY DEF IInv
<1> QED
  BY Invariance, <1>1, PTL

\* There is a place for every node in use.
LEMMA QueueFits ==
    ASSUME IInv
    PROVE  Cardinality(queue.live) <= MAX_SESSION_COUNT
<1>1. HostAdded <= HostHolds /\ HostAdded \in Nat /\ HostHolds \in Nat
  BY DEF HostAdded, HostHolds
<1> QED
  BY <1>1, FiniteCounts, ConnQueueAssumption
     DEF IInv, Counted, PlacesAreConserved, TypeOK

\* pop never returns NULL, and the queue never outgrows its places.
THEOREM PopNeverEmpty == Spec => []PopFindsRequest
<1>1. IInv => PopFindsRequest
  <2> SUFFICES ASSUME IInv PROVE PopFindsRequest
    OBVIOUS
  <2>1. Cardinality(queue.live) <= MAX_SESSION_COUNT
    BY QueueFits
  <2>2. ASSUME NEW m \in Managers, mpc[m] \in {"copy", "unlink"}
        PROVE  ~isEmpty(queue)
    <3>1. PICK s \in Seq(Nodes) : s # <<>> /\ IsChain(queue, s)
      BY <2>2, ListNotEmpty
    <3>2. queue.head = s[1] /\ s[1] \in Nodes
      BY <3>1, ElementOfSeq, EmptySeq DEF IsChain
    <3> QED
      BY <3>2, QueueListAssumption DEF isEmpty
  <2> QED
    BY <2>1, <2>2 DEF PopFindsRequest
<1> QED
  BY Invariance, <1>1, PTL

\* No pointer of the list leads to a freed node, however the host and any
\* number of managers interleave.
THEOREM ListStaysSound == Spec => []ListIsSound
<1>1. IInv => ListIsSound
  <2> SUFFICES ASSUME IInv PROVE ListIsSound
    OBVIOUS
  <2>1. PICK s \in Seq(Nodes) :
           IsChain(queue, s) /\ queue.live = Elements(s) \cup Pending
    BY DEF IInv, Linked
  <2>2. \A n \in Pending : queue.next[n] = NULL
    BY DEF IInv, Linked, Pending
  <2> QED
    BY <2>1, <2>2, ChainIsSound DEF ListIsSound, IInv, TypeOK
<1> QED
  BY Invariance, <1>1, PTL

-----------------------------------------------------------------------------
(* The refinement of Fifo. *)

\* A set of natural numbers has a least element: the finite sets 0 .. n are
\* well-founded under inclusion.
LEMMA LeastNatural ==
    ASSUME NEW T \in SUBSET Nat, T # {}
    PROVE  \E n \in T : \A m \in T : n <= m
<1> DEFINE F == {0 .. n : n \in T}
<1>1. F \subseteq FiniteSubsetsOf(Nat) /\ F # {}
  <2>1. \A n \in T : IsFiniteSet(0 .. n) /\ 0 .. n \subseteq Nat
    BY FS_Interval
  <2>2. \A n \in T : 0 .. n \in FiniteSubsetsOf(Nat)
    BY <2>1 DEF FiniteSubsetsOf
  <2> QED
    BY <2>2
<1>2. IsWellFoundedOn(StrictSubsetOrdering(Nat), FiniteSubsetsOf(Nat))
  BY FS_StrictSubsetOrderingWellFounded
<1> HIDE DEF F
<1>3. PICK x \in F : \A y \in F : ~ (<<y, x>> \in StrictSubsetOrdering(Nat))
  BY <1>1, <1>2, WFMin
<1> USE DEF F
<1>4. PICK n \in T : x = 0 .. n
  OBVIOUS
<1>5. ASSUME NEW m \in T PROVE n <= m
  <2> SUFFICES ASSUME m < n PROVE FALSE
    OBVIOUS
  <2>1. 0 .. m \in F
    OBVIOUS
  <2>2. (0 .. m) \subseteq (0 .. n) /\ n \notin 0 .. m /\ n \in 0 .. n
    OBVIOUS
  <2>3. << 0 .. m, 0 .. n >> \in StrictSubsetOrdering(Nat)
    BY <2>2 DEF StrictSubsetOrdering
  <2> QED
    BY <1>3, <1>4, <2>1, <2>3
<1> QED
  BY <1>5

\* A chain is no longer than there are nodes, and it has as many elements as
\* it is long.
LEMMA ChainLength ==
    ASSUME NEW q, NEW s \in Seq(Nodes), IsChain(q, s)
    PROVE  /\ Len(s) \in Nat /\ Len(s) <= Cardinality(Nodes)
           /\ IsFiniteSet(Elements(s)) /\ Cardinality(Elements(s)) = Len(s)
<1>1. Len(s) \in Nat /\ s \in [1 .. Len(s) -> Nodes]
  BY LenProperties
<1>2. IsFiniteSet(1 .. Len(s)) /\ Cardinality(1 .. Len(s)) = Len(s)
  BY <1>1, FS_Interval
<1>3. s \in Bijection(1 .. Len(s), Elements(s))
  <2>1. s \in [1 .. Len(s) -> Elements(s)]
    BY <1>1 DEF Elements
  <2>2. \A e \in Elements(s) : \E i \in 1 .. Len(s) : s[i] = e
    BY DEF Elements
  <2>3. \A i, j \in 1 .. Len(s) : s[i] = s[j] => i = j
    BY DEF IsChain
  <2> QED
    BY <2>1, <2>2, <2>3 DEF Bijection, Injection, Surjection, IsInjective
<1>4. IsFiniteSet(Elements(s)) /\ Cardinality(Elements(s)) = Len(s)
  BY <1>2, <1>3, FS_Bijection DEF ExistsBijection
<1>5. Elements(s) \in SUBSET Nodes
  BY <1>1 DEF Elements
<1> QED
  BY <1>1, <1>4, <1>5, FS_Subset, QueueListAssumption

\* Following `next' from the head visits the chain, and then NULL.
LEMMA ReachedIsChain ==
    ASSUME NEW s \in Seq(Nodes), IsChain(queue, s)
    PROVE  /\ DOMAIN Reached = 0 .. Cardinality(Nodes)
           /\ \A i \in 0 .. Cardinality(Nodes) :
                 Reached[i] = IF i < Len(s) THEN s[i + 1] ELSE NULL
<1> DEFINE D == 0 .. Cardinality(Nodes)
           Step(f, i) == IF i = 0 THEN queue.head
                         ELSE IF f[i - 1] = NULL THEN NULL ELSE queue.next[f[i - 1]]
           chain == [i \in D |-> IF i < Len(s) THEN s[i + 1] ELSE NULL]
<1>1. /\ Cardinality(Nodes) \in Nat /\ Len(s) \in Nat /\ Len(s) <= Cardinality(Nodes)
      /\ \A i \in 1 .. Len(s) : s[i] \in Nodes /\ s[i] # NULL
  BY ChainLength, FS_CardinalityType, ElementOfSeq, QueueListAssumption
<1>2. ASSUME NEW i \in D PROVE chain[i] = Step(chain, i)
  <2>1. CASE i = 0
    <3>1. s = <<>> <=> Len(s) = 0
      BY <1>1, EmptySeq
    <3> QED
      BY <1>1, <2>1, <3>1 DEF IsChain
  <2>2. CASE i > 0 /\ i - 1 < Len(s)
    <3>1. i - 1 \in D /\ chain[i - 1] = s[i] /\ i \in 1 .. Len(s)
      BY <1>1, <2>2
    <3>2. queue.next[s[i]] = IF i = Len(s) THEN NULL ELSE s[i + 1]
      BY <3>1 DEF IsChain
    <3> QED
      BY <1>1, <2>2, <3>1, <3>2
  <2>3. CASE i > 0 /\ i - 1 >= Len(s)
    BY <1>1, <2>3
  <2> QED
    BY <1>1, <2>1, <2>2, <2>3
<1>3. chain = [i \in D |-> Step(chain, i)]
  BY <1>2
<1>4. Reached = [i \in D |-> Step(Reached, i)]
  BY <1>3 DEF Reached
<1> HIDE DEF chain
<1>5. \A i \in D : Reached[i] = chain[i]
  <2> DEFINE Bad == {i \in D : Reached[i] # chain[i]}
  <2> SUFFICES ASSUME Bad # {} PROVE FALSE
    OBVIOUS
  <2>0. Bad \in SUBSET Nat
    BY <1>1
  <2> HIDE DEF Bad
  <2>1. PICK n \in Bad : \A m \in Bad : n <= m
    BY <2>0, LeastNatural
  <2> USE DEF Bad
  <2>2. n # 0 => n - 1 \in D /\ n - 1 \notin Bad
    BY <1>1, <2>1
  <2>3. Step(Reached, n) = Step(chain, n)
    BY <2>2
  <2> QED
    BY <1>2, <1>4, <2>1, <2>3
<1> QED
  BY <1>4, <1>5 DEF chain

\* So the abstract buffer is what the nodes of the chain hold.
LEMMA BufferIsChain ==
    ASSUME NEW s \in Seq(Nodes), IsChain(queue, s)
    PROVE  Buffer = [i \in 1 .. Len(s) |-> queue.data[s[i]]]
<1>1. Len(s) \in Nat /\ Len(s) <= Cardinality(Nodes) /\ Cardinality(Nodes) \in Nat
  BY ChainLength, FS_CardinalityType, QueueListAssumption
<1>2. \A i \in 1 .. Len(s) : s[i] # NULL
  BY ElementOfSeq, QueueListAssumption
<1>3. {i \in DOMAIN Reached : Reached[i] # NULL} = 0 .. Len(s) - 1
  BY <1>1, <1>2, ReachedIsChain
<1>4. \A l \in Nat : Cardinality(0 .. l - 1) = l
  BY FS_Interval
<1>5. \A i \in 1 .. Len(s) : Reached[i - 1] = s[i]
  BY <1>1, ReachedIsChain
<1> QED
  BY <1>1, <1>3, <1>4, <1>5 DEF Buffer


\* In the next state too.
LEMMA BufferNext ==
    \A s \in Seq(Nodes) :
       IsChain(queue, s)' => Buffer' = [i \in 1 .. Len(s) |-> queue'.data[s[i]]]
<1>1. \A s \in Seq(Nodes) :
         IsChain(queue, s) => Buffer = [i \in 1 .. Len(s) |-> queue.data[s[i]]]
  BY BufferIsChain
<1>2. (\A s \in Seq(Nodes) :
         IsChain(queue, s) => Buffer = [i \in 1 .. Len(s) |-> queue.data[s[i]]])'
  BY <1>1, PTL
<1> QED
  BY <1>2


\* Every node of the list holds a request, and so does one about to be
\* linked.
DataInv == \A n \in queue.live : queue.data[n] \in Requests

\* The manager about to unlink the head has what the head holds.
FrontInv ==
    \A m \in Managers : mpc[m] = "unlink" => name_fifos[m] = front(queue)

LEMMA InitRefinement == Init => DataInv /\ FrontInv
BY DEF Init, DataInv, FrontInv, create_queue

\* What is written of a node is written while no manager is at the head.
LEMMA NextRefinement ==
    ASSUME IInv, DataInv, FrontInv, [Next]_vars PROVE DataInv' /\ FrontInv'
<1>0. TypeOK /\ LockInv /\ ClientInv
  BY DEF IInv
<1> DEFINE Alone == \A m \in Managers : mpc[m] # "unlink"
<1>1. ASSUME UNCHANGED <<queue, mpc, name_fifos>> PROVE DataInv' /\ FrontInv'
  BY <1>1 DEF DataInv, FrontInv, front, isEmpty
<1>2. CASE HostFill
  <2>1. PICK node \in Nodes \ queue.live :
           /\ queue' = new_node(queue, node, <<client, "request">>,
                               <<client, "response">>, <<client, "notification">>)
    BY <1>2 DEF HostFill
  <2>2. /\ client \in Clients /\ UNCHANGED <<mpc, name_fifos>> /\ lock_queue = host
    BY <1>0, <1>2 DEF HostFill, HostGoto, ClientInv, LockInv, managerVars
  <2>3. Alone
    BY <1>0, <2>2, ConnQueueAssumption DEF LockInv
  <2>4. /\ queue'.live = queue.live \cup {node}
        /\ \A n \in queue.live : queue'.data[n] = queue.data[n]
        /\ queue'.data[node] = [response_fifo_name     |-> <<client, "request">>,
                                request_fifo_name      |-> <<client, "response">>,
                                notification_fifo_name |-> <<client, "notification">>]
    BY <1>0, <2>1 DEF new_node, TypeOK, Queue
  <2>5. DataInv'
    BY <2>2, <2>4 DEF DataInv, Requests
  <2> QED
    BY <2>2, <2>3, <2>5 DEF FrontInv
<1>3. CASE HostEnqueue
  <2>1. /\ queue'.live = queue.live /\ queue'.data = queue.data
        /\ UNCHANGED <<mpc, name_fifos>> /\ lock_queue = host
    BY <1>0, <1>3 DEF HostEnqueue, HostGoto, LockInv, managerVars, enqueue, TypeOK, Queue
  <2>2. Alone
    BY <1>0, <2>1, ConnQueueAssumption DEF LockInv
  <2> QED
    BY <2>1, <2>2 DEF DataInv, FrontInv
<1>4. ASSUME NEW m \in Managers, Copy(m) PROVE DataInv' /\ FrontInv'
  <2>1. /\ queue' = queue /\ mpc[m] = "copy" /\ mpc' = [mpc EXCEPT ![m] = "unlink"]
        /\ name_fifos' = [name_fifos EXCEPT ![m] = front(queue)]
    BY <1>4 DEF Copy, Goto
  <2> QED
    BY <1>0, <2>1 DEF DataInv, FrontInv, front, isEmpty, TypeOK
<1>5. ASSUME NEW m \in Managers, Pop(m) PROVE DataInv' /\ FrontInv'
  <2>1. /\ mpc[m] = "unlink" /\ mpc' = [mpc EXCEPT ![m] = "unlock"]
        /\ queue' = pop(queue) /\ name_fifos' = name_fifos /\ lock_queue = m
    BY <1>0, <1>5 DEF Pop, Goto, LockInv
  <2>2. queue'.live \subseteq queue.live /\ queue'.data = queue.data
    BY <1>0, <2>1 DEF pop, TypeOK, Queue
  <2>3. \A u \in Managers : u # m => mpc[u] # "unlink"
    BY <1>0, <2>1 DEF LockInv
  <2> QED
    BY <1>0, <2>1, <2>2, <2>3 DEF DataInv, FrontInv, TypeOK
<1>6. ASSUME NEW m \in Managers, NEW to \in ManagerPCs \ {"unlink"},
             mpc' = [mpc EXCEPT ![m] = to], UNCHANGED <<queue, name_fifos>>
      PROVE  DataInv' /\ FrontInv'
  BY <1>0, <1>6 DEF DataInv, FrontInv, front, isEmpty, TypeOK
<1>7. ASSUME NEW m \in Managers,
             \/ WaitFull(m) \/ Lock(m) \/ Unlock(m) \/ PostEmpty(m)
             \/ Create(m) \/ Skip(m) \/ Session(m)
      PROVE  DataInv' /\ FrontInv'
  <2>1. /\ \E to \in ManagerPCs \ {"unlink"} : mpc' = [mpc EXCEPT ![m] = to]
        /\ UNCHANGED <<queue, name_fifos>>
    BY <1>7 DEF WaitFull, Lock, Unlock, PostEmpty, Create, Skip, Session, Goto,
                ManagerPCs
  <2> QED
    BY <1>6, <2>1
<1>8. CASE \/ HostWaitEmpty \/ HostLock \/ HostUnlock \/ HostPostFull
           \/ \E c \in Clients : HostRead(c)
           \/ UNCHANGED vars
  BY <1>1, <1>8 DEF HostWaitEmpty, HostLock, HostUnlock, HostPostFull, HostRead,
                    managerVars, vars
<1> QED
  BY <1>2, <1>3, <1>4, <1>5, <1>7, <1>8 DEF Next, HostStep, TakeStep


\* Every step is a step of the bounded buffer, or leaves it alone.
LEMMA StepRefinement ==
    ASSUME IInv, DataInv, FrontInv, [Next]_vars
    PROVE  [Ideal!Next]_(Ideal!vars)
<1> DEFINE Hands == {"unlock", "post", "open", "session"}
<1>0. /\ TypeOK /\ LockInv /\ ClientInv /\ Linked /\ Counted /\ PlacesAreConserved
      /\ queue \in Queue
  BY DEF IInv, TypeOK
<1>1. PICK s \in Seq(Nodes) :
         /\ IsChain(queue, s)
         /\ queue.live = Elements(s) \cup Pending
         /\ Elements(s) \cap Pending = {}
  BY <1>0 DEF Linked
<1>2. /\ Len(s) \in Nat /\ \A i \in 1 .. Len(s) : s[i] \in Nodes /\ s[i] \in queue.live
      /\ Buffer = [i \in 1 .. Len(s) |-> queue.data[s[i]]]
  BY <1>1, BufferIsChain, ElementOfSeq, LenProperties DEF Elements
<1>3. Buffer \in Seq(Requests) /\ Len(Buffer) = Len(s)
  <2>1. \A i \in 1 .. Len(s) : Buffer[i] \in Requests
    BY <1>2 DEF DataInv
  <2> QED
    BY <1>2, <2>1
<1>4. ASSUME UNCHANGED <<queue, mpc, name_fifos>> PROVE UNCHANGED Ideal!vars
  <2>1. Buffer' = Buffer
    BY <1>4 DEF Buffer, Reached
  <2> QED
    BY <1>4, <2>1 DEF Ideal!vars, Taken
<1>5. CASE HostFill
  <2>1. PICK node \in Nodes \ queue.live :
           queue' = new_node(queue, node, <<client, "request">>,
                            <<client, "response">>, <<client, "notification">>)
    BY <1>5 DEF HostFill
  <2>2. /\ queue'.head = queue.head /\ queue'.tail = queue.tail
        /\ \A n \in queue.live : /\ queue'.next[n] = queue.next[n]
                                 /\ queue'.data[n] = queue.data[n]
    BY <1>0, <2>1 DEF new_node, Queue
  <2>3. IsChain(queue, s)'
    BY <1>1, <1>2, <2>2 DEF IsChain
  <2>4. Buffer' = [i \in 1 .. Len(s) |-> queue'.data[s[i]]]
    BY <2>3, BufferNext
  <2>5. Taken' = Taken
    BY <1>5 DEF HostFill, managerVars, Taken
  <2> QED
    BY <1>2, <2>2, <2>4, <2>5 DEF Ideal!vars
<1>6. CASE HostEnqueue
  <2>1. /\ hpc = "link" /\ queue' = enqueue(queue, new)
        /\ UNCHANGED <<mpc, name_fifos>>
    BY <1>6 DEF HostEnqueue, HostGoto, managerVars
  <2>2. Pending = {new} /\ new \in Nodes /\ queue.next[new] = NULL
    BY <1>0, <2>1 DEF Pending, Linked
  <2> DEFINE u == Append(s, new)
  <2>3. IsChain(queue', u) /\ u \in Seq(Nodes) /\ queue'.data = queue.data
    <3>1. queue'.data = queue.data
      BY <1>0, <2>1 DEF enqueue, Queue
    <3> QED
      BY <1>0, <1>1, <2>1, <2>2, <3>1, EnqueueChain
  <2>4. /\ Len(u) = Len(s) + 1 /\ u[Len(s) + 1] = new
        /\ \A i \in 1 .. Len(s) : u[i] = s[i]
    BY <2>2, AppendProperties
  <2> HIDE DEF u
  <2>5. Buffer' = [i \in 1 .. Len(u) |-> queue.data[u[i]]]
    BY <2>3, BufferNext
  <2> DEFINE item == queue.data[new]
  <2>6. item \in Requests
    BY <1>1, <2>2 DEF DataInv
  <2> HIDE DEF item
  <2>7. /\ Append(Buffer, item) \in Seq(Requests)
        /\ Len(Append(Buffer, item)) = Len(s) + 1
        /\ \A i \in 1 .. Len(s) : Append(Buffer, item)[i] = Buffer[i]
        /\ Append(Buffer, item)[Len(s) + 1] = item
    BY <1>3, <2>6, AppendProperties
  <2>8. Buffer' \in Seq(Requests) /\ Len(Buffer') = Len(s) + 1
        /\ \A i \in 1 .. Len(s) + 1 : Buffer'[i] = Append(Buffer, item)[i]
    <3>1. \A i \in 1 .. Len(s) + 1 : Buffer'[i] = Append(Buffer, item)[i]
      BY <1>2, <2>4, <2>5, <2>7 DEF item
    <3>2. \A i \in 1 .. Len(s) + 1 : Buffer'[i] \in Requests
      BY <1>2, <1>3, <2>6, <2>7, <3>1
    <3> QED
      BY <1>2, <2>4, <2>5, <3>1, <3>2
  <2>9. Buffer' = Append(Buffer, item)
    BY <2>7, <2>8, SeqEqual
  <2>10. Len(Buffer) < MAX_SESSION_COUNT
    <3>1. IsFiniteSet(Elements(s)) /\ Cardinality(Elements(s)) = Len(s)
      BY <1>1, ChainLength
    <3>2. Cardinality(queue.live) = Len(s) + 1
      BY <1>1, <2>2, <3>1, FS_AddElement
    <3>3. Cardinality(queue.live) <= MAX_SESSION_COUNT
      BY QueueFits
    <3> QED
      BY <1>2, <1>3, <3>2, <3>3, ConnQueueAssumption
  <2>11. Taken' = Taken
    BY <2>1 DEF Taken
  <2> QED
    BY <2>6, <2>9, <2>10, <2>11 DEF Ideal!Next, Ideal!Put
<1>7. ASSUME NEW m \in Managers, Pop(m) PROVE Ideal!Take(m)
  <2>1. /\ mpc[m] = "unlink" /\ mpc' = [mpc EXCEPT ![m] = "unlock"]
        /\ queue' = pop(queue) /\ name_fifos' = name_fifos
    BY <1>7 DEF Pop, Goto
  <2>2. /\ s # <<>> /\ queue.head = s[1] /\ name_fifos[m] = queue.data[s[1]]
        /\ Len(s) # 0
    <3>1. PICK z \in Seq(Nodes) : /\ z # <<>> /\ IsChain(queue, z)
      BY <2>1, ListNotEmpty
    <3>2. z[1] \in Nodes /\ queue.head = z[1]
      BY <3>1, ElementOfSeq, EmptySeq DEF IsChain
    <3>3. s # <<>> /\ queue.head = s[1]
      BY <1>1, <3>2, QueueListAssumption DEF IsChain
    <3>4. Len(s) # 0
      BY <3>3, EmptySeq
    <3> QED
      BY <2>1, <3>2, <3>3, <3>4, QueueListAssumption DEF FrontInv, front, isEmpty
  <2> DEFINE u == Tail(s)
  <2>3. IsChain(queue', u) /\ u \in Seq(Nodes) /\ queue'.data = queue.data
    <3>1. queue'.data = queue.data
      BY <1>0, <2>1 DEF pop, Queue
    <3> QED
      BY <1>0, <1>1, <2>1, <2>2, <3>1, PopChain
  <2>4. Len(u) = Len(s) - 1 /\ \A i \in 1 .. Len(u) : u[i] = s[i + 1]
    BY <2>2, HeadTailProperties
  <2> HIDE DEF u
  <2>5. Buffer' = [i \in 1 .. Len(u) |-> queue.data[u[i]]]
    BY <2>3, BufferNext
  <2>6. Buffer # <<>>
    BY <1>2, <1>3, <2>2
  <2>7. /\ Tail(Buffer) \in Seq(Requests) /\ Len(Tail(Buffer)) = Len(s) - 1
        /\ \A i \in 1 .. Len(Tail(Buffer)) : Tail(Buffer)[i] = Buffer[i + 1]
    BY <1>3, <2>6, HeadTailProperties
  <2>8. /\ Buffer' \in Seq(Requests) /\ Len(Buffer') = Len(s) - 1
        /\ \A i \in 1 .. Len(s) - 1 : Buffer'[i] = Tail(Buffer)[i]
    <3>1. \A i \in 1 .. Len(s) - 1 : Buffer'[i] = Tail(Buffer)[i]
      BY <1>2, <2>4, <2>5, <2>7
    <3>2. \A i \in 1 .. Len(s) - 1 : Tail(Buffer)[i] \in Requests
      BY <2>7, ElementOfSeq
    <3> QED
      BY <1>2, <2>2, <2>4, <2>5, <3>1, <3>2
  <2>9. Buffer' = Tail(Buffer)
    BY <2>7, <2>8, SeqEqual
  <2>10. Head(Buffer) = name_fifos[m]
    BY <1>2, <1>3, <2>2, <2>6
  <2>11. Taken[m] = NULL /\ Taken' = [Taken EXCEPT ![m] = name_fifos[m]]
    BY <1>0, <2>1 DEF Taken, TypeOK
  <2> QED
    BY <2>6, <2>9, <2>10, <2>11 DEF Ideal!Take
<1>8. ASSUME NEW m \in Managers, Skip(m) PROVE Ideal!Drop(m)
  <2>1. /\ mpc[m] = "open" /\ mpc' = [mpc EXCEPT ![m] = "wait"]
        /\ UNCHANGED <<queue, name_fifos>>
    BY <1>8 DEF Skip, Goto
  <2>2. Buffer' = Buffer
    BY <2>1 DEF Buffer, Reached
  <2>3. Taken' = [Taken EXCEPT ![m] = NULL]
    BY <1>0, <2>1 DEF Taken, TypeOK
  <2> QED
    BY <2>2, <2>3 DEF Ideal!Drop
<1>9. ASSUME NEW m \in Managers, queue' = queue,
             \A u \in Managers : mpc'[u] \in Hands <=> mpc[u] \in Hands,
             \A u \in Managers : mpc[u] \in Hands => name_fifos'[u] = name_fifos[u]
      PROVE  UNCHANGED Ideal!vars
  <2>1. Buffer' = Buffer
    BY <1>9 DEF Buffer, Reached
  <2>2. Taken' = Taken
    BY <1>9 DEF Taken
  <2> QED
    BY <2>1, <2>2 DEF Ideal!vars
<1>10. ASSUME NEW m \in Managers,
              \/ WaitFull(m) \/ Lock(m) \/ Copy(m) \/ Unlock(m) \/ PostEmpty(m)
              \/ Create(m) \/ Session(m)
       PROVE  UNCHANGED Ideal!vars
  <2>1. queue' = queue
    BY <1>10 DEF WaitFull, Lock, Copy, Unlock, PostEmpty, Create, Session
  <2>2. \A u \in Managers : mpc'[u] \in Hands <=> mpc[u] \in Hands
    BY <1>0, <1>10 DEF WaitFull, Lock, Copy, Unlock, PostEmpty, Create, Session, Goto,
                       TypeOK
  <2>3. \A u \in Managers : mpc[u] \in Hands => name_fifos'[u] = name_fifos[u]
    BY <1>0, <1>10 DEF WaitFull, Lock, Copy, Unlock, PostEmpty, Create, Session, Goto,
                       TypeOK
  <2> QED
    BY <1>9, <2>1, <2>2, <2>3
<1>11. CASE \/ HostWaitEmpty \/ HostLock \/ HostUnlock \/ HostPostFull
            \/ \E c \in Clients : HostRead(c)
            \/ UNCHANGED vars
  BY <1>4, <1>11 DEF HostWaitEmpty, HostLock, HostUnlock, HostPostFull, HostRead,
                     managerVars, vars
<1> QED
  BY <1>5, <1>6, <1>7, <1>8, <1>10, <1>11 DEF Next, HostStep, TakeStep, Ideal!Next

\* The queue of main.c and queue.c, with its mutex and its semaphores, is a
\* bounded first-in first-out buffer for any number of clients, managers and
\* places: no request is lost, doubled, overtaken or mixed with another.
THEOREM QueueIsFifo == Spec => ImplementsFifo
<1>1. Init => Ideal!Init
  <2> SUFFICES ASSUME Init PROVE Ideal!Init
    OBVIOUS
  <2>1. IsChain(queue, <<>>)
    BY CreateChain DEF Init
  <2>2. Buffer = [i \in 1 .. Len(<<>>) |-> queue.data[(<<>>)[i]]]
    BY <2>1, EmptySeq, BufferIsChain
  <2>3. Buffer = <<>>
    BY <2>2, EmptySeq
  <2>4. Taken = [m \in Managers |-> NULL]
    BY DEF Init, Taken
  <2> QED
    BY <2>3, <2>4 DEF Ideal!Init
<1>2. Spec => [](DataInv /\ FrontInv)
  BY Invariance, InitRefinement, NextRefinement, PTL DEF Spec
<1> QED
  BY <1>1, <1>2, Invariance, StepRefinement, PTL DEF Spec, ImplementsFifo, Ideal!Spec
=============================================================================
