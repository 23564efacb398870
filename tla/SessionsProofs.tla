--------------------------- MODULE SessionsProofs ---------------------------
(***************************************************************************)
(* Proofs about Sessions, for any clients, managers and descriptors.       *)
(*                                                                         *)
(* The server never has both ends of one fifo (SidesInv), so whoever waits *)
(* for a client is let through by that client alone, which keeps its ends  *)
(* until it is gone (OtherEndInv).  Until the first DISCONNECT no          *)
(* descriptor is closed, so each still denotes what its manager opened     *)
(* (OwnInv), and a request is in one place: the request fifo, the hands of *)
(* one manager, or, answered, the response fifo (TokenInv); but for the    *)
(* clients in twice, whom one SUBSCRIBE has been answered twice (AgainInv: *)
(* whoever is between the two answers serves one of them).                 *)
(***************************************************************************)
EXTENDS Sessions, SequenceTheorems, FiniteSetTheorems, WellFoundedInduction,
        TLAPS

\* A manager between two connections has none.
PeerInv ==
    \A m \in Managers :
       IF mpc[m] = "take" THEN peer[m] = NoClient /\ fd[m] = <<>>
                          ELSE peer[m] \in Clients

\* A manager in an open: the number is reserved for it alone.
Pending(m) == mpc[m] = "open" /\ Opening(m)

PendingInv ==
    /\ \A m \in Managers : Pending(m) =>
          /\ table[Last(fd[m])] \in End
          /\ table[Last(fd[m])].state \in {"waits", "ready"}
    /\ \A m, k \in Managers :
          Pending(m) /\ Pending(k) /\ Last(fd[m]) = Last(fd[k]) => m = k

\* The server reads requests, and writes all else.
SidesInv ==
    \A n \in Descriptors :
       table[n] # Closed => (table[n].mode = "r" <=> table[n].fifo[2] = "request")

TInv == TypeOK /\ PeerInv /\ PendingInv /\ SidesInv

\* A client opens its own fifos only.
ClientEndInv ==
    \A c \in Clients : \A i \in DOMAIN ends[c] : ends[c][i].fifo[1] = c

\* The client has the end of f, one of its fifos, that mode says.
HasEnd(cl, f, mode) ==
    \E i \in DOMAIN cl[f[1]] : cl[f[1]][i].fifo = f /\ cl[f[1]][i].mode = mode

\* An open that has been let through: its client has the other end, or is gone.
OtherEndInv ==
    \A n \in Descriptors :
       table[n] # Closed /\ table[n].state # "waits" =>
          \/ cpc[table[n].fifo[1]] = "gone"
          \/ HasEnd(ends, table[n].fifo, Other(table[n].mode))

EndsInv == TInv /\ ClientEndInv /\ OtherEndInv

\* The k-th descriptor of m denotes the k-th fifo of its client.
Owns(m, k) ==
    /\ fd[m][k] \in Descriptors /\ table[fd[m][k]] \in End
    /\ table[fd[m][k]].fifo = <<peer[m], ManagerOpens[k][1]>>
    /\ table[fd[m][k]].mode = ManagerOpens[k][2]
    /\ (Pending(m) /\ k = Len(fd[m])) \/ table[fd[m][k]].state = "open"

OwnInv ==
    \A m \in Managers :
       /\ \A k \in DOMAIN fd[m] : Owns(m, k) \/ (k = 2 /\ fd[m][k] = Failed)
       /\ mpc[m] \in {"read", "handle", "again"} => fd[m][2] # Failed

\* Only a manager that has read a request has one.
BufferInv ==
    \A m \in Managers :
       mpc[m] \in {"take", "open"} \/ m \in intr => read_buffer[m] = Nothing

\* Only a client with a session asks.
AskedInv == \A c \in Clients : cpc[c] # "connected" => asked[c] = Nothing

\* Answers come from the managers that serve the client.
AnswerInv ==
    \A c \in Clients : \A i \in DOMAIN Answers(c) :
       /\ mpc[Answers(c)[i].from] \in {"read", "handle", "again"}
       /\ peer[Answers(c)[i].from] = c

\* A manager about to handle a request of c.
Handling(m, c) ==
    mpc[m] = "handle" /\ peer[m] = c /\ read_buffer[m] # Nothing

Asking(c) == pipe[<<c, "request">>]

\* The request of c is in one place, and what is there is the request.
Token(c) ==
    /\ Asking(c) # <<>> => Asking(c) = <<asked[c]>>
    /\ \A m \in Managers : Handling(m, c) => read_buffer[m] = asked[c]
    /\ \A i \in Replies(c) : Fits(Answers(c)[i], asked[c])
    /\ \A m, k \in Managers : Handling(m, c) /\ Handling(k, c) => m = k
    /\ \A i, j \in Replies(c) : i = j
    /\ Asking(c) # <<>> => \A m \in Managers : ~Handling(m, c)
    /\ Asking(c) # <<>> => Replies(c) = {}
    /\ \A m \in Managers : Handling(m, c) => Replies(c) = {}

TokenInv == \A c \in Clients : cpc[c] # "gone" /\ c \notin twice => Token(c)

\* Between the two answers to one SUBSCRIBE.
AgainInv == \A m \in Managers : mpc[m] = "again" => peer[m] \in twice

\* Before the first DISCONNECT.
QuietInv ==
    parted = {} =>
       /\ \A m \in Managers : mpc[m] # "close"
       /\ OwnInv /\ AnswerInv /\ TokenInv

AInv == EndsInv /\ BufferInv /\ AskedInv /\ AgainInv /\ QuietInv

-----------------------------------------------------------------------------
(* Opening. *)

LEMMA OpensType ==
    /\ \A k \in 1 .. 3 :
          /\ ManagerOpens[k][1] \in {"request", "response", "notification"}
          /\ ManagerOpens[k][2] \in {"r", "w"}
          /\ ManagerOpens[k][2] = "r" <=> ManagerOpens[k][1] = "request"
    /\ \A c \in Clients : \A k \in 1 .. 3 :
          /\ ClientOpens(c)[k][1] \in {"request", "response", "notification"}
          /\ ClientOpens(c)[k][2] \in {"r", "w"}
  BY DEF ManagerOpens, ClientOpens

\* e has become g, the same end of the same fifo.
Keeps(e, g) ==
    /\ g = Closed <=> e = Closed
    /\ e # Closed => g \in End /\ g.fifo = e.fifo /\ g.mode = e.mode

\* The open at e is let through by one of f at its other side.
Awoken(e, g, f, mode) ==
    /\ e.fifo = f /\ e.mode = Other(mode)
    /\ e.state = "waits" /\ g.state = "ready"

\* Of the table, only the end at which m waits comes from ready to open.
Finished(m, n, e, g) ==
    /\ Pending(m) /\ n = Last(fd[m])
    /\ e.state = "ready" /\ g.state = "open"

LEMMA AwakeKeeps ==
    ASSUME NEW e \in End \cup {Closed}, NEW f, NEW mode
    PROVE  /\ Keeps(e, Awake(e, f, mode))
           /\ Awake(e, f, mode) = e \/ Awoken(e, Awake(e, f, mode), f, mode)
<1> USE DEF Keeps, Awoken
<1>1. CASE e = Closed
  BY <1>1 DEF Awake
<1>2. CASE e # Closed /\ e.fifo = f /\ e.mode = Other(mode) /\ e.state = "waits"
  <2>1. Awake(e, f, mode) = [e EXCEPT !.state = "ready"]
    BY <1>2 DEF Awake
  <2>2. [e EXCEPT !.state = "ready"] \in End /\ e \in End
    BY <1>2 DEF End
  <2> QED
    BY <1>2, <2>1, <2>2, SessionsAssumption DEF End
<1>3. CASE e # Closed /\ ~(e.fifo = f /\ e.mode = Other(mode) /\ e.state = "waits")
  BY <1>3 DEF Awake
<1> QED
  BY <1>1, <1>2, <1>3

LEMMA NewEndType ==
    ASSUME NEW f \in Fifos, NEW mode \in {"r", "w"}
    PROVE  /\ NewEnd(f, mode) \in End /\ NewEnd(f, mode) # Closed
           /\ NewEnd(f, mode).fifo = f /\ NewEnd(f, mode).mode = mode
           /\ NewEnd(f, mode).state \in {"waits", "ready"}
           /\ NewEnd(f, mode).state = "ready" => Present(f, Other(mode), table, ends)
  BY SessionsAssumption DEF NewEnd, End

\* A set of natural numbers has a least element: the finite sets 0 .. n are
\* well-founded under inclusion.
LEMMA LeastNatural ==
    ASSUME NEW T \in SUBSET Nat, T # {}
    PROVE  \E n \in T : \A m \in T : n <= m
<1> DEFINE F == {0 .. n : n \in T}
<1>1. F \subseteq FiniteSubsetsOf(Nat) /\ F # {}
  <2>1. \A n \in T : IsFiniteSet(0 .. n) /\ 0 .. n \subseteq Nat
    BY FS_Interval
  <2>2. \A n \in T : 0 .. n \in FiniteSubsetsOf(Nat)
    BY <2>1 DEF FiniteSubsetsOf
  <2> QED
    BY <2>2
<1>2. IsWellFoundedOn(StrictSubsetOrdering(Nat), FiniteSubsetsOf(Nat))
  BY FS_StrictSubsetOrderingWellFounded
<1> HIDE DEF F
<1>3. PICK x \in F : \A y \in F : ~ (<<y, x>> \in StrictSubsetOrdering(Nat))
  BY <1>1, <1>2, WFMin
<1> USE DEF F
<1>4. PICK n \in T : x = 0 .. n
  OBVIOUS
<1>5. ASSUME NEW m \in T PROVE n <= m
  <2> SUFFICES ASSUME m < n PROVE FALSE
    OBVIOUS
  <2>1. 0 .. m \in F
    OBVIOUS
  <2>2. (0 .. m) \subseteq (0 .. n) /\ n \notin 0 .. m /\ n \in 0 .. n
    OBVIOUS
  <2>3. << 0 .. m, 0 .. n >> \in StrictSubsetOrdering(Nat)
    BY <2>2 DEF StrictSubsetOrdering
  <2> QED
    BY <1>3, <1>4, <2>1, <2>3
<1> QED
  BY <1>5

\* The number that open returns denoted nothing.
LEMMA MinIsFree ==
    ASSUME Free # {}
    PROVE  Min(Free) \in Descriptors /\ table[Min(Free)] = Closed
<1>1. Free \in SUBSET Nat
  BY SessionsAssumption DEF Free
<1>2. \E n \in Free : \A m \in Free : n <= m
  BY <1>1, LeastNatural
<1>3. Min(Free) \in Free
  BY <1>2 DEF Min
<1> QED
  BY <1>3 DEF Free

LEMMA InstalledKeeps ==
    ASSUME TInv, NEW m \in Managers, mpc[m] = "open", Returned(m)
    PROVE  /\ Installed(m) \in [Descriptors -> End \cup {Closed}]
           /\ \A n \in Descriptors :
                 /\ Keeps(table[n], Installed(m)[n])
                 /\ \/ Installed(m)[n] = table[n]
                    \/ Finished(m, n, table[n], Installed(m)[n])
<1> USE DEF Keeps, Finished
<1>1. table \in [Descriptors -> End \cup {Closed}]
  BY DEF TInv, TypeOK
<1>2. CASE ~Opening(m)
  BY <1>1, <1>2 DEF Installed
<1>3. CASE Opening(m)
  <2> DEFINE n == Last(fd[m])
             e == [table[n] EXCEPT !.state = "open"]
  <2>1. Pending(m) /\ table[n] \in End /\ table[n].state = "ready"
    BY <1>3 DEF Pending, TInv, PendingInv, Returned
  <2>2. n \in Descriptors
    <3>1. fd[m] \in Seq(Descriptors \cup {Failed}) /\ fd[m] # <<>>
      BY <1>3 DEF TInv, TypeOK, Opening
    <3>2. Len(fd[m]) \in 1 .. Len(fd[m])
      BY <3>1, EmptySeq, LenProperties
    <3>3. n \in Descriptors \cup {Failed}
      BY <3>1, <3>2, ElementOfSeq DEF Last
    <3> QED
      BY <1>3, <3>3 DEF Opening
  <2>3. e \in End /\ e.fifo = table[n].fifo /\ e.mode = table[n].mode /\ e.state = "open"
    BY <2>1 DEF End
  <2>4. e # Closed /\ table[n] # Closed
    BY <2>1, <2>3, SessionsAssumption
  <2>5. Installed(m) = [table EXCEPT ![n] = e]
    BY <1>1, <1>3, <2>2 DEF Installed
  <2> HIDE DEF n, e
  <2>6. /\ Installed(m) \in [Descriptors -> End \cup {Closed}]
        /\ \A i \in Descriptors : Installed(m)[i] = IF i = n THEN e ELSE table[i]
    BY <1>1, <2>2, <2>3, <2>5
  <2> QED
    BY <2>1, <2>3, <2>4, <2>6 DEF n
<1> QED
  BY <1>2, <1>3


\* Whom an open lets through at the ends that clients have.
LEMMA AwakeEnds ==
    ASSUME NEW s \in Seq(End), NEW f, NEW mode
    PROVE  LET t == [i \in DOMAIN s |-> Awake(s[i], f, mode)]
           IN  /\ t \in Seq(End) /\ Len(t) = Len(s) /\ DOMAIN t = DOMAIN s
               /\ \A i \in DOMAIN s : Keeps(s[i], t[i])
<1> DEFINE t == [i \in DOMAIN s |-> Awake(s[i], f, mode)]
<1>1. Len(s) \in Nat /\ DOMAIN s = 1 .. Len(s) /\ \A i \in DOMAIN s : s[i] \in End
  BY LenProperties, ElementOfSeq
<1>2. \A i \in DOMAIN s : Keeps(s[i], t[i]) /\ t[i] \in End
  BY <1>1, AwakeKeeps, SessionsAssumption DEF Keeps
<1>3. t \in [1 .. Len(s) -> End]
  BY <1>1, <1>2
<1>4. t \in Seq(End)
  BY <1>1, <1>3, SeqDef
<1> QED
  BY <1>1, <1>2, <1>3, <1>4, LenProperties

\* What Open(m) does to the server's ends and the clients'.
LEMMA OpenKeeps ==
    ASSUME TInv, NEW m \in Managers, Open(m)
    PROVE  LET n == Min(Free)
               k == Len(fd[m]) + 1
               f == <<peer[m], ManagerOpens[k][1]>>
               mode == ManagerOpens[k][2]
           IN  /\ k \in 1 .. 3 /\ f \in Fifos /\ mode \in {"r", "w"}
               /\ n \in Descriptors /\ table[n] = Closed
               /\ table' \in [Descriptors -> End \cup {Closed}]
               /\ table'[n] = NewEnd(f, mode)
               /\ \A i \in Descriptors : i # n =>
                     /\ Keeps(table[i], table'[i])
                     /\ \/ table'[i] = table[i]
                        \/ Awoken(table[i], table'[i], f, mode)
                        \/ Finished(m, i, table[i], table'[i])
               /\ ends' \in [Clients -> Seq(End)]
               /\ \A c \in Clients :
                     /\ DOMAIN ends'[c] = DOMAIN ends[c]
                     /\ \A i \in DOMAIN ends[c] : Keeps(ends[c][i], ends'[c][i])
               /\ fd' = [fd EXCEPT ![m] = Append(fd[m], n)]
<1> DEFINE n == Min(Free)
           k == Len(fd[m]) + 1
           f == <<peer[m], ManagerOpens[k][1]>>
           mode == ManagerOpens[k][2]
           tab == Installed(m)
<1>1. mpc[m] = "open" /\ Len(fd[m]) < 3 /\ Returned(m) /\ Free # {}
  BY DEF Open
<1>2. fd \in [Managers -> Seq(Descriptors \cup {Failed})]
      /\ table \in [Descriptors -> End \cup {Closed}]
      /\ ends \in [Clients -> Seq(End)] /\ peer[m] \in Clients
  BY <1>1 DEF TInv, TypeOK, PeerInv
<1>3. k \in 1 .. 3
  <2>1. Len(fd[m]) \in Nat
    BY <1>2, LenProperties
  <2> QED
    BY <1>1, <2>1
<1>4. f \in Fifos /\ mode \in {"r", "w"}
  BY <1>2, <1>3, OpensType DEF Fifos
<1>5. n \in Descriptors /\ table[n] = Closed
  BY <1>1, MinIsFree
<1>6. /\ table' = [[i \in Descriptors |-> Awake(tab[i], f, mode)]
                     EXCEPT ![n] = NewEnd(f, mode)]
      /\ ends' = [c \in Clients |->
                    [i \in DOMAIN ends[c] |-> Awake(ends[c][i], f, mode)]]
      /\ fd' = [fd EXCEPT ![m] = Append(fd[m], n)]
  BY DEF Open, ServerOpen
<1>7. /\ tab \in [Descriptors -> End \cup {Closed}]
      /\ \A i \in Descriptors :
            /\ Keeps(table[i], tab[i])
            /\ tab[i] = table[i] \/ Finished(m, i, table[i], tab[i])
  BY <1>1, InstalledKeeps
<1> HIDE DEF n, k, f, mode, tab
<1>8. /\ table'[n] = NewEnd(f, mode)
      /\ \A i \in Descriptors : i # n => table'[i] = Awake(tab[i], f, mode)
      /\ DOMAIN table' = Descriptors
      /\ table' = [i \in Descriptors |-> table'[i]]
  BY <1>5, <1>6
<1>9. ASSUME NEW i \in Descriptors, i # n
      PROVE  /\ Keeps(table[i], table'[i])
             /\ \/ table'[i] = table[i]
                \/ Awoken(table[i], table'[i], f, mode)
                \/ Finished(m, i, table[i], table'[i])
  <2>1. tab[i] \in End \cup {Closed} /\ table'[i] = Awake(tab[i], f, mode)
    BY <1>7, <1>8, <1>9
  <2>2. /\ Keeps(tab[i], table'[i])
        /\ table'[i] = tab[i] \/ Awoken(tab[i], table'[i], f, mode)
    BY <2>1, AwakeKeeps
  <2> QED
    BY <1>2, <1>7, <2>1, <2>2 DEF Keeps, Awoken, Finished, Awake
<1>10. table' \in [Descriptors -> End \cup {Closed}]
  <2>1. NewEnd(f, mode) \in End
    BY <1>4, NewEndType
  <2>2. \A i \in Descriptors : table'[i] \in End \cup {Closed}
    BY <1>2, <1>8, <1>9, <2>1 DEF Keeps
  <2> QED
    BY <1>8, <2>2
<1>11. \A c \in Clients :
          /\ ends'[c] \in Seq(End) /\ DOMAIN ends'[c] = DOMAIN ends[c]
          /\ \A i \in DOMAIN ends[c] : Keeps(ends[c][i], ends'[c][i])
  BY <1>2, <1>6, AwakeEnds
<1>12. ends' \in [Clients -> Seq(End)]
  BY <1>6, <1>11
<1> QED
  BY <1>3, <1>4, <1>5, <1>6, <1>8, <1>9, <1>10, <1>11, <1>12
     DEF n, k, f, mode


\* What OpenNext(c) does to the server's ends and the clients'.
LEMMA OpenNextKeeps ==
    ASSUME TInv, NEW c \in Clients, OpenNext(c)
    PROVE  LET k == Len(ends[c]) + 1
               f == <<c, ClientOpens(c)[k][1]>>
               mode == ClientOpens(c)[k][2]
           IN  /\ k \in 1 .. 3 /\ f \in Fifos /\ mode \in {"r", "w"}
               /\ table' \in [Descriptors -> End \cup {Closed}]
               /\ \A i \in Descriptors :
                     /\ Keeps(table[i], table'[i])
                     /\ table'[i] = table[i] \/ Awoken(table[i], table'[i], f, mode)
               /\ ends' \in [Clients -> Seq(End)]
               /\ \A d \in Clients :
                     /\ DOMAIN ends'[d] = IF d = c THEN 1 .. k ELSE DOMAIN ends[d]
                     /\ DOMAIN ends[d] \subseteq DOMAIN ends'[d]
                     /\ \A i \in DOMAIN ends[d] : Keeps(ends[d][i], ends'[d][i])
               /\ DOMAIN ends[c] = 1 .. k - 1 /\ ends'[c][k] = NewEnd(f, mode)
<1> DEFINE k == Len(ends[c]) + 1
           f == <<c, ClientOpens(c)[k][1]>>
           mode == ClientOpens(c)[k][2]
           Old(d) == [i \in DOMAIN ends[d] |-> Awake(ends[d][i], f, mode)]
<1>1. cpc[c] = "open" /\ Len(ends[c]) < 3
  BY DEF OpenNext
<1>2. /\ table \in [Descriptors -> End \cup {Closed}]
      /\ ends \in [Clients -> Seq(End)]
  BY DEF TInv, TypeOK
<1>3. Len(ends[c]) \in Nat /\ DOMAIN ends[c] = 1 .. Len(ends[c])
  BY <1>2, LenProperties
<1>4. k \in 1 .. 3 /\ DOMAIN ends[c] = 1 .. k - 1
  BY <1>1, <1>3
<1>5. f \in Fifos /\ mode \in {"r", "w"}
  BY <1>4, OpensType DEF Fifos
<1>6. /\ table' = [i \in Descriptors |-> Awake(table[i], f, mode)]
      /\ ends' = [d \in Clients |-> IF d = c THEN Append(Old(d), NewEnd(f, mode))
                                             ELSE Old(d)]
  BY DEF OpenNext, ClientOpen
<1> HIDE DEF k, f, mode
<1>7. \A d \in Clients :
         /\ Old(d) \in Seq(End) /\ Len(Old(d)) = Len(ends[d])
         /\ DOMAIN Old(d) = DOMAIN ends[d]
         /\ \A i \in DOMAIN ends[d] : Keeps(ends[d][i], Old(d)[i])
  BY <1>2, AwakeEnds
<1> HIDE DEF Old
<1>8. \A i \in Descriptors :
         /\ Keeps(table[i], table'[i])
         /\ table'[i] = table[i] \/ Awoken(table[i], table'[i], f, mode)
  BY <1>2, <1>6, AwakeKeeps
<1>9. table' \in [Descriptors -> End \cup {Closed}]
  <2>1. \A i \in Descriptors : table'[i] \in End \cup {Closed}
    BY <1>2, <1>8 DEF Keeps
  <2>2. table' = [i \in Descriptors |-> table'[i]]
    BY <1>6
  <2> QED
    BY <2>1, <2>2
<1>10. NewEnd(f, mode) \in End
  BY <1>5, NewEndType
<1>11. /\ Append(Old(c), NewEnd(f, mode)) \in Seq(End)
       /\ Len(Append(Old(c), NewEnd(f, mode))) = k
       /\ Append(Old(c), NewEnd(f, mode))[k] = NewEnd(f, mode)
       /\ \A i \in DOMAIN ends[c] : Append(Old(c), NewEnd(f, mode))[i] = Old(c)[i]
  BY <1>3, <1>7, <1>10, AppendProperties DEF k
<1>12. DOMAIN Append(Old(c), NewEnd(f, mode)) = 1 .. k
  BY <1>11, LenProperties
<1>13. \A d \in Clients :
          /\ ends'[d] \in Seq(End)
          /\ DOMAIN ends'[d] = IF d = c THEN 1 .. k ELSE DOMAIN ends[d]
          /\ DOMAIN ends[d] \subseteq DOMAIN ends'[d]
          /\ \A i \in DOMAIN ends[d] : Keeps(ends[d][i], ends'[d][i])
  BY <1>4, <1>6, <1>7, <1>11, <1>12
<1>14. ends' \in [Clients -> Seq(End)]
  BY <1>6, <1>13
<1> QED
  BY <1>4, <1>5, <1>6, <1>8, <1>9, <1>11, <1>13, <1>14 DEF k, f, mode

-----------------------------------------------------------------------------
(* The fifos. *)

\* Requests go one way, and answers the other.
PipeType(p) ==
    /\ p \in [Fifos -> Seq(Requests) \cup Seq(Message)]
    /\ \A f \in Fifos :
          /\ p[f] \in Seq(IF f[2] = "request" THEN Requests ELSE Message)
          /\ Len(p[f]) <= Capacity

LEMMA WriteType ==
    ASSUME TInv, NEW n \in Descriptors \cup {Failed}, NEW a \in Message, Write(n, a)
    PROVE  PipeType(pipe') /\ crashed' \in {Alive, SIGPIPE, SIGSEGV}
<1>1. PipeType(pipe) /\ crashed \in {Alive, SIGPIPE, SIGSEGV}
  BY DEF TInv, TypeOK, PipeType
<1>2. CASE UNCHANGED pipe
  BY <1>1, <1>2 DEF Write, WriteTo, PipeType
<1>3. CASE Denotes(n, "w") /\ ~UNCHANGED pipe
  <2> DEFINE f == table[n].fifo
  <2>1. /\ n \in Descriptors /\ table[n] \in End /\ table[n].mode = "w"
        /\ table[n] # Closed
    BY <1>3 DEF Denotes, TInv, TypeOK
  <2>2. f \in Fifos /\ f[2] # "request"
    BY <2>1 DEF TInv, SidesInv, End
  <2>3. /\ Len(pipe[f]) < Capacity
        /\ pipe' = [pipe EXCEPT ![f] = Append(pipe[f], a)]
        /\ UNCHANGED crashed
    BY <1>3 DEF Write, WriteTo
  <2> HIDE DEF f
  <2>4. pipe[f] \in Seq(Message)
    BY <1>1, <2>2 DEF PipeType
  <2>5. /\ Append(pipe[f], a) \in Seq(Message) /\ Len(pipe[f]) \in Nat
        /\ Len(Append(pipe[f], a)) = Len(pipe[f]) + 1
    BY <2>4, AppendProperties, LenProperties
  <2>6. Len(Append(pipe[f], a)) <= Capacity
    BY <2>3, <2>5, SessionsAssumption
  <2>7. \A g \in Fifos : pipe'[g] = IF g = f THEN Append(pipe[f], a) ELSE pipe[g]
    BY <1>1, <2>3 DEF PipeType
  <2>8. pipe' \in [Fifos -> Seq(Requests) \cup Seq(Message)]
    BY <1>1, <2>2, <2>3, <2>5 DEF PipeType
  <2>9. \A g \in Fifos :
           /\ pipe'[g] \in Seq(IF g[2] = "request" THEN Requests ELSE Message)
           /\ Len(pipe'[g]) <= Capacity
    BY <1>1, <2>2, <2>5, <2>6, <2>7 DEF PipeType
  <2> QED
    BY <1>1, <2>3, <2>8, <2>9 DEF PipeType
<1> QED
  BY <1>2, <1>3 DEF Write

\* A message that is read, and what is lost.
LEMMA ReadType ==
    ASSUME TInv, NEW f \in Fifos, pipe[f] # <<>>
    PROVE  PipeType([pipe EXCEPT ![f] = Tail(@)])
<1>1. PipeType(pipe)
  BY DEF TInv, TypeOK, PipeType
<1> DEFINE S == IF f[2] = "request" THEN Requests ELSE Message
           p == [pipe EXCEPT ![f] = Tail(@)]
<1>2. pipe[f] \in Seq(S)
  BY <1>1 DEF PipeType
<1>3. /\ Tail(pipe[f]) \in Seq(S) /\ Len(Tail(pipe[f])) = Len(pipe[f]) - 1
      /\ Len(pipe[f]) \in Nat
  BY <1>2, HeadTailProperties, LenProperties
<1>4. Len(Tail(pipe[f])) <= Capacity
  BY <1>1, <1>3, SessionsAssumption DEF PipeType
<1>5. Tail(pipe[f]) \in Seq(Requests) \cup Seq(Message)
  BY <1>3
<1> HIDE DEF S
<1>6. \A g \in Fifos : p[g] = IF g = f THEN Tail(pipe[f]) ELSE pipe[g]
  BY <1>1 DEF PipeType
<1>7. p \in [Fifos -> Seq(Requests) \cup Seq(Message)]
  BY <1>1, <1>5 DEF PipeType
<1>8. \A g \in Fifos :
         /\ p[g] \in Seq(IF g[2] = "request" THEN Requests ELSE Message)
         /\ Len(p[g]) <= Capacity
  BY <1>1, <1>3, <1>4, <1>6 DEF PipeType, S
<1> QED
  BY <1>7, <1>8 DEF PipeType

LEMMA DrainedType ==
    ASSUME TInv, NEW tab, NEW cl
    PROVE  /\ PipeType(Drained(tab, cl))
           /\ \A f \in Fifos : Drained(tab, cl)[f] \in {pipe[f], <<>>}
<1>1. PipeType(pipe)
  BY DEF TInv, TypeOK, PipeType
<1>2. /\ \A f \in Fifos : Drained(tab, cl)[f] \in {pipe[f], <<>>}
      /\ Drained(tab, cl) = [f \in Fifos |-> Drained(tab, cl)[f]]
  BY DEF Drained
<1>3. /\ <<>> \in Seq(Requests) /\ <<>> \in Seq(Message) /\ Len(<<>>) <= Capacity
  BY EmptySeq, SessionsAssumption
<1> QED
  BY <1>1, <1>2, <1>3 DEF PipeType


-----------------------------------------------------------------------------
(* Types. *)

LEMMA LastType ==
    ASSUME TInv, NEW m \in Managers
    PROVE  /\ Len(fd[m]) \in Nat /\ DOMAIN fd[m] = 1 .. Len(fd[m])
           /\ \A i \in DOMAIN fd[m] : fd[m][i] \in Descriptors \cup {Failed}
           /\ Opening(m) => Last(fd[m]) \in Descriptors /\ Len(fd[m]) >= 1
<1>1. fd[m] \in Seq(Descriptors \cup {Failed})
  BY DEF TInv, TypeOK
<1>2. /\ Len(fd[m]) \in Nat /\ DOMAIN fd[m] = 1 .. Len(fd[m])
      /\ fd[m] # <<>> => Len(fd[m]) \in Nat \ {0}
  BY <1>1, LenProperties, EmptySeq
<1>3. \A i \in DOMAIN fd[m] : fd[m][i] \in Descriptors \cup {Failed}
  BY <1>1, <1>2, ElementOfSeq
<1>4. ASSUME Opening(m) PROVE Last(fd[m]) \in Descriptors /\ Len(fd[m]) >= 1
  <2>1. Len(fd[m]) \in DOMAIN fd[m]
    BY <1>2, <1>4 DEF Opening
  <2> QED
    BY <1>2, <1>3, <1>4, <2>1 DEF Opening, Last
<1> QED
  BY <1>2, <1>3, <1>4

LEMMA InitTInv == Init => TInv
<1> SUFFICES ASSUME Init PROVE TInv
  OBVIOUS
<1> USE SessionsAssumption DEF Init
<1>1. queue = <<>> /\ peer = [m \in Managers |-> NoClient]
  BY DEF Queue!Init
<1>2. /\ \A S : <<>> \in Seq(S)
      /\ Len(<<>>) = 0
  BY EmptySeq
<1>3. TypeOK
  <2>1. /\ queue \in Seq(Clients) /\ Len(queue) <= MAX_SESSION_COUNT
        /\ peer \in [Managers -> Clients \cup {NoClient}]
    BY <1>1, <1>2
  <2>2. /\ fd \in [Managers -> Seq(Descriptors \cup {Failed})]
        /\ \A m \in Managers : mpc[m] = "take" /\ Len(fd[m]) = 0
    BY <1>2
  <2>3. ends \in [Clients -> Seq(End)]
    BY <1>2
  <2>4. PipeType(pipe)
    BY <1>2 DEF PipeType
  <2>5. /\ last \in Clients \cup {NoClient} /\ replays \in 0 .. MaxReplays
        /\ mpc \in [Managers -> {"take", "open", "read", "handle", "again", "close"}]
        /\ table \in [Descriptors -> End \cup {Closed}]
        /\ read_buffer \in [Managers -> Requests \cup {Nothing}]
        /\ intr \subseteq Managers /\ key_list \in [Managers -> {"unset", "null"}]
        /\ parted \subseteq Managers /\ twice \subseteq Clients
    OBVIOUS
  <2>6. /\ cpc \in [Clients -> {"start", "open", "connected", "gone"}]
        /\ asked \in [Clients -> Requests \cup {Nothing}]
        /\ crashed \in {Alive, SIGPIPE, SIGSEGV}
    OBVIOUS
  <2>7. sent \in [Clients -> 0 .. MaxRequests]
    OBVIOUS
  <2> HIDE DEF Init
  <2> QED
    BY <2>1, <2>2, <2>3, <2>4, <2>5, <2>6, <2>7 DEF TypeOK, PipeType
<1>4. PeerInv /\ PendingInv
  BY <1>1 DEF PeerInv, PendingInv, Pending
<1>5. SidesInv
  BY DEF SidesInv
<1> QED
  BY <1>3, <1>4, <1>5 DEF TInv

\* The place in the queue that Put takes.
LEMMA PutType ==
    ASSUME TInv, NEW c \in Clients, Queue!Put(c)
    PROVE  queue' \in Seq(Clients) /\ Len(queue') <= MAX_SESSION_COUNT
<1>1. queue \in Seq(Clients) /\ Len(queue) < MAX_SESSION_COUNT /\ queue' = Append(queue, c)
  BY DEF TInv, TypeOK, Queue!Put
<1>2. queue' \in Seq(Clients) /\ Len(queue') = Len(queue) + 1 /\ Len(queue) \in Nat
  BY <1>1, AppendProperties, LenProperties
<1> QED
  BY <1>1, <1>2, SessionsAssumption

\* Nothing that the managers' descriptors depend on has changed.
ManagersRest == UNCHANGED <<peer, mpc, fd, table>>

LEMMA RestKeeps ==
    ASSUME TInv, ManagersRest
    PROVE  PeerInv' /\ PendingInv' /\ SidesInv'
<1> USE DEF ManagersRest
<1>1. PeerInv'
  BY DEF TInv, PeerInv
<1>2. PendingInv'
  BY DEF TInv, PendingInv, Pending, Opening
<1>3. SidesInv'
  BY DEF TInv, SidesInv
<1> QED
  BY <1>1, <1>2, <1>3

LEMMA HostTInv ==
    ASSUME TInv, Host
    PROVE  TInv'
<1> USE SessionsAssumption
<1>1. ASSUME NEW c \in Clients, HostRead(c) PROVE TInv'
  <2>1. /\ cpc' = [cpc EXCEPT ![c] = "open"] /\ last' = c /\ Queue!Put(c)
        /\ UNCHANGED <<replays, managerVars, asked, sent, fifoVars, crashed, peer>>
    BY <1>1 DEF HostRead, Queue!Put
  <2>2. queue' \in Seq(Clients) /\ Len(queue') <= MAX_SESSION_COUNT
    BY <2>1, PutType
  <2>3. TypeOK'
    BY <2>1, <2>2 DEF TInv, TypeOK, managerVars, fifoVars
  <2> QED
    BY <2>1, <2>3, RestKeeps DEF TInv, ManagersRest, managerVars, fifoVars
<1>2. ASSUME HostEof PROVE TInv'
  <2>1. /\ last \in Clients /\ replays' = replays + 1 /\ replays' \in 0 .. MaxReplays
        /\ Queue!Put(last)
        /\ UNCHANGED <<last, managerVars, clientVars, fifoVars, crashed, peer>>
    BY <1>2 DEF HostEof, Queue!Put, TInv, TypeOK
  <2>2. queue' \in Seq(Clients) /\ Len(queue') <= MAX_SESSION_COUNT
    BY <2>1, PutType
  <2>3. TypeOK'
    BY <2>1, <2>2 DEF TInv, TypeOK, managerVars, fifoVars, clientVars
  <2> QED
    BY <2>1, <2>3, RestKeeps DEF TInv, ManagersRest, managerVars, fifoVars
<1> QED
  BY <1>1, <1>2 DEF Host

LEMMA TakeTInv ==
    ASSUME TInv, NEW m \in Managers, Take(m)
    PROVE  TInv' /\ peer'[m] \in Clients
<1> USE SessionsAssumption
<1>1. /\ mpc[m] = "take" /\ mpc' = [mpc EXCEPT ![m] = "open"]
      /\ queue # <<>> /\ queue' = Tail(queue)
      /\ peer' = [peer EXCEPT ![m] = Head(queue)]
      /\ UNCHANGED <<hostVars, fd, read_buffer, listVars, clientVars, fifoVars, crashed>>
  BY DEF Take, Goto, Queue!Take
<1>2. /\ queue \in Seq(Clients) /\ Len(queue) <= MAX_SESSION_COUNT
      /\ peer \in [Managers -> Clients \cup {NoClient}]
      /\ mpc \in [Managers -> {"take", "open", "read", "handle", "again", "close"}]
  BY DEF TInv, TypeOK
<1>3. /\ Head(queue) \in Clients /\ Tail(queue) \in Seq(Clients)
      /\ Len(Tail(queue)) = Len(queue) - 1 /\ Len(queue) \in Nat
  BY <1>1, <1>2, HeadTailProperties, LenProperties
<1>4. Len(queue') <= MAX_SESSION_COUNT
  BY <1>1, <1>2, <1>3
<1>5. TypeOK'
  BY <1>1, <1>2, <1>3, <1>4 DEF TInv, TypeOK, hostVars, listVars, clientVars, fifoVars
<1>6. fd[m] = <<>>
  BY <1>1 DEF TInv, PeerInv
<1>7. PeerInv'
  BY <1>1, <1>2, <1>3 DEF TInv, PeerInv
<1>8. \A k \in Managers : Pending(k)' => k # m /\ Pending(k)
  BY <1>1, <1>2, <1>6 DEF Pending, Opening
<1>9. PendingInv'
  BY <1>1, <1>8 DEF TInv, PendingInv, fifoVars
<1>10. SidesInv'
  BY <1>1 DEF TInv, SidesInv, fifoVars
<1> QED
  BY <1>1, <1>2, <1>3, <1>5, <1>7, <1>9, <1>10 DEF TInv


LEMMA OpenTInv ==
    ASSUME TInv, NEW m \in Managers, Open(m)
    PROVE  TInv'
<1> USE SessionsAssumption
<1> DEFINE n == Min(Free)
           k == Len(fd[m]) + 1
           f == <<peer[m], ManagerOpens[k][1]>>
           mode == ManagerOpens[k][2]
<1>1. /\ mpc[m] = "open" /\ Len(fd[m]) < 3
      /\ UNCHANGED <<hostVars, queueVars, mpc, read_buffer, listVars,
                     clientVars, pipe, crashed>>
  BY DEF Open
<1>2. /\ k \in 1 .. 3 /\ f \in Fifos /\ mode \in {"r", "w"}
      /\ n \in Descriptors /\ table[n] = Closed
      /\ table' \in [Descriptors -> End \cup {Closed}]
      /\ table'[n] = NewEnd(f, mode)
      /\ \A i \in Descriptors : i # n =>
            /\ Keeps(table[i], table'[i])
            /\ \/ table'[i] = table[i]
               \/ Awoken(table[i], table'[i], f, mode)
               \/ Finished(m, i, table[i], table'[i])
      /\ ends' \in [Clients -> Seq(End)]
      /\ fd' = [fd EXCEPT ![m] = Append(fd[m], n)]
  BY OpenKeeps
<1>3. mode = "r" <=> f[2] = "request"
  BY <1>2, OpensType
<1> HIDE DEF n, k, f, mode
<1>4. /\ NewEnd(f, mode) \in End
      /\ NewEnd(f, mode).fifo = f /\ NewEnd(f, mode).mode = mode
      /\ NewEnd(f, mode).state \in {"waits", "ready"}
  BY <1>2, NewEndType
<1>5. fd \in [Managers -> Seq(Descriptors \cup {Failed})]
  BY DEF TInv, TypeOK
<1>6. /\ fd'[m] \in Seq(Descriptors \cup {Failed}) /\ Len(fd'[m]) = k
      /\ Last(fd'[m]) = n
  <2>1. fd'[m] = Append(fd[m], n) /\ fd[m] \in Seq(Descriptors \cup {Failed})
    BY <1>2, <1>5
  <2> QED
    BY <1>2, <2>1, AppendProperties DEF k, Last
<1>7. \A j \in Managers : j # m => fd'[j] = fd[j]
  BY <1>2, <1>5
<1>8. fd' \in [Managers -> Seq(Descriptors \cup {Failed})]
  BY <1>2, <1>5, <1>6
<1>9. \A j \in Managers :
         IF mpc'[j] \in {"take", "open"} THEN Len(fd'[j]) <= 3 ELSE Len(fd'[j]) = 3
  BY <1>1, <1>2, <1>6, <1>7 DEF TInv, TypeOK
<1>10. TypeOK'
  BY <1>1, <1>2, <1>8, <1>9
     DEF TInv, TypeOK, hostVars, queueVars, listVars, clientVars
<1>11. PeerInv'
  BY <1>1, <1>7 DEF TInv, PeerInv, queueVars
<1>12. SidesInv'
  BY <1>2, <1>3, <1>4 DEF TInv, SidesInv, Keeps
<1>13. ASSUME NEW j \in Managers, j # m, Pending(j)'
       PROVE  /\ Pending(j) /\ Last(fd'[j]) = Last(fd[j]) /\ Last(fd[j]) # n
              /\ Last(fd[j]) \in Descriptors
              /\ table'[Last(fd[j])] \in End
              /\ table'[Last(fd[j])].state \in {"waits", "ready"}
  <2>1. Pending(j) /\ Last(fd'[j]) = Last(fd[j])
    BY <1>1, <1>7, <1>13 DEF Pending, Opening
  <2>2. Last(fd[j]) \in Descriptors
    BY <2>1, LastType DEF Pending
  <2>3. table[Last(fd[j])] \in End /\ table[Last(fd[j])].state \in {"waits", "ready"}
    BY <2>1 DEF TInv, PendingInv
  <2>4. Last(fd[j]) # n /\ table[Last(fd[j])] # Closed
    BY <1>2, <2>3
  <2>5. ~(Pending(m) /\ Last(fd[j]) = Last(fd[m]))
    BY <1>13, <2>1 DEF TInv, PendingInv
  <2> QED
    BY <1>2, <2>1, <2>2, <2>3, <2>4, <2>5 DEF Keeps, Awoken, Finished
<1>14. PendingInv'
  <2>1. table'[Last(fd'[m])] \in End /\ table'[Last(fd'[m])].state \in {"waits", "ready"}
    BY <1>2, <1>4, <1>6
  <2>2. ASSUME NEW j \in Managers, NEW i \in Managers, Pending(j)', Pending(i)',
               Last(fd'[j]) = Last(fd'[i])
        PROVE  i = j
    BY <1>6, <1>13, <2>2 DEF TInv, PendingInv
  <2>3. \A j \in Managers : Pending(j)' =>
           table'[Last(fd'[j])] \in End /\ table'[Last(fd'[j])].state \in {"waits", "ready"}
    BY <1>13, <2>1
  <2> QED
    BY <2>2, <2>3 DEF PendingInv
<1> QED
  BY <1>10, <1>11, <1>12, <1>14 DEF TInv

\* A manager at the end of an open, leaving the others' alone.
LEMMA ReturnedTInv ==
    ASSUME TInv, NEW m \in Managers, mpc[m] = "open", Returned(m),
           table' = Installed(m), ~Pending(m)',
           \A j \in Managers : j # m => mpc'[j] = mpc[j] /\ fd'[j] = fd[j]
    PROVE  PendingInv' /\ SidesInv' /\ table' \in [Descriptors -> End \cup {Closed}]
<1>1. /\ table' \in [Descriptors -> End \cup {Closed}]
      /\ \A i \in Descriptors :
            /\ Keeps(table[i], table'[i])
            /\ table'[i] = table[i] \/ Finished(m, i, table[i], table'[i])
  BY InstalledKeeps
<1>2. ASSUME NEW j \in Managers, Pending(j)'
      PROVE  /\ Pending(j) /\ Last(fd'[j]) = Last(fd[j]) /\ j # m
             /\ table'[Last(fd[j])] \in End
             /\ table'[Last(fd[j])].state \in {"waits", "ready"}
  <2>1. Pending(j) /\ Last(fd'[j]) = Last(fd[j]) /\ j # m
    BY <1>2 DEF Pending, Opening
  <2>2. Last(fd[j]) \in Descriptors
    BY <2>1, LastType DEF Pending
  <2>3. table[Last(fd[j])] \in End /\ table[Last(fd[j])].state \in {"waits", "ready"}
    BY <2>1 DEF TInv, PendingInv
  <2>4. ~(Pending(m) /\ Last(fd[j]) = Last(fd[m]))
    BY <2>1 DEF TInv, PendingInv
  <2> QED
    BY <1>1, <2>1, <2>2, <2>3, <2>4 DEF Keeps, Finished
<1>3. PendingInv'
  BY <1>2 DEF TInv, PendingInv
<1>4. SidesInv'
  BY <1>1 DEF TInv, SidesInv, Keeps
<1> QED
  BY <1>1, <1>3, <1>4


LEMMA OpenFailsTInv ==
    ASSUME TInv, NEW m \in Managers, OpenFails(m)
    PROVE  TInv'
<1> USE SessionsAssumption
<1>1. /\ mpc[m] = "open" /\ Len(fd[m]) < 3 /\ Returned(m)
      /\ table' = Installed(m)
      /\ UNCHANGED <<hostVars, queue, read_buffer, listVars, clientVars,
                     ends, pipe, crashed>>
  BY DEF OpenFails
<1>2. /\ fd \in [Managers -> Seq(Descriptors \cup {Failed})]
      /\ mpc \in [Managers -> {"take", "open", "read", "handle", "again", "close"}]
      /\ peer \in [Managers -> Clients \cup {NoClient}]
      /\ Len(fd[m]) \in Nat
  BY LastType DEF TInv, TypeOK
<1>3. \/ /\ Len(fd[m]) = 1 /\ fd' = [fd EXCEPT ![m] = Append(fd[m], Failed)]
         /\ UNCHANGED <<mpc, peer>>
      \/ /\ mpc' = [mpc EXCEPT ![m] = "take"]
         /\ peer' = [peer EXCEPT ![m] = NoClient]
         /\ fd' = [fd EXCEPT ![m] = <<>>]
  BY DEF OpenFails, Leave, Goto
<1>4. /\ fd'[m] \in Seq(Descriptors \cup {Failed}) /\ Len(fd'[m]) <= 3 /\ ~Pending(m)'
      /\ fd' \in [Managers -> Seq(Descriptors \cup {Failed})]
      /\ mpc'[m] \in {"take", "open"}
      /\ mpc' \in [Managers -> {"take", "open", "read", "handle", "again", "close"}]
      /\ peer' \in [Managers -> Clients \cup {NoClient}]
      /\ IF mpc'[m] = "take" THEN peer'[m] = NoClient /\ fd'[m] = <<>>
                             ELSE peer'[m] \in Clients
  <2>1. CASE /\ Len(fd[m]) = 1 /\ fd' = [fd EXCEPT ![m] = Append(fd[m], Failed)]
             /\ UNCHANGED <<mpc, peer>>
    <3>1. fd[m] \in Seq(Descriptors \cup {Failed}) /\ fd'[m] = Append(fd[m], Failed)
      BY <1>2, <2>1
    <3>2. /\ fd'[m] \in Seq(Descriptors \cup {Failed}) /\ Len(fd'[m]) = 2
          /\ Last(fd'[m]) = Failed
      BY <2>1, <3>1, AppendProperties DEF Last
    <3>3. fd' \in [Managers -> Seq(Descriptors \cup {Failed})]
      BY <1>2, <2>1, <3>1, <3>2
    <3>4. peer[m] \in Clients
      BY <1>1 DEF TInv, PeerInv
    <3> QED
      BY <1>1, <1>2, <2>1, <3>2, <3>3, <3>4 DEF Pending, Opening
  <2>2. CASE /\ mpc' = [mpc EXCEPT ![m] = "take"]
             /\ peer' = [peer EXCEPT ![m] = NoClient]
             /\ fd' = [fd EXCEPT ![m] = <<>>]
    <3>1. <<>> \in Seq(Descriptors \cup {Failed}) /\ Len(<<>>) = 0
      BY EmptySeq
    <3> QED
      BY <1>2, <2>2, <3>1 DEF Pending
  <2> QED
    BY <1>3, <2>1, <2>2
<1>5. \A j \in Managers : j # m =>
         mpc'[j] = mpc[j] /\ fd'[j] = fd[j] /\ peer'[j] = peer[j]
  BY <1>2, <1>3
<1>6. PendingInv' /\ SidesInv' /\ table' \in [Descriptors -> End \cup {Closed}]
  BY <1>1, <1>4, <1>5, ReturnedTInv
<1>7. PeerInv'
  BY <1>4, <1>5 DEF TInv, PeerInv
<1>8. \A j \in Managers :
         IF mpc'[j] \in {"take", "open"} THEN Len(fd'[j]) <= 3 ELSE Len(fd'[j]) = 3
  BY <1>4, <1>5 DEF TInv, TypeOK
<1>9. TypeOK'
  BY <1>1, <1>4, <1>6, <1>8 DEF TInv, TypeOK, hostVars, listVars, clientVars
<1> QED
  BY <1>6, <1>7, <1>9 DEF TInv

LEMMA WelcomeTInv ==
    ASSUME TInv, NEW m \in Managers, Welcome(m)
    PROVE  TInv'
<1> USE SessionsAssumption
<1> DEFINE a == Answer(m, "connect", Nothing)
<1>1. /\ mpc[m] = "open" /\ Len(fd[m]) = 3 /\ Returned(m)
      /\ table' = Installed(m)
      /\ Write(fd[m][2], a)
      /\ UNCHANGED <<hostVars, queue, read_buffer, listVars, clientVars, ends>>
  BY DEF Welcome, fd_response
<1>2. /\ fd \in [Managers -> Seq(Descriptors \cup {Failed})]
      /\ mpc \in [Managers -> {"take", "open", "read", "handle", "again", "close"}]
      /\ peer \in [Managers -> Clients \cup {NoClient}]
      /\ fd[m][2] \in Descriptors \cup {Failed}
  BY <1>1, LastType DEF TInv, TypeOK
<1>3. \/ mpc' = [mpc EXCEPT ![m] = "read"] /\ UNCHANGED <<peer, fd>>
      \/ /\ mpc' = [mpc EXCEPT ![m] = "take"]
         /\ peer' = [peer EXCEPT ![m] = NoClient]
         /\ fd' = [fd EXCEPT ![m] = <<>>]
  BY DEF Welcome, Leave, Goto
<1>4. a \in Message
  BY DEF Answer, Message
<1> HIDE DEF a
<1>5. PipeType(pipe') /\ crashed' \in {Alive, SIGPIPE, SIGSEGV}
  BY <1>1, <1>2, <1>4, WriteType
<1>6. /\ fd' \in [Managers -> Seq(Descriptors \cup {Failed})] /\ ~Pending(m)'
      /\ IF mpc'[m] \in {"take", "open"} THEN Len(fd'[m]) <= 3 ELSE Len(fd'[m]) = 3
      /\ mpc' \in [Managers -> {"take", "open", "read", "handle", "again", "close"}]
      /\ peer' \in [Managers -> Clients \cup {NoClient}]
      /\ IF mpc'[m] = "take" THEN peer'[m] = NoClient /\ fd'[m] = <<>>
                             ELSE peer'[m] \in Clients
  <2>1. CASE mpc' = [mpc EXCEPT ![m] = "read"] /\ UNCHANGED <<peer, fd>>
    BY <1>1, <1>2, <2>1 DEF TInv, PeerInv, Pending
  <2>2. CASE /\ mpc' = [mpc EXCEPT ![m] = "take"]
             /\ peer' = [peer EXCEPT ![m] = NoClient]
             /\ fd' = [fd EXCEPT ![m] = <<>>]
    <3>1. <<>> \in Seq(Descriptors \cup {Failed}) /\ Len(<<>>) = 0
      BY EmptySeq
    <3> QED
      BY <1>2, <2>2, <3>1 DEF Pending
  <2> QED
    BY <1>3, <2>1, <2>2
<1>7. \A j \in Managers : j # m =>
         mpc'[j] = mpc[j] /\ fd'[j] = fd[j] /\ peer'[j] = peer[j]
  BY <1>2, <1>3
<1>8. PendingInv' /\ SidesInv' /\ table' \in [Descriptors -> End \cup {Closed}]
  BY <1>1, <1>6, <1>7, ReturnedTInv
<1>9. PeerInv'
  BY <1>6, <1>7 DEF TInv, PeerInv
<1>10. \A j \in Managers :
         IF mpc'[j] \in {"take", "open"} THEN Len(fd'[j]) <= 3 ELSE Len(fd'[j]) = 3
  BY <1>6, <1>7 DEF TInv, TypeOK
<1>11. TypeOK'
  BY <1>1, <1>5, <1>6, <1>8, <1>10
     DEF TInv, TypeOK, PipeType, hostVars, listVars, clientVars
<1> QED
  BY <1>8, <1>9, <1>11 DEF TInv

\* In its command loop a manager opens nothing.
LEMMA LoopKeeps ==
    ASSUME TInv, NEW m \in Managers, NEW next \in {"read", "handle", "again", "close"},
           mpc[m] \in {"read", "handle", "again", "close"},
           mpc' = [mpc EXCEPT ![m] = next],
           UNCHANGED <<queue, peer, fd>>
    PROVE  /\ PeerInv' /\ \A j \in Managers : Pending(j)' => Pending(j)
           /\ mpc' \in [Managers -> {"take", "open", "read", "handle", "again", "close"}]
           /\ \A j \in Managers :
                 IF mpc'[j] \in {"take", "open"} THEN Len(fd'[j]) <= 3
                                                 ELSE Len(fd'[j]) = 3
<1>1. mpc \in [Managers -> {"take", "open", "read", "handle", "again", "close"}]
  BY DEF TInv, TypeOK
<1>2. PeerInv'
  BY <1>1 DEF TInv, PeerInv
<1>3. \A j \in Managers : Pending(j)' => Pending(j)
  BY <1>1 DEF Pending, Opening
<1>4. \A j \in Managers :
         IF mpc'[j] \in {"take", "open"} THEN Len(fd'[j]) <= 3 ELSE Len(fd'[j]) = 3
  BY <1>1 DEF TInv, TypeOK
<1> QED
  BY <1>1, <1>2, <1>3, <1>4

LEMMA LoopTInv ==
    ASSUME TInv, NEW m \in Managers, NEW next \in {"read", "handle", "again", "close"},
           mpc[m] \in {"read", "handle", "again", "close"},
           mpc' = [mpc EXCEPT ![m] = next],
           PipeType(pipe'), crashed' \in {Alive, SIGPIPE, SIGSEGV},
           read_buffer' \in [Managers -> Requests \cup {Nothing}],
           key_list' \in [Managers -> {"unset", "null"}],
           parted' \subseteq Managers, twice' \subseteq Clients,
           UNCHANGED <<hostVars, queueVars, fd, intr, clientVars, table, ends>>
    PROVE  TInv'
<1>1. UNCHANGED <<queue, peer>>
  BY DEF queueVars
<1>2. /\ PeerInv' /\ \A j \in Managers : Pending(j)' => Pending(j)
      /\ mpc' \in [Managers -> {"take", "open", "read", "handle", "again", "close"}]
      /\ \A j \in Managers :
            IF mpc'[j] \in {"take", "open"} THEN Len(fd'[j]) <= 3 ELSE Len(fd'[j]) = 3
  BY <1>1, LoopKeeps
<1>3. TypeOK'
  BY <1>1, <1>2 DEF TInv, TypeOK, PipeType, hostVars, clientVars
<1>4. PendingInv'
  BY <1>2 DEF TInv, PendingInv
<1>5. SidesInv'
  BY DEF TInv, SidesInv
<1> QED
  BY <1>2, <1>3, <1>4, <1>5 DEF TInv


\* The steps of a manager in its command loop, Close apart.
Command(m) ==
    \/ Read(m) \/ Ignore(m) \/ Subscribe(m) \/ SubscribeAgain(m)
    \/ Unsubscribe(m) \/ Disconnect(m)

LEMMA CommandTInv ==
    ASSUME TInv, NEW m \in Managers, Command(m)
    PROVE  TInv'
<1>1. /\ PipeType(pipe) /\ crashed \in {Alive, SIGPIPE, SIGSEGV}
      /\ read_buffer \in [Managers -> Requests \cup {Nothing}]
      /\ key_list \in [Managers -> {"unset", "null"}]
      /\ parted \subseteq Managers /\ twice \subseteq Clients
  BY DEF TInv, TypeOK, PipeType
<1>2. ASSUME Read(m) PROVE TInv'
  <2>1. /\ mpc[m] = "read" /\ mpc' = [mpc EXCEPT ![m] = "handle"]
        /\ UNCHANGED <<hostVars, queueVars, fd, listVars, clientVars,
                       table, ends, crashed>>
    BY <1>2 DEF Read, Goto
  <2>2. CASE UNCHANGED <<read_buffer, pipe>>
    BY <1>1, <2>1, <2>2, LoopTInv DEF listVars
  <2>3. CASE ~UNCHANGED <<read_buffer, pipe>>
    <3> DEFINE f == table[fd_request(m)].fifo
    <3>1. /\ Denotes(fd_request(m), "r") /\ pipe[f] # <<>>
          /\ read_buffer' = [read_buffer EXCEPT ![m] = Head(pipe[f])]
          /\ pipe' = [pipe EXCEPT ![f] = Tail(pipe[f])]
      BY <1>2, <2>3 DEF Read, ReadFails
    <3>2. fd_request(m) \in Descriptors
      <4>1. Len(fd[m]) = 3
        BY <2>1 DEF TInv, TypeOK
      <4> QED
        BY <3>1, <4>1, LastType DEF Denotes, fd_request
    <3>3. /\ table[fd_request(m)] \in End /\ table[fd_request(m)].mode = "r"
          /\ table[fd_request(m)] # Closed
      BY <3>1, <3>2 DEF Denotes, TInv, TypeOK
    <3>4. f \in Fifos /\ f[2] = "request"
      BY <3>2, <3>3 DEF TInv, SidesInv, End
    <3> HIDE DEF f
    <3>5. pipe[f] \in Seq(Requests)
      BY <1>1, <3>4 DEF PipeType
    <3>6. Head(pipe[f]) \in Requests
      BY <3>1, <3>5, HeadTailProperties
    <3>7. read_buffer' \in [Managers -> Requests \cup {Nothing}]
      BY <1>1, <3>1, <3>6
    <3>8. PipeType(pipe')
      BY <3>1, <3>4, ReadType
    <3> QED
      BY <1>1, <2>1, <3>7, <3>8, LoopTInv DEF listVars
  <2> QED
    BY <2>2, <2>3
<1>3. ASSUME Ignore(m) PROVE TInv'
  <2>1. /\ mpc[m] = "handle" /\ mpc' = [mpc EXCEPT ![m] = "read"]
        /\ UNCHANGED <<hostVars, queueVars, fd, read_buffer, listVars,
                       clientVars, table, ends, pipe, crashed>>
    BY <1>3 DEF Ignore, Goto, fifoVars
  <2> QED
    BY <1>1, <2>1, LoopTInv DEF listVars
<1>4. ASSUME NEW op, NEW next \in {"read", "again", "close"}, Handles(m, op, next),
             PipeType(pipe'), crashed' \in {Alive, SIGPIPE, SIGSEGV},
             key_list' \in [Managers -> {"unset", "null"}],
             parted' \subseteq Managers, twice' \subseteq Clients
      PROVE  TInv'
  <2>1. /\ mpc[m] = "handle" /\ mpc' = [mpc EXCEPT ![m] = next]
        /\ UNCHANGED <<hostVars, queueVars, fd, read_buffer, intr, clientVars,
                       table, ends>>
    BY <1>4 DEF Handles, Goto
  <2> QED
    BY <1>1, <1>4, <2>1, LoopTInv
<1>5. ASSUME NEW op \in {"20", "30", "31", "40", "41"}, Reply(m, op),
             mpc[m] \in {"handle", "again"}
      PROVE  PipeType(pipe') /\ crashed' \in {Alive, SIGPIPE, SIGSEGV}
  <2> DEFINE a == Answer(m, op, read_buffer[m])
  <2>1. Len(fd[m]) = 3
    BY <1>5 DEF TInv, TypeOK
  <2>2. fd_response(m) \in Descriptors \cup {Failed}
    BY <2>1, LastType DEF fd_response
  <2>3. a \in Message
    BY <1>1 DEF Answer, Message
  <2>4. Write(fd_response(m), a)
    BY <1>5 DEF Reply
  <2> HIDE DEF a
  <2> QED
    BY <2>2, <2>3, <2>4, WriteType
<1>6. Crash => /\ PipeType(pipe') /\ crashed' \in {Alive, SIGPIPE, SIGSEGV}
               /\ key_list' = key_list
  BY <1>1 DEF Crash
<1>7. ASSUME Subscribe(m) PROVE TInv'
  <2> DEFINE stored == read_buffer[m].key \in Stored
  <2>1. /\ Handles(m, "subscribe", IF stored THEN "read" ELSE "again")
        /\ twice' = IF stored THEN twice ELSE twice \cup {peer[m]}
        /\ UNCHANGED parted
        /\ \/ Crash
           \/ Reply(m, IF stored THEN "31" ELSE "30") /\ UNCHANGED key_list
    BY <1>7 DEF Subscribe
  <2> HIDE DEF stored
  <2>2. mpc[m] = "handle"
    BY <2>1 DEF Handles, Goto
  <2>3. twice' \subseteq Clients
    BY <1>1, <2>1, <2>2 DEF TInv, PeerInv
  <2>4. /\ PipeType(pipe') /\ crashed' \in {Alive, SIGPIPE, SIGSEGV}
        /\ key_list' = key_list
    BY <1>5, <1>6, <2>1, <2>2
  <2> QED
    BY <1>1, <1>4, <2>1, <2>3, <2>4
<1>8. ASSUME SubscribeAgain(m) PROVE TInv'
  <2>1. /\ mpc[m] = "again" /\ mpc' = [mpc EXCEPT ![m] = "read"] /\ Reply(m, "31")
        /\ UNCHANGED <<hostVars, queueVars, fd, read_buffer, listVars, clientVars,
                       table, ends>>
    BY <1>8 DEF SubscribeAgain, Goto
  <2>2. PipeType(pipe') /\ crashed' \in {Alive, SIGPIPE, SIGSEGV}
    BY <1>5, <2>1
  <2> QED
    BY <1>1, <2>1, <2>2, LoopTInv DEF listVars
<1>9. ASSUME Unsubscribe(m) PROVE TInv'
  <2> DEFINE op == IF read_buffer[m].key \in Stored THEN "41" ELSE "40"
  <2>1. /\ Handles(m, "unsubscribe", "read") /\ UNCHANGED <<parted, twice>>
        /\ Crash \/ (Reply(m, op) /\ UNCHANGED key_list)
    BY <1>9 DEF Unsubscribe
  <2>2. mpc[m] = "handle" /\ op \in {"20", "30", "31", "40", "41"}
    BY <2>1 DEF Handles, Goto
  <2> HIDE DEF op
  <2>3. /\ PipeType(pipe') /\ crashed' \in {Alive, SIGPIPE, SIGSEGV}
        /\ key_list' = key_list
    BY <1>5, <1>6, <2>1, <2>2
  <2> QED
    BY <1>1, <1>4, <2>1, <2>3
<1>10. ASSUME Disconnect(m) PROVE TInv'
  <2>1. /\ Handles(m, "disconnect", "close") /\ parted' = parted \cup {m}
        /\ UNCHANGED twice
        /\ Crash \/ (/\ key_list' = [key_list EXCEPT ![m] = "null"]
                     /\ Reply(m, "20"))
    BY <1>10 DEF Disconnect
  <2>2. mpc[m] = "handle"
    BY <2>1 DEF Handles, Goto
  <2>3. /\ PipeType(pipe') /\ crashed' \in {Alive, SIGPIPE, SIGSEGV}
        /\ key_list' \in [Managers -> {"unset", "null"}]
    BY <1>1, <1>5, <1>6, <2>1, <2>2
  <2> QED
    BY <1>1, <1>4, <2>1, <2>3
<1> QED
  BY <1>2, <1>3, <1>7, <1>8, <1>9, <1>10 DEF Command

\* Close closes no end that somebody waits at.
LEMMA CloseKeeps ==
    ASSUME TInv, NEW m \in Managers, Close(m)
    PROVE  \A n \in Descriptors :
              table'[n] = table[n] \/ (table[n].state = "open" /\ table'[n] = Closed)
  BY DEF Close, Denotes

LEMMA CloseTInv ==
    ASSUME TInv, NEW m \in Managers, Close(m)
    PROVE  TInv'
<1>1. /\ mpc[m] = "close" /\ mpc' = [mpc EXCEPT ![m] = "read"]
      /\ pipe' = Drained(table', ends)
      /\ UNCHANGED <<hostVars, queueVars, fd, read_buffer, listVars,
                     clientVars, ends, crashed>>
  BY DEF Close, Goto
<1>2. UNCHANGED <<queue, peer, fd>>
  BY <1>1 DEF queueVars
<1>3. /\ PeerInv' /\ \A j \in Managers : Pending(j)' => Pending(j)
      /\ mpc' \in [Managers -> {"take", "open", "read", "handle", "again", "close"}]
      /\ \A j \in Managers :
            IF mpc'[j] \in {"take", "open"} THEN Len(fd'[j]) <= 3 ELSE Len(fd'[j]) = 3
  BY <1>1, <1>2, LoopKeeps
<1>4. table' \in [Descriptors -> End \cup {Closed}]
  <2>1. \A n \in Descriptors : table'[n] \in End \cup {Closed}
    BY CloseKeeps DEF TInv, TypeOK
  <2>2. table' = [n \in Descriptors |-> table'[n]]
    BY DEF Close
  <2> QED
    BY <2>1, <2>2
<1>5. PipeType(pipe')
  BY <1>1, DrainedType
<1>6. TypeOK'
  BY <1>1, <1>2, <1>3, <1>4, <1>5
     DEF TInv, TypeOK, PipeType, hostVars, listVars, clientVars
<1>7. PendingInv'
  <2>1. ASSUME NEW j \in Managers, Pending(j)'
        PROVE  /\ Pending(j) /\ Last(fd'[j]) = Last(fd[j])
               /\ table'[Last(fd[j])] = table[Last(fd[j])]
    <3>1. Pending(j) /\ Last(fd'[j]) = Last(fd[j])
      BY <1>2, <1>3, <2>1
    <3>2. Last(fd[j]) \in Descriptors /\ table[Last(fd[j])].state \in {"waits", "ready"}
      BY <3>1, LastType DEF TInv, PendingInv, Pending
    <3> QED
      BY <3>1, <3>2, CloseKeeps
  <2> QED
    BY <2>1 DEF TInv, PendingInv
<1>8. SidesInv'
  BY CloseKeeps DEF TInv, SidesInv
<1> QED
  BY <1>3, <1>6, <1>7, <1>8 DEF TInv


LEMMA OpenNextTInv ==
    ASSUME TInv, NEW c \in Clients, OpenNext(c)
    PROVE  TInv'
<1> DEFINE k == Len(ends[c]) + 1
           f == <<c, ClientOpens(c)[k][1]>>
           mode == ClientOpens(c)[k][2]
<1>1. UNCHANGED <<hostVars, queueVars, managerVars, clientVars, pipe, crashed>>
  BY DEF OpenNext
<1>2. /\ table' \in [Descriptors -> End \cup {Closed}]
      /\ \A i \in Descriptors :
            /\ Keeps(table[i], table'[i])
            /\ table'[i] = table[i] \/ Awoken(table[i], table'[i], f, mode)
      /\ ends' \in [Clients -> Seq(End)]
  BY OpenNextKeeps
<1> HIDE DEF k, f, mode
<1>3. TypeOK'
  BY <1>1, <1>2 DEF TInv, TypeOK, hostVars, queueVars, managerVars, clientVars
<1>4. PeerInv'
  BY <1>1 DEF TInv, PeerInv, queueVars, managerVars
<1>5. SidesInv'
  BY <1>2 DEF TInv, SidesInv, Keeps
<1>6. ASSUME NEW j \in Managers, Pending(j)'
      PROVE  /\ Pending(j) /\ Last(fd'[j]) = Last(fd[j])
             /\ table'[Last(fd[j])] \in End
             /\ table'[Last(fd[j])].state \in {"waits", "ready"}
  <2>1. Pending(j) /\ Last(fd'[j]) = Last(fd[j])
    BY <1>1, <1>6 DEF Pending, Opening, managerVars
  <2>2. /\ Last(fd[j]) \in Descriptors /\ table[Last(fd[j])] \in End
        /\ table[Last(fd[j])].state \in {"waits", "ready"}
        /\ table[Last(fd[j])] # Closed
    BY <2>1, LastType, SessionsAssumption DEF TInv, PendingInv, Pending
  <2> QED
    BY <1>2, <2>1, <2>2 DEF Keeps, Awoken
<1>7. PendingInv'
  BY <1>6 DEF TInv, PendingInv
<1> QED
  BY <1>3, <1>4, <1>5, <1>7 DEF TInv

\* The other steps of a client.
LEMMA ClientTInv ==
    ASSUME TInv, NEW c \in Clients,
           Receive(c) \/ Exit(c) \/ \E r \in Requests : Ask(c, r)
    PROVE  TInv'
<1>1. /\ PipeType(pipe)
      /\ cpc \in [Clients -> {"start", "open", "connected", "gone"}]
      /\ asked \in [Clients -> Requests \cup {Nothing}]
      /\ sent \in [Clients -> 0 .. MaxRequests]
      /\ ends \in [Clients -> Seq(End)]
  BY DEF TInv, TypeOK, PipeType
<1>2. ASSUME UNCHANGED <<hostVars, queueVars, managerVars, table, crashed>>,
             PipeType(pipe'), ends' \in [Clients -> Seq(End)],
             cpc' \in [Clients -> {"start", "open", "connected", "gone"}],
             asked' \in [Clients -> Requests \cup {Nothing}],
             sent' \in [Clients -> 0 .. MaxRequests]
      PROVE  TInv'
  <2>1. TypeOK'
    BY <1>2 DEF TInv, TypeOK, PipeType, hostVars, queueVars, managerVars
  <2> QED
    BY <1>2, <2>1, RestKeeps DEF TInv, ManagersRest, queueVars, managerVars
<1>3. ASSUME Receive(c) PROVE TInv'
  <2>1. /\ pipe' = [pipe EXCEPT ![<<c, "response">>] = Tail(@)]
        /\ pipe[<<c, "response">>] # <<>>
        /\ cpc' = [cpc EXCEPT ![c] = "connected"]
        /\ asked' \in {asked, [asked EXCEPT ![c] = Nothing]}
        /\ UNCHANGED <<hostVars, queueVars, managerVars, sent, table, ends, crashed>>
    BY <1>1, <1>3 DEF Receive, Answers
  <2>2. <<c, "response">> \in Fifos
    BY DEF Fifos
  <2>3. PipeType(pipe')
    BY <2>1, <2>2, ReadType
  <2>4. /\ cpc' \in [Clients -> {"start", "open", "connected", "gone"}]
        /\ asked' \in [Clients -> Requests \cup {Nothing}]
    BY <1>1, <2>1
  <2> QED
    BY <1>1, <1>2, <2>1, <2>3, <2>4
<1>4. ASSUME Exit(c) PROVE TInv'
  <2>1. /\ cpc' = [cpc EXCEPT ![c] = "gone"] /\ ends' = [ends EXCEPT ![c] = <<>>]
        /\ asked' = [asked EXCEPT ![c] = Nothing] /\ pipe' = Drained(table, ends')
        /\ sent' = [sent EXCEPT ![c] = 0]
        /\ UNCHANGED <<hostVars, queueVars, managerVars, table, crashed>>
    BY <1>4 DEF Exit, ClientGoto
  <2>2. PipeType(pipe')
    BY <2>1, DrainedType
  <2>3. <<>> \in Seq(End)
    BY EmptySeq
  <2>4. /\ cpc' \in [Clients -> {"start", "open", "connected", "gone"}]
        /\ asked' \in [Clients -> Requests \cup {Nothing}]
        /\ ends' \in [Clients -> Seq(End)]
        /\ sent' \in [Clients -> 0 .. MaxRequests]
    BY <1>1, <2>1, <2>3, SessionsAssumption
  <2> QED
    BY <1>1, <1>2, <2>1, <2>2, <2>4
<1>5. ASSUME NEW r \in Requests, Ask(c, r) PROVE TInv'
  <2> DEFINE f == <<c, "request">>
  <2>1. /\ sent[c] < MaxRequests /\ Len(pipe[f]) < Capacity
        /\ sent' \in {[sent EXCEPT ![c] = MaxRequests], [sent EXCEPT ![c] = @ + 1]}
        /\ asked' = [asked EXCEPT ![c] = r]
        /\ pipe' = [pipe EXCEPT ![f] = Append(pipe[f], r)]
        /\ UNCHANGED <<hostVars, queueVars, managerVars, cpc, table, ends, crashed>>
    BY <1>1, <1>5 DEF Ask
  <2>2. f \in Fifos /\ f[2] = "request"
    BY DEF Fifos
  <2> HIDE DEF f
  <2>3. pipe[f] \in Seq(Requests)
    BY <1>1, <2>2 DEF PipeType
  <2>4. /\ Append(pipe[f], r) \in Seq(Requests) /\ Len(pipe[f]) \in Nat
        /\ Len(Append(pipe[f], r)) = Len(pipe[f]) + 1
    BY <2>3, AppendProperties, LenProperties
  <2>5. Len(Append(pipe[f], r)) <= Capacity
    BY <2>1, <2>4, SessionsAssumption
  <2>6. \A g \in Fifos : pipe'[g] = IF g = f THEN Append(pipe[f], r) ELSE pipe[g]
    BY <1>1, <2>1 DEF PipeType
  <2>7. pipe' \in [Fifos -> Seq(Requests) \cup Seq(Message)]
    BY <1>1, <2>1, <2>4 DEF PipeType
  <2>8. PipeType(pipe')
    BY <1>1, <2>2, <2>4, <2>5, <2>6, <2>7 DEF PipeType
  <2>9. sent[c] + 1 \in 0 .. MaxRequests /\ MaxRequests \in 0 .. MaxRequests
    BY <1>1, <2>1, SessionsAssumption
  <2>10. sent' \in [Clients -> 0 .. MaxRequests]
    BY <1>1, <2>1, <2>9
  <2>11. asked' \in [Clients -> Requests \cup {Nothing}]
    BY <1>1, <2>1
  <2> QED
    BY <1>1, <1>2, <2>1, <2>8, <2>10, <2>11
<1> QED
  BY <1>3, <1>4, <1>5

LEMMA NextTInv == TInv /\ [Next]_vars => TInv'
<1> SUFFICES ASSUME TInv, [Next]_vars PROVE TInv'
  OBVIOUS
<1>1. CASE Host
  BY <1>1, HostTInv
<1>2. ASSUME NEW m \in Managers, Manager(m) PROVE TInv'
  BY <1>2, TakeTInv, OpenTInv, OpenFailsTInv, WelcomeTInv, CommandTInv, CloseTInv
     DEF Manager, Command
<1>3. ASSUME NEW c \in Clients,
             Client(c) \/ Exit(c) \/ \E r \in Requests : Ask(c, r)
      PROVE  TInv'
  BY <1>3, OpenNextTInv, ClientTInv DEF Client
<1>4. CASE UNCHANGED vars
  <2>1. UNCHANGED <<hostVars, queueVars, managerVars, clientVars, fifoVars, crashed>>
    BY <1>4 DEF vars
  <2>2. TypeOK'
    BY <2>1 DEF TInv, TypeOK, hostVars, queueVars, managerVars, clientVars, fifoVars
  <2> QED
    BY <2>1, <2>2, RestKeeps DEF TInv, ManagersRest, queueVars, managerVars, fifoVars
<1> QED
  BY <1>1, <1>2, <1>3, <1>4 DEF Next

LEMMA TInvHolds == Spec => []TInv
<1> QED
  BY InitTInv, NextTInv, PTL DEF Spec

\* Every variable keeps its type; in particular no answer ever goes into a
\* request fifo and no request into a response fifo (main.c:404-419, 470-508).
THEOREM TypeCorrect == Spec => []TypeOK
<1>1. TInv => TypeOK
  BY DEF TInv
<1> QED
  BY <1>1, TInvHolds, PTL


-----------------------------------------------------------------------------
(* Death. *)

LEMMA ClientEndType ==
    ASSUME TInv, NEW c \in Clients
    PROVE  \A i \in DOMAIN ends[c] :
              ends[c][i] \in End /\ ends[c][i] # Closed
<1>1. ends[c] \in Seq(End)
  BY DEF TInv, TypeOK
<1> QED
  BY <1>1, LenProperties, ElementOfSeq, SessionsAssumption

\* The end that a client has it keeps, whatever opens return.
LEMMA HasEndKept ==
    ASSUME TInv, NEW f \in Fifos, NEW mode, HasEnd(ends, f, mode),
           DOMAIN ends[f[1]] \subseteq DOMAIN ends'[f[1]],
           \A i \in DOMAIN ends[f[1]] : Keeps(ends[f[1]][i], ends'[f[1]][i])
    PROVE  HasEnd(ends', f, mode)
<1>1. f[1] \in Clients
  BY DEF Fifos
<1>2. PICK i \in DOMAIN ends[f[1]] : ends[f[1]][i].fifo = f /\ ends[f[1]][i].mode = mode
  BY DEF HasEnd
<1>3. /\ i \in DOMAIN ends'[f[1]]
      /\ ends'[f[1]][i].fifo = f /\ ends'[f[1]][i].mode = mode
  BY <1>1, <1>2, ClientEndType DEF Keeps
<1> QED
  BY <1>3 DEF HasEnd

LEMMA TableFifo ==
    ASSUME TInv, NEW n \in Descriptors, table[n] # Closed
    PROVE  /\ table[n] \in End /\ table[n].fifo \in Fifos
           /\ table[n].fifo[1] \in Clients
           /\ table[n].mode \in {"r", "w"}
           /\ table[n].state \in {"waits", "ready", "open"}
<1>1. table[n] \in End
  BY DEF TInv, TypeOK
<1> QED
  BY <1>1 DEF End, Fifos

\* When nothing is opened anew and no client leaves.
LEMMA EndsRest ==
    ASSUME EndsInv, UNCHANGED ends, TInv',
           \A c \in Clients : cpc[c] = "gone" => cpc'[c] = "gone",
           \A n \in Descriptors :
              \/ table'[n] = Closed \/ table'[n] = table[n]
              \/ /\ table[n] # Closed /\ table[n].state # "waits"
                 /\ table'[n].fifo = table[n].fifo /\ table'[n].mode = table[n].mode
    PROVE  EndsInv'
<1>1. ClientEndInv'
  BY DEF EndsInv, ClientEndInv
<1>2. ASSUME NEW n \in Descriptors, table'[n] # Closed, table'[n].state # "waits"
      PROVE  \/ cpc'[table'[n].fifo[1]] = "gone"
             \/ HasEnd(ends', table'[n].fifo, Other(table'[n].mode))
  <2>1. /\ table[n] # Closed /\ table[n].state # "waits"
        /\ table'[n].fifo = table[n].fifo /\ table'[n].mode = table[n].mode
    BY <1>2
  <2> DEFINE f == table[n].fifo
             mode == Other(table[n].mode)
  <2>2. f[1] \in Clients
    BY <2>1, TableFifo DEF EndsInv
  <2>3. cpc[f[1]] = "gone" \/ HasEnd(ends, f, mode)
    BY <2>1 DEF EndsInv, OtherEndInv
  <2>4. HasEnd(ends, f, mode) => HasEnd(ends', table'[n].fifo, Other(table'[n].mode))
    BY <2>1 DEF HasEnd
  <2> QED
    BY <2>1, <2>2, <2>3, <2>4
<1>3. OtherEndInv'
  BY <1>2 DEF OtherEndInv
<1> QED
  BY <1>1, <1>3 DEF EndsInv


LEMMA OpenEnds ==
    ASSUME EndsInv, NEW m \in Managers, Open(m)
    PROVE  EndsInv'
<1> DEFINE n == Min(Free)
           k == Len(fd[m]) + 1
           f == <<peer[m], ManagerOpens[k][1]>>
           mode == ManagerOpens[k][2]
<1>0. TInv
  BY DEF EndsInv
<1>1. /\ k \in 1 .. 3 /\ f \in Fifos /\ mode \in {"r", "w"}
      /\ n \in Descriptors /\ table[n] = Closed
      /\ table'[n] = NewEnd(f, mode)
      /\ \A i \in Descriptors : i # n =>
            /\ Keeps(table[i], table'[i])
            /\ \/ table'[i] = table[i]
               \/ Awoken(table[i], table'[i], f, mode)
               \/ Finished(m, i, table[i], table'[i])
      /\ \A c \in Clients :
            /\ DOMAIN ends'[c] = DOMAIN ends[c]
            /\ \A i \in DOMAIN ends[c] : Keeps(ends[c][i], ends'[c][i])
  BY <1>0, OpenKeeps
<1>2. mode = "r" <=> f[2] = "request"
  BY <1>1, OpensType
<1>3. UNCHANGED cpc
  BY DEF Open, clientVars
<1> HIDE DEF n, k, f, mode
<1>4. /\ NewEnd(f, mode).fifo = f /\ NewEnd(f, mode).mode = mode
      /\ NewEnd(f, mode).state = "ready" => Present(f, Other(mode), table, ends)
      /\ NewEnd(f, mode).state \in {"waits", "ready"}
  BY <1>1, NewEndType
<1>5. ClientEndInv'
  BY <1>0, <1>1, ClientEndType DEF EndsInv, ClientEndInv, Keeps
<1>6. ASSUME NEW g \in Fifos, NEW side, HasEnd(ends, g, side)
      PROVE  HasEnd(ends', g, side)
  <2>1. g[1] \in Clients
    BY DEF Fifos
  <2> QED
    BY <1>0, <1>1, <1>6, <2>1, HasEndKept
\* A fifo that the server has opened is not opened from its other side.
<1>7. ASSUME NEW i \in Descriptors, table[i] # Closed, table[i].fifo = f
      PROVE  table[i].mode = mode
  BY <1>0, <1>1, <1>2, <1>7, TableFifo DEF TInv, SidesInv
<1>8. ASSUME NEW i \in Descriptors, i # n, table'[i] # Closed, table'[i].state # "waits"
      PROVE  \/ cpc'[table'[i].fifo[1]] = "gone"
             \/ HasEnd(ends', table'[i].fifo, Other(table'[i].mode))
  <2>1. /\ table[i] # Closed
        /\ table'[i].fifo = table[i].fifo /\ table'[i].mode = table[i].mode
    BY <1>1, <1>8 DEF Keeps
  <2>2. ~Awoken(table[i], table'[i], f, mode)
    BY <1>1, <1>7, <2>1 DEF Awoken, Other
  <2>3. table[i].state # "waits"
    BY <1>1, <1>8, <2>2 DEF Finished
  <2>4. \/ cpc[table[i].fifo[1]] = "gone"
        \/ HasEnd(ends, table[i].fifo, Other(table[i].mode))
    BY <2>1, <2>3 DEF EndsInv, OtherEndInv
  <2>5. table[i].fifo \in Fifos
    BY <1>0, <2>1, TableFifo
  <2>6. HasEnd(ends, table[i].fifo, Other(table[i].mode)) =>
           HasEnd(ends', table[i].fifo, Other(table[i].mode))
    BY <1>6, <2>5
  <2> QED
    BY <1>3, <2>1, <2>4, <2>6
<1>9. ASSUME NewEnd(f, mode).state = "ready"
      PROVE  HasEnd(ends', f, Other(mode))
  <2>1. Present(f, Other(mode), table, ends)
    BY <1>4, <1>9
  <2>2. PICK c \in Clients : \E i \in DOMAIN ends[c] :
           ends[c][i].fifo = f /\ ends[c][i].mode = Other(mode)
    BY <1>1, <1>7, <2>1 DEF Present, Other
  <2>3. c = f[1]
    BY <2>2 DEF EndsInv, ClientEndInv
  <2>4. HasEnd(ends, f, Other(mode))
    BY <2>2, <2>3 DEF HasEnd
  <2> QED
    BY <1>1, <1>6, <2>4
<1>10. OtherEndInv'
  BY <1>1, <1>4, <1>8, <1>9 DEF OtherEndInv
<1> QED
  BY <1>0, <1>5, <1>10, OpenTInv DEF EndsInv


LEMMA OpenNextEnds ==
    ASSUME EndsInv, NEW c \in Clients, OpenNext(c)
    PROVE  EndsInv'
<1> DEFINE k == Len(ends[c]) + 1
           f == <<c, ClientOpens(c)[k][1]>>
           mode == ClientOpens(c)[k][2]
<1>0. TInv /\ UNCHANGED cpc
  BY DEF EndsInv, OpenNext, clientVars
<1>1. /\ k \in 1 .. 3 /\ f \in Fifos /\ mode \in {"r", "w"}
      /\ \A i \in Descriptors :
            /\ Keeps(table[i], table'[i])
            /\ table'[i] = table[i] \/ Awoken(table[i], table'[i], f, mode)
      /\ \A d \in Clients :
            /\ DOMAIN ends'[d] = IF d = c THEN 1 .. k ELSE DOMAIN ends[d]
            /\ DOMAIN ends[d] \subseteq DOMAIN ends'[d]
            /\ \A i \in DOMAIN ends[d] : Keeps(ends[d][i], ends'[d][i])
      /\ DOMAIN ends[c] = 1 .. k - 1 /\ ends'[c][k] = NewEnd(f, mode)
  BY <1>0, OpenNextKeeps
<1>2. f[1] = c
  OBVIOUS
<1> HIDE DEF k, f, mode
<1>3. NewEnd(f, mode).fifo = f /\ NewEnd(f, mode).mode = mode
  BY <1>1, NewEndType
<1>4. ClientEndInv'
  <2> SUFFICES ASSUME NEW d \in Clients, NEW i \in DOMAIN ends'[d]
               PROVE  ends'[d][i].fifo[1] = d
    BY DEF ClientEndInv
  <2>1. CASE i \in DOMAIN ends[d]
    BY <1>0, <1>1, <2>1, ClientEndType DEF EndsInv, ClientEndInv, Keeps
  <2>2. CASE i \notin DOMAIN ends[d]
    <3>1. d = c /\ i = k
      BY <1>1, <2>2
    <3> QED
      BY <1>1, <1>2, <1>3, <3>1
  <2> QED
    BY <2>1, <2>2
<1>5. HasEnd(ends', f, mode)
  BY <1>1, <1>2, <1>3 DEF HasEnd
<1>6. ASSUME NEW i \in Descriptors, table'[i] # Closed, table'[i].state # "waits"
      PROVE  \/ cpc'[table'[i].fifo[1]] = "gone"
             \/ HasEnd(ends', table'[i].fifo, Other(table'[i].mode))
  <2>1. /\ table[i] # Closed
        /\ table'[i].fifo = table[i].fifo /\ table'[i].mode = table[i].mode
    BY <1>1, <1>6 DEF Keeps
  <2>2. /\ table[i].fifo \in Fifos /\ table[i].fifo[1] \in Clients
        /\ table[i].mode \in {"r", "w"}
    BY <1>0, <2>1, TableFifo
  <2>3. CASE Awoken(table[i], table'[i], f, mode)
    BY <1>1, <1>5, <2>1, <2>2, <2>3 DEF Awoken, Other
  <2>4. CASE table'[i] = table[i]
    <3>1. \/ cpc[table[i].fifo[1]] = "gone"
          \/ HasEnd(ends, table[i].fifo, Other(table[i].mode))
      BY <1>6, <2>4 DEF EndsInv, OtherEndInv
    <3>2. HasEnd(ends, table[i].fifo, Other(table[i].mode)) =>
             HasEnd(ends', table[i].fifo, Other(table[i].mode))
      BY <1>0, <1>1, <2>2, HasEndKept
    <3> QED
      BY <1>0, <2>1, <3>1, <3>2
  <2> QED
    BY <1>1, <2>3, <2>4
<1>7. OtherEndInv'
  BY <1>6 DEF OtherEndInv
<1> QED
  BY <1>0, <1>4, <1>7, OpenNextTInv DEF EndsInv

LEMMA ExitEnds ==
    ASSUME EndsInv, NEW c \in Clients, Exit(c)
    PROVE  EndsInv'
<1>1. /\ cpc' = [cpc EXCEPT ![c] = "gone"] /\ ends' = [ends EXCEPT ![c] = <<>>]
      /\ UNCHANGED table
  BY DEF Exit, ClientGoto
<1>2. TInv /\ TInv'
  BY ClientTInv DEF EndsInv
<1>3. /\ \A d \in Clients : d # c => ends'[d] = ends[d] /\ cpc'[d] = cpc[d]
      /\ cpc'[c] = "gone" /\ ends'[c] = <<>>
  BY <1>1, <1>2 DEF TInv, TypeOK
<1>4. ClientEndInv'
  BY <1>3 DEF EndsInv, ClientEndInv
<1>5. ASSUME NEW n \in Descriptors, table[n] # Closed, table[n].state # "waits"
      PROVE  \/ cpc'[table[n].fifo[1]] = "gone"
             \/ HasEnd(ends', table[n].fifo, Other(table[n].mode))
  <2>1. table[n].fifo[1] \in Clients
    BY <1>2, <1>5, TableFifo
  <2> QED
    BY <1>3, <1>5, <2>1 DEF EndsInv, OtherEndInv, HasEnd
<1>6. OtherEndInv'
  BY <1>1, <1>5 DEF OtherEndInv
<1> QED
  BY <1>2, <1>4, <1>6 DEF EndsInv

LEMMA NextEnds == EndsInv /\ [Next]_vars => EndsInv'
<1> SUFFICES ASSUME EndsInv, [Next]_vars PROVE EndsInv'
  OBVIOUS
<1>0. /\ TInv /\ TInv'
      /\ cpc \in [Clients -> {"start", "open", "connected", "gone"}]
  BY NextTInv DEF EndsInv, TInv, TypeOK
<1>1. CASE UNCHANGED <<ends, table>> /\ \A c \in Clients : cpc[c] = "gone" => cpc'[c] = "gone"
  BY <1>0, <1>1, EndsRest
<1>2. CASE Host
  BY <1>0, <1>1, <1>2 DEF Host, HostRead, HostEof, fifoVars, clientVars
<1>3. ASSUME NEW m \in Managers, Manager(m) PROVE EndsInv'
  <2>1. CASE Take(m) \/ Command(m)
    BY <1>1, <2>1 DEF Take, Command, Read, Ignore, Subscribe, SubscribeAgain,
                      Unsubscribe, Disconnect, Handles, fifoVars, clientVars
  <2>2. CASE Open(m)
    BY <2>2, OpenEnds
  <2>3. CASE OpenFails(m) \/ Welcome(m)
    <3>1. /\ mpc[m] = "open" /\ Returned(m) /\ table' = Installed(m)
          /\ UNCHANGED <<ends, cpc>>
      BY <2>3 DEF OpenFails, Welcome, clientVars
    <3>2. \A n \in Descriptors :
             \/ table'[n] = Closed \/ table'[n] = table[n]
             \/ /\ table[n] # Closed /\ table[n].state # "waits"
                /\ table'[n].fifo = table[n].fifo /\ table'[n].mode = table[n].mode
      BY <1>0, <3>1, InstalledKeeps DEF Keeps, Finished
    <3> QED
      BY <1>0, <3>1, <3>2, EndsRest
  <2>4. CASE Close(m)
    <3>1. UNCHANGED <<ends, cpc>>
      BY <2>4 DEF Close, clientVars
    <3> QED
      BY <1>0, <2>4, <3>1, CloseKeeps, EndsRest
  <2> QED
    BY <1>3, <2>1, <2>2, <2>3, <2>4 DEF Manager, Command
<1>4. ASSUME NEW c \in Clients,
             Client(c) \/ Exit(c) \/ \E r \in Requests : Ask(c, r)
      PROVE  EndsInv'
  <2>1. CASE Receive(c)
    BY <1>0, <1>1, <2>1 DEF Receive
  <2>2. CASE \E r \in Requests : Ask(c, r)
    BY <1>1, <2>2 DEF Ask
  <2> QED
    BY <1>4, <2>1, <2>2, OpenNextEnds, ExitEnds DEF Client
<1>5. CASE UNCHANGED vars
  BY <1>1, <1>5 DEF vars, clientVars, fifoVars
<1> QED
  BY <1>2, <1>3, <1>4, <1>5 DEF Next

LEMMA EndsInvHolds == Spec => []EndsInv
<1>1. Init => EndsInv
  <2> SUFFICES ASSUME Init PROVE EndsInv
    OBVIOUS
  <2>1. TInv
    BY InitTInv
  <2>2. ClientEndInv /\ OtherEndInv
    BY DEF Init, ClientEndInv, OtherEndInv
  <2> QED
    BY <2>1, <2>2 DEF EndsInv
<1> QED
  BY <1>1, NextEnds, PTL DEF Spec

\* A write that kills the server is to a client that has gone.
LEMMA DeadlyWrite ==
    ASSUME EndsInv, NEW n \in Descriptors \cup {Failed}, NEW a, Write(n, a),
           crashed = Alive, crashed' # Alive
    PROVE  crashed' = SIGPIPE /\ \E c \in Clients : cpc[c] = "gone"
<1> DEFINE f == table[n].fifo
<1>1. /\ Denotes(n, "w") /\ ~Present(f, "r", table, ends)
      /\ crashed' = SIGPIPE
  BY DEF Write, WriteTo
<1>2. /\ n \in Descriptors /\ table[n] # Closed
      /\ table[n].state = "open" /\ table[n].mode = "w"
  BY <1>1 DEF Denotes
<1>3. f[1] \in Clients
  BY <1>2, TableFifo DEF EndsInv
<1>4. cpc[f[1]] = "gone" \/ HasEnd(ends, f, "r")
  BY <1>2 DEF EndsInv, OtherEndInv, Other
<1> QED
  BY <1>1, <1>3, <1>4 DEF HasEnd, Present

\* A pointer that nobody has set is followed for the request in the buffer.
LEMMA CrashStrays ==
    ASSUME NEW m \in Managers, Crash, UNCHANGED read_buffer, Strays(m)
    PROVE  DeathHasCause'
<1>1. crashed' = SIGSEGV /\ SIGSEGV # SIGPIPE
  BY DEF Crash, SIGSEGV, SIGPIPE
<1>2. Strays(m)'
  BY DEF Crash, Strays, opcode
<1> QED
  BY <1>1, <1>2 DEF DeathHasCause

LEMMA NextDeath == EndsInv /\ DeathHasCause /\ [Next]_vars => DeathHasCause'
<1> SUFFICES ASSUME EndsInv, DeathHasCause, [Next]_vars PROVE DeathHasCause'
  OBVIOUS
<1>0. TInv
  BY DEF EndsInv
<1>1. CASE UNCHANGED vars
  BY <1>1 DEF DeathHasCause, Strays, opcode, vars, managerVars, clientVars
<1>2. CASE Next
  <2>1. crashed = Alive
    BY <1>2 DEF Next, Host, Manager, Client, Exit, Ask
  <2>2. CASE crashed' = Alive
    BY <2>2 DEF DeathHasCause, Alive, SIGPIPE, SIGSEGV
  <2>3. CASE crashed' # Alive
    <3>1. PICK m \in Managers :
             \/ Welcome(m) \/ Subscribe(m) \/ SubscribeAgain(m)
             \/ Unsubscribe(m) \/ Disconnect(m)
      BY <1>2, <2>1, <2>3
         DEF Next, Host, HostRead, HostEof, Manager, Take, Open, OpenFails,
             Read, Ignore, Close, Client, OpenNext, Receive, Exit, Ask, fifoVars
    <3>2. UNCHANGED cpc
      BY <3>1 DEF Welcome, Subscribe, SubscribeAgain, Unsubscribe, Disconnect,
                  Handles, clientVars
    <3>3. ASSUME NEW a, Write(fd_response(m), a), Len(fd[m]) = 3
          PROVE  DeathHasCause'
      <4>1. fd_response(m) \in Descriptors \cup {Failed}
        BY <1>0, <3>3, LastType DEF fd_response
      <4>2. crashed' = SIGPIPE /\ \E c \in Clients : cpc[c] = "gone"
        BY <2>1, <2>3, <3>3, <4>1, DeadlyWrite
      <4>3. SIGPIPE # SIGSEGV
        BY DEF SIGPIPE, SIGSEGV
      <4> QED
        BY <3>2, <4>2, <4>3 DEF DeathHasCause
    <3>4. mpc[m] \in {"handle", "again"} => Len(fd[m]) = 3
      BY <1>0 DEF TInv, TypeOK
    <3>5. CASE Welcome(m)
      BY <3>3, <3>5 DEF Welcome
    <3>6. ASSUME NEW op, Reply(m, op), mpc[m] \in {"handle", "again"}
          PROVE  DeathHasCause'
      BY <3>3, <3>4, <3>6 DEF Reply
    <3>7. CASE Subscribe(m)
      <4>1. /\ mpc[m] = "handle" /\ opcode(m) = "subscribe" /\ UNCHANGED read_buffer
            /\ Crash \/ \E op : Reply(m, op)
        BY <3>7 DEF Subscribe, Handles, Goto
      <4>2. Strays(m)
        BY <4>1 DEF Strays
      <4> QED
        BY <3>6, <4>1, <4>2, CrashStrays
    <3>8. CASE SubscribeAgain(m)
      BY <3>6, <3>8 DEF SubscribeAgain, Goto
    <3>9. CASE Unsubscribe(m)
      <4>1. /\ mpc[m] = "handle" /\ opcode(m) = "unsubscribe" /\ UNCHANGED read_buffer
            /\ \/ /\ key_list[m] = "unset" \/ read_buffer[m].key \in Wild \cup NoBucket
                  /\ Crash
               \/ \E op : Reply(m, op)
        BY <3>9 DEF Unsubscribe, Handles, Goto
      <4>2. (key_list[m] = "unset" \/ read_buffer[m].key \in Wild \cup NoBucket)
               => Strays(m)
        BY <4>1 DEF Strays
      <4> QED
        BY <3>6, <4>1, <4>2, CrashStrays
    <3>10. CASE Disconnect(m)
      <4>1. /\ mpc[m] = "handle" /\ opcode(m) = "disconnect" /\ UNCHANGED read_buffer
            /\ (key_list[m] = "unset" /\ Crash) \/ Reply(m, "20")
        BY <3>10 DEF Disconnect, Handles, Goto
      <4>2. key_list[m] = "unset" => Strays(m)
        BY <4>1 DEF Strays
      <4> QED
        BY <3>6, <4>1, <4>2, CrashStrays
    <3> QED
      BY <3>1, <3>5, <3>7, <3>8, <3>9, <3>10
  <2> QED
    BY <2>2, <2>3
<1> QED
  BY <1>1, <1>2

\* A write of a manager finds its reader unless a client has gone, whatever
\* DISCONNECT has left of the descriptors; and what else kills the server is a
\* request for which a pointer is followed that nobody has set: SUBSCRIBE,
\* UNSUBSCRIBE or DISCONNECT before key_list is, UNSUBSCRIBE of a key whose list
\* is wild or whose bucket is -1 (main.c:359, 452-510; kvs.c:89-113).
THEOREM DeathIsCaused == Spec => []DeathHasCause
<1>1. Init => DeathHasCause
  BY DEF Init, DeathHasCause, Alive, SIGPIPE, SIGSEGV
<1> QED
  BY <1>1, EndsInvHolds, NextDeath, PTL DEF Spec


-----------------------------------------------------------------------------
(* Before the first DISCONNECT: descriptors denote what they denoted. *)

\* An open that has returned is open from the next step of its manager on.
LEMMA InstalledOpens ==
    ASSUME TInv, NEW m \in Managers, mpc[m] = "open", Opening(m)
    PROVE  Installed(m)[Last(fd[m])].state = "open"
<1>1. Last(fd[m]) \in Descriptors /\ table[Last(fd[m])] \in End
  BY LastType DEF TInv, PendingInv, Pending
<1>2. table \in [Descriptors -> End \cup {Closed}]
  BY DEF TInv, TypeOK
<1> DEFINE e == [table[Last(fd[m])] EXCEPT !.state = "open"]
<1>3. e.state = "open"
  BY <1>1 DEF End
<1>4. Installed(m) = [table EXCEPT ![Last(fd[m])] = e]
  BY <1>1, <1>2 DEF Installed
<1> QED
  BY <1>1, <1>2, <1>3, <1>4

\* m's descriptors, where m and the ends it has may change only for the better.
LEMMA OwnsKept ==
    ASSUME TInv, NEW m \in Managers, NEW k \in DOMAIN fd[m], Owns(m, k),
           fd'[m][k] = fd[m][k], peer'[m] = peer[m],
           Keeps(table[fd[m][k]], table'[fd[m][k]]),
           table[fd[m][k]].state = "open" => table'[fd[m][k]].state = "open",
           Pending(m) /\ k = Len(fd[m]) =>
              \/ table'[fd[m][k]].state = "open"
              \/ Pending(m)' /\ k = Len(fd'[m])
    PROVE  Owns(m, k)'
  BY SessionsAssumption DEF Owns, Keeps

LEMMA TakeOwn ==
    ASSUME TInv, OwnInv, NEW m \in Managers, Take(m)
    PROVE  OwnInv'
<1>1. /\ mpc[m] = "take" /\ mpc' = [mpc EXCEPT ![m] = "open"]
      /\ peer' = [peer EXCEPT ![m] = Head(queue)] /\ UNCHANGED <<fd, table>>
  BY DEF Take, Goto, Queue!Take, fifoVars
<1>2. /\ mpc \in [Managers -> {"take", "open", "read", "handle", "again", "close"}]
      /\ peer \in [Managers -> Clients \cup {NoClient}] /\ fd[m] = <<>>
  BY <1>1 DEF TInv, TypeOK, PeerInv
<1>3. \A j \in Managers : j # m =>
         mpc'[j] = mpc[j] /\ peer'[j] = peer[j] /\ (Pending(j)' <=> Pending(j))
  BY <1>1, <1>2 DEF Pending, Opening
<1>4. mpc'[m] = "open" /\ DOMAIN fd'[m] = {}
  BY <1>1, <1>2
<1> QED
  BY <1>1, <1>3, <1>4 DEF OwnInv, Owns

LEMMA OpenOwn ==
    ASSUME TInv, OwnInv, NEW m \in Managers, Open(m)
    PROVE  OwnInv'
<1> DEFINE n == Min(Free)
           k == Len(fd[m]) + 1
           f == <<peer[m], ManagerOpens[k][1]>>
           mode == ManagerOpens[k][2]
<1>1. mpc[m] = "open" /\ Returned(m) /\ UNCHANGED <<mpc, peer>>
  BY DEF Open, queueVars
<1>2. /\ k \in 1 .. 3 /\ f \in Fifos /\ mode \in {"r", "w"}
      /\ n \in Descriptors /\ table[n] = Closed
      /\ table'[n] = NewEnd(f, mode)
      /\ \A i \in Descriptors : i # n =>
            /\ Keeps(table[i], table'[i])
            /\ \/ table'[i] = table[i]
               \/ Awoken(table[i], table'[i], f, mode)
               \/ Finished(m, i, table[i], table'[i])
      /\ fd' = [fd EXCEPT ![m] = Append(fd[m], n)]
  BY OpenKeeps
<1>3. Opening(m) => table'[Last(fd[m])].state = "open"
  <2> SUFFICES ASSUME Opening(m) PROVE table'[Last(fd[m])].state = "open"
    OBVIOUS
  <2> DEFINE l == Last(fd[m])
  <2>0. l \in Descriptors /\ table[l] \in End
    BY <1>1, LastType DEF TInv, PendingInv, Pending
  <2>1. l # n /\ Installed(m)[l].state = "open" /\ Installed(m)[l] # Closed
    <3>1. table[l] # Closed
      BY <2>0, SessionsAssumption
    <3>2. Installed(m)[l].state = "open"
      BY <1>1, InstalledOpens
    <3>3. Keeps(table[l], Installed(m)[l])
      BY <1>1, <2>0, InstalledKeeps
    <3> QED
      BY <1>2, <3>1, <3>2, <3>3 DEF Keeps
  <2>2. table' = [[i \in Descriptors |-> Awake(Installed(m)[i], f, mode)]
                     EXCEPT ![n] = NewEnd(f, mode)]
    BY DEF Open, ServerOpen
  <2> HIDE DEF l, n, f, mode
  <2>3. table'[l] = Awake(Installed(m)[l], f, mode)
    BY <2>0, <2>1, <2>2
  <2> QED
    BY <2>1, <2>3 DEF Awake, l
<1>4. /\ NewEnd(f, mode) \in End
      /\ NewEnd(f, mode).fifo = f /\ NewEnd(f, mode).mode = mode
  BY <1>2, NewEndType
<1> HIDE DEF n, f, mode
<1>5. fd \in [Managers -> Seq(Descriptors \cup {Failed})]
  BY DEF TInv, TypeOK
<1>6. /\ \A j \in Managers : j # m => fd'[j] = fd[j] /\ (Pending(j)' <=> Pending(j))
      /\ fd'[m] = Append(fd[m], n)
  BY <1>1, <1>2, <1>5 DEF Pending, Opening
<1>7. /\ Len(fd'[m]) = k /\ DOMAIN fd'[m] = 1 .. k /\ fd'[m][k] = n
      /\ DOMAIN fd[m] = 1 .. k - 1
      /\ \A i \in 1 .. k - 1 : fd'[m][i] = fd[m][i]
  <2>1. fd[m] \in Seq(Descriptors \cup {Failed}) /\ n \in Descriptors \cup {Failed}
    BY <1>2, <1>5
  <2>2. /\ Len(Append(fd[m], n)) = k /\ Append(fd[m], n)[k] = n
        /\ Append(fd[m], n) \in Seq(Descriptors \cup {Failed})
        /\ \A i \in 1 .. Len(fd[m]) : Append(fd[m], n)[i] = fd[m][i]
    BY <2>1, AppendProperties DEF k
  <2>3. DOMAIN Append(fd[m], n) = 1 .. k /\ DOMAIN fd[m] = 1 .. k - 1 /\ Len(fd[m]) = k - 1
    BY <2>1, <2>2, LenProperties DEF k
  <2> QED
    BY <1>6, <2>2, <2>3
<1>8. PICK new \in 1 .. 3 : new = k
  BY <1>2
\* The open of the next fifo, under way.
<1>9. Owns(m, new)'
  <2>1. Pending(m)'
    BY <1>1, <1>2, <1>6, <1>7, SessionsAssumption DEF Pending, Opening, Last
  <2> QED
    BY <1>1, <1>2, <1>4, <1>7, <1>8, <2>1 DEF Owns, f, mode
<1>10. ASSUME NEW j \in Managers, NEW i \in DOMAIN fd[j], Owns(j, i)
      PROVE  Owns(j, i)'
  <2> DEFINE d == fd[j][i]
  <2>1. /\ d \in Descriptors /\ d # n /\ table[d] # Closed
    BY <1>2, <1>10, SessionsAssumption DEF Owns
  <2>2. /\ Keeps(table[d], table'[d])
        /\ table[d].state = "open" => table'[d].state = "open"
    BY <1>2, <2>1 DEF Awoken, Finished
  <2>3. fd'[j][i] = fd[j][i]
    BY <1>6, <1>7
  <2>4. Pending(j) /\ i = Len(fd[j]) =>
           table'[d].state = "open" \/ (Pending(j)' /\ i = Len(fd'[j]))
    BY <1>3, <1>6 DEF Pending, Last
  <2> QED
    BY <1>1, <1>10, <2>1, <2>2, <2>3, <2>4, OwnsKept
<1>11. ASSUME NEW j \in Managers, NEW i \in DOMAIN fd'[j]
       PROVE  Owns(j, i)' \/ (i = 2 /\ fd'[j][i] = Failed)
  <2>1. CASE j = m /\ i = new
    BY <1>9, <2>1
  <2>2. CASE ~(j = m /\ i = new)
    <3>1. i \in DOMAIN fd[j] /\ fd'[j][i] = fd[j][i]
      BY <1>2, <1>6, <1>7, <1>8, <2>2
    <3> QED
      BY <1>10, <3>1 DEF OwnInv
  <2> QED
    BY <2>1, <2>2
<1>12. ASSUME NEW j \in Managers, mpc'[j] \in {"read", "handle", "again"}
       PROVE  fd'[j][2] # Failed
  BY <1>1, <1>6, <1>12 DEF OwnInv
<1> QED
  BY <1>11, <1>12 DEF OwnInv


\* A manager whose open has returned, and the others.
LEMMA ReturnedOwn ==
    ASSUME TInv, OwnInv, NEW m \in Managers, mpc[m] = "open", Returned(m),
           table' = Installed(m), ~Pending(m)',
           \A j \in Managers : j # m =>
              mpc'[j] = mpc[j] /\ fd'[j] = fd[j] /\ peer'[j] = peer[j]
    PROVE  /\ \A j \in Managers : j # m =>
                 /\ \A k \in DOMAIN fd'[j] : Owns(j, k)' \/ (k = 2 /\ fd'[j][k] = Failed)
                 /\ mpc'[j] \in {"read", "handle", "again"} => fd'[j][2] # Failed
           /\ \A k \in DOMAIN fd[m] : Owns(m, k) /\ peer'[m] = peer[m]
                                      /\ fd'[m][k] = fd[m][k] => Owns(m, k)'
<1>1. ASSUME NEW j \in Managers, NEW k \in DOMAIN fd[j], Owns(j, k)
      PROVE  /\ Keeps(table[fd[j][k]], table'[fd[j][k]])
             /\ table[fd[j][k]].state = "open" => table'[fd[j][k]].state = "open"
  <2>1. fd[j][k] \in Descriptors
    BY <1>1 DEF Owns
  <2> QED
    BY <2>1, InstalledKeeps DEF Finished
<1>2. ASSUME NEW j \in Managers, j # m, NEW k \in DOMAIN fd[j], Owns(j, k)
      PROVE  Owns(j, k)'
  <2>1. Pending(j) => Pending(j)'
    BY <1>2 DEF Pending, Opening
  <2> QED
    BY <1>1, <1>2, <2>1, OwnsKept
<1>3. ASSUME NEW k \in DOMAIN fd[m], Owns(m, k), peer'[m] = peer[m],
             fd'[m][k] = fd[m][k]
      PROVE  Owns(m, k)'
  <2>1. Pending(m) /\ k = Len(fd[m]) => table'[fd[m][k]].state = "open"
    BY InstalledOpens DEF Pending, Last
  <2> QED
    BY <1>1, <1>3, <2>1, OwnsKept
<1> QED
  BY <1>2, <1>3 DEF OwnInv

LEMMA OpenFailsOwn ==
    ASSUME TInv, OwnInv, NEW m \in Managers, OpenFails(m)
    PROVE  OwnInv'
<1>1. mpc[m] = "open" /\ Returned(m) /\ table' = Installed(m)
  BY DEF OpenFails
<1>2. /\ fd \in [Managers -> Seq(Descriptors \cup {Failed})]
      /\ mpc \in [Managers -> {"take", "open", "read", "handle", "again", "close"}]
      /\ peer \in [Managers -> Clients \cup {NoClient}]
  BY DEF TInv, TypeOK
<1>3. \/ /\ Len(fd[m]) = 1 /\ fd' = [fd EXCEPT ![m] = Append(fd[m], Failed)]
         /\ UNCHANGED <<mpc, peer>>
      \/ /\ mpc' = [mpc EXCEPT ![m] = "take"]
         /\ peer' = [peer EXCEPT ![m] = NoClient]
         /\ fd' = [fd EXCEPT ![m] = <<>>]
  BY DEF OpenFails, Leave, Goto
<1>4. \A j \in Managers : j # m =>
         mpc'[j] = mpc[j] /\ fd'[j] = fd[j] /\ peer'[j] = peer[j]
  BY <1>2, <1>3
<1>5. CASE /\ mpc' = [mpc EXCEPT ![m] = "take"]
           /\ fd' = [fd EXCEPT ![m] = <<>>]
  <2>1. mpc'[m] = "take" /\ DOMAIN fd'[m] = {} /\ ~Pending(m)'
    BY <1>2, <1>5 DEF Pending
  <2> QED
    BY <1>1, <1>4, <2>1, ReturnedOwn DEF OwnInv
<1>6. CASE /\ Len(fd[m]) = 1 /\ fd' = [fd EXCEPT ![m] = Append(fd[m], Failed)]
           /\ UNCHANGED <<mpc, peer>>
  <2>1. fd[m] \in Seq(Descriptors \cup {Failed}) /\ fd'[m] = Append(fd[m], Failed)
    BY <1>2, <1>6
  <2>2. /\ fd'[m] \in Seq(Descriptors \cup {Failed}) /\ Len(fd'[m]) = 2
        /\ fd'[m][1] = fd[m][1] /\ fd'[m][2] = Failed
    BY <1>6, <2>1, AppendProperties
  <2>3. DOMAIN fd[m] = {1} /\ DOMAIN fd'[m] = {1, 2}
    BY <1>6, <2>1, <2>2, LenProperties
  <2>4. ~Pending(m)'
    BY <2>2 DEF Pending, Opening, Last
  <2>5. Owns(m, 1)
    BY <2>3 DEF OwnInv
  <2>6. Owns(m, 1)'
    BY <1>1, <1>4, <1>6, <2>2, <2>3, <2>4, <2>5, ReturnedOwn
  <2> QED
    BY <1>1, <1>4, <1>6, <2>2, <2>3, <2>4, <2>6, ReturnedOwn DEF OwnInv
<1> QED
  BY <1>3, <1>5, <1>6

LEMMA WelcomeOwn ==
    ASSUME TInv, OwnInv, NEW m \in Managers, Welcome(m)
    PROVE  OwnInv'
<1>1. /\ mpc[m] = "open" /\ Len(fd[m]) = 3 /\ Returned(m)
      /\ table' = Installed(m)
  BY DEF Welcome
<1>2. /\ fd \in [Managers -> Seq(Descriptors \cup {Failed})]
      /\ mpc \in [Managers -> {"take", "open", "read", "handle", "again", "close"}]
      /\ peer \in [Managers -> Clients \cup {NoClient}]
  BY DEF TInv, TypeOK
<1>3. \/ /\ mpc' = [mpc EXCEPT ![m] = "read"] /\ UNCHANGED <<peer, fd>>
         /\ fd[m][2] # Failed
      \/ /\ mpc' = [mpc EXCEPT ![m] = "take"]
         /\ peer' = [peer EXCEPT ![m] = NoClient]
         /\ fd' = [fd EXCEPT ![m] = <<>>]
  BY DEF Welcome, Leave, Goto, Denotes, fd_response
<1>4. \A j \in Managers : j # m =>
         mpc'[j] = mpc[j] /\ fd'[j] = fd[j] /\ peer'[j] = peer[j]
  BY <1>2, <1>3
<1>5. ~Pending(m)'
  BY <1>2, <1>3 DEF Pending
<1>6. CASE fd' = [fd EXCEPT ![m] = <<>>] /\ mpc'[m] = "take"
  <2>1. DOMAIN fd'[m] = {}
    BY <1>2, <1>6
  <2> QED
    BY <1>1, <1>4, <1>5, <1>6, <2>1, ReturnedOwn DEF OwnInv
<1>7. CASE fd[m][2] # Failed /\ UNCHANGED <<peer, fd>>
  <2>1. ASSUME NEW k \in DOMAIN fd'[m] PROVE Owns(m, k)'
    <3>1. Owns(m, k)
      BY <1>7, <2>1 DEF OwnInv
    <3> QED
      BY <1>1, <1>4, <1>5, <1>7, <2>1, <3>1, ReturnedOwn
  <2> QED
    BY <1>1, <1>4, <1>5, <1>7, <2>1, ReturnedOwn DEF OwnInv
<1> QED
  BY <1>2, <1>3, <1>6, <1>7

\* In the command loop nothing is pending, and a client's open disturbs nobody.
LEMMA LoopOwn ==
    ASSUME TInv, OwnInv, NEW m \in Managers,
           mpc[m] \in {"read", "handle", "again"},
           mpc' \in {[mpc EXCEPT ![m] = "read"], [mpc EXCEPT ![m] = "handle"],
                    [mpc EXCEPT ![m] = "again"]},
           UNCHANGED <<peer, fd, table>>
    PROVE  OwnInv'
<1>1. mpc \in [Managers -> {"take", "open", "read", "handle", "again", "close"}]
  BY DEF TInv, TypeOK
<1>2. \A j \in Managers : Pending(j)' <=> Pending(j)
  BY <1>1 DEF Pending, Opening
<1>3. \A j \in Managers : mpc'[j] \in {"read", "handle", "again"} => mpc[j] \in {"read", "handle", "again"}
  BY <1>1
<1> QED
  BY <1>2, <1>3 DEF OwnInv, Owns

LEMMA OpenNextOwn ==
    ASSUME TInv, OwnInv, NEW c \in Clients, OpenNext(c)
    PROVE  OwnInv'
<1>1. UNCHANGED <<peer, mpc, fd>>
  BY DEF OpenNext, queueVars, managerVars
<1>2. \A n \in Descriptors :
         /\ Keeps(table[n], table'[n])
         /\ table[n].state = "open" => table'[n].state = "open"
  BY OpenNextKeeps DEF Awoken
<1>3. \A j \in Managers : Pending(j)' <=> Pending(j)
  BY <1>1 DEF Pending, Opening
<1>4. ASSUME NEW j \in Managers, NEW k \in DOMAIN fd[j], Owns(j, k)
      PROVE  Owns(j, k)'
  <2>1. fd[j][k] \in Descriptors
    BY <1>4 DEF Owns
  <2> QED
    BY <1>1, <1>2, <1>3, <1>4, <2>1, OwnsKept
<1> QED
  BY <1>1, <1>4 DEF OwnInv

LEMMA RestOwn ==
    ASSUME TInv, OwnInv, ManagersRest
    PROVE  OwnInv'
<1>1. \A j \in Managers : Pending(j)' <=> Pending(j)
  BY DEF Pending, Opening, ManagersRest
<1> QED
  BY <1>1 DEF OwnInv, Owns, ManagersRest


-----------------------------------------------------------------------------
(* Before the first DISCONNECT: a request is in one place. *)

LEMMA FifoTypes ==
    ASSUME TInv, NEW c \in Clients
    PROVE  /\ <<c, "request">> \in Fifos /\ <<c, "response">> \in Fifos
           /\ Asking(c) \in Seq(Requests) /\ Answers(c) \in Seq(Message)
           /\ Len(Answers(c)) \in Nat /\ DOMAIN Answers(c) = 1 .. Len(Answers(c))
           /\ \A i \in DOMAIN Answers(c) :
                 Answers(c)[i] \in Message /\ Answers(c)[i].from \in Managers
<1>1. <<c, "request">> \in Fifos /\ <<c, "response">> \in Fifos
  BY DEF Fifos
<1>2. Asking(c) \in Seq(Requests) /\ Answers(c) \in Seq(Message)
  BY <1>1 DEF TInv, TypeOK, Asking, Answers
<1>3. Len(Answers(c)) \in Nat /\ DOMAIN Answers(c) = 1 .. Len(Answers(c))
  BY <1>2, LenProperties
<1>4. \A i \in DOMAIN Answers(c) : Answers(c)[i] \in Message
  BY <1>2, <1>3, ElementOfSeq
<1> QED
  BY <1>1, <1>2, <1>3, <1>4 DEF Answer, Message

\* A manager in its loop has the two fifos of its client that it uses.
LEMMA LoopDenotes ==
    ASSUME TInv, OwnInv, NEW m \in Managers, mpc[m] \in {"read", "handle", "again"}
    PROVE  /\ peer[m] \in Clients
           /\ Denotes(fd_request(m), "r")
           /\ fd_request(m) \in Descriptors
           /\ table[fd_request(m)].fifo = <<peer[m], "request">>
           /\ Denotes(fd_response(m), "w")
           /\ table[fd_response(m)].fifo = <<peer[m], "response">>
<1>1. peer[m] \in Clients /\ DOMAIN fd[m] = 1 .. 3 /\ ~Pending(m)
  BY LastType DEF TInv, PeerInv, TypeOK, Pending
<1>2. Owns(m, 1) /\ Owns(m, 2)
  BY <1>1 DEF OwnInv
<1>3. /\ fd[m][1] \in Descriptors /\ fd[m][2] \in Descriptors
      /\ table[fd[m][1]] \in End /\ table[fd[m][2]] \in End
      /\ table[fd[m][1]].fifo = <<peer[m], "request">>
      /\ table[fd[m][2]].fifo = <<peer[m], "response">>
      /\ table[fd[m][1]].mode = "r" /\ table[fd[m][2]].mode = "w"
      /\ table[fd[m][1]].state = "open" /\ table[fd[m][2]].state = "open"
  BY <1>1, <1>2 DEF Owns, ManagerOpens
<1>4. fd[m][1] # Failed /\ fd[m][2] # Failed
  BY <1>3, SessionsAssumption
<1> QED
  BY <1>1, <1>3, <1>4, SessionsAssumption DEF Denotes, fd_request, fd_response

\* The answer a is added to those of c.
Adds(c, a) ==
    /\ \A d \in Clients : /\ Asking(d)' = Asking(d)
                          /\ d # c => Answers(d)' = Answers(d)
    /\ \E k \in Nat :
          /\ k \notin DOMAIN Answers(c)
          /\ DOMAIN Answers(c)' = DOMAIN Answers(c) \cup {k}
          /\ Answers(c)'[k] = a
          /\ \A i \in DOMAIN Answers(c) : Answers(c)'[i] = Answers(c)[i]

\* It is lost with the server, or added.
LEMMA WriteAdds ==
    ASSUME TInv, NEW c \in Clients, NEW a \in Message, WriteTo(<<c, "response">>, a)
    PROVE  UNCHANGED pipe \/ Adds(c, a)
<1> DEFINE f == <<c, "response">>
           k == Len(Answers(c)) + 1
<1>1. CASE UNCHANGED pipe
  BY <1>1
<1>2. CASE pipe' = [pipe EXCEPT ![f] = Append(pipe[f], a)]
  <2>1. f \in Fifos /\ pipe[f] \in Seq(Message)
    BY FifoTypes DEF Answers
  <2>2. pipe \in [Fifos -> Seq(Requests) \cup Seq(Message)]
    BY DEF TInv, TypeOK
  <2>3. pipe'[f] = Append(pipe[f], a) /\ \A g \in Fifos : g # f => pipe'[g] = pipe[g]
    BY <1>2, <2>1, <2>2
  <2>4. /\ Append(pipe[f], a) \in Seq(Message)
        /\ Len(Append(pipe[f], a)) = k
        /\ Append(pipe[f], a)[k] = a
        /\ \A i \in 1 .. Len(pipe[f]) : Append(pipe[f], a)[i] = pipe[f][i]
    BY <2>1, AppendProperties DEF Answers
  <2>5. /\ DOMAIN Append(pipe[f], a) = 1 .. k
        /\ Len(pipe[f]) \in Nat /\ DOMAIN pipe[f] = 1 .. Len(pipe[f])
    BY <2>1, <2>4, LenProperties
  <2>6. /\ k \in Nat /\ k \notin DOMAIN pipe[f]
        /\ 1 .. k = DOMAIN pipe[f] \cup {k}
    BY <2>5 DEF Answers
  <2>7. ASSUME NEW d \in Clients
        PROVE  Asking(d)' = Asking(d) /\ (d # c => Answers(d)' = Answers(d))
    <3>1. <<d, "request">> \in Fifos /\ <<d, "response">> \in Fifos
      BY FifoTypes
    <3>2. <<d, "request">> # f /\ (d # c => <<d, "response">> # f)
      OBVIOUS
    <3> QED
      BY <2>3, <3>1, <3>2 DEF Asking, Answers
  <2>8. pipe[f] = Answers(c) /\ pipe'[f] = Answers(c)'
    BY DEF Answers
  <2> HIDE DEF f, k
  <2> QED
    BY <2>3, <2>4, <2>5, <2>6, <2>7, <2>8 DEF Adds
<1> QED
  BY <1>1, <1>2 DEF WriteTo

\* Who is in the loop stays there, with its client.
Loops(m) == mpc[m] \in {"read", "handle", "again"}

LEMMA AnswersRest ==
    ASSUME TInv, AnswerInv,
           \A m \in Managers : Loops(m) => Loops(m)' /\ peer'[m] = peer[m],
           \A c \in Clients : \A i \in DOMAIN Answers(c)' :
              \/ \E j \in DOMAIN Answers(c) : Answers(c)'[i] = Answers(c)[j]
              \/ \E m \in Managers :
                    Answers(c)'[i].from = m /\ Loops(m)' /\ peer'[m] = c
    PROVE  AnswerInv'
<1> SUFFICES ASSUME NEW c \in Clients, NEW i \in DOMAIN Answers(c)'
             PROVE  /\ mpc'[Answers(c)'[i].from] \in {"read", "handle", "again"}
                    /\ peer'[Answers(c)'[i].from] = c
  BY DEF AnswerInv
<1>1. CASE \E m \in Managers :
              Answers(c)'[i].from = m /\ Loops(m)' /\ peer'[m] = c
  BY <1>1 DEF Loops
<1>2. ASSUME NEW j \in DOMAIN Answers(c), Answers(c)'[i] = Answers(c)[j]
      PROVE  \E m \in Managers :
                Answers(c)'[i].from = m /\ Loops(m)' /\ peer'[m] = c
  <2>1. PICK k \in Managers : k = Answers(c)[j].from
    BY FifoTypes
  <2>2. Loops(k) /\ peer[k] = c
    BY <2>1 DEF AnswerInv, Loops
  <2> QED
    BY <1>2, <2>1, <2>2
<1> QED
  BY <1>1, <1>2

\* What of c's request there is was there before.
LEMMA TokenRest ==
    ASSUME NEW c \in Clients, Token(c), asked'[c] = asked[c],
           Asking(c)' \in {Asking(c), <<>>},
           \A i \in Replies(c)' : i \in Replies(c) /\ Answers(c)'[i] = Answers(c)[i],
           \A m \in Managers :
              Handling(m, c)' => Handling(m, c) /\ read_buffer'[m] = read_buffer[m]
    PROVE  Token(c)'
<1>1. \A i \in Replies(c)' : Fits(Answers(c)'[i], asked'[c])
  BY DEF Token
<1>2. Asking(c)' # <<>> => Asking(c)' = <<asked'[c]>>
  BY DEF Token
<1>3. \A m \in Managers : Handling(m, c)' => read_buffer'[m] = asked'[c]
  BY DEF Token
<1>4. \A i, j \in Replies(c)' : i = j
  BY DEF Token
<1>5. /\ \A m, k \in Managers : Handling(m, c)' /\ Handling(k, c)' => m = k
      /\ Asking(c)' # <<>> => \A m \in Managers : ~Handling(m, c)'
      /\ Asking(c)' # <<>> => Replies(c)' = {}
      /\ \A m \in Managers : Handling(m, c)' => Replies(c)' = {}
  BY DEF Token
<1>6. \A i \in Replies(c)' : Fits(Answers(c)[i], asked[c])'
  BY <1>1 DEF Fits
<1> QED
  BY <1>2, <1>3, <1>4, <1>5, <1>6 DEF Token


\* The steps that leave requests and answers where they are.
LEMMA RestTokens ==
    ASSUME TInv, AnswerInv, TokenInv, UNCHANGED <<pipe, asked, read_buffer>>,
           \A c \in Clients : cpc[c] = "gone" => cpc'[c] = "gone",
           twice \subseteq twice',
           \A m \in Managers : Loops(m) => Loops(m)' /\ peer'[m] = peer[m],
           \A m \in Managers : mpc'[m] = "handle" =>
              mpc[m] = "handle" /\ peer'[m] = peer[m]
    PROVE  AnswerInv' /\ TokenInv'
<1>1. AnswerInv'
  <2>1. \A c \in Clients : \A i \in DOMAIN Answers(c)' :
           \E j \in DOMAIN Answers(c) : Answers(c)'[i] = Answers(c)[j]
    BY DEF Answers
  <2> QED
    BY <2>1, AnswersRest
<1>2. ASSUME NEW c \in Clients, cpc'[c] # "gone", c \notin twice' PROVE Token(c)'
  <2>1. Token(c)
    BY <1>2 DEF TokenInv
  <2>2. \A m \in Managers : Handling(m, c)' => Handling(m, c)
    BY DEF Handling
  <2>3. Asking(c)' = Asking(c) /\ Replies(c)' = Replies(c) /\ Answers(c)' = Answers(c)
    BY DEF Asking, Replies, Answers
  <2> QED
    BY <2>1, <2>2, <2>3, TokenRest
<1> QED
  BY <1>1, <1>2 DEF TokenInv

LEMMA WelcomeTokens ==
    ASSUME TInv, OwnInv, AnswerInv, TokenInv, NEW m \in Managers, Welcome(m)
    PROVE  AnswerInv' /\ TokenInv'
<1> DEFINE a == Answer(m, "connect", Nothing)
<1>1. /\ mpc[m] = "open" /\ Len(fd[m]) = 3
      /\ UNCHANGED <<asked, read_buffer, cpc, twice>>
  BY DEF Welcome, clientVars, listVars
<1>2. /\ mpc \in [Managers -> {"take", "open", "read", "handle", "again", "close"}]
      /\ peer \in [Managers -> Clients \cup {NoClient}]
  BY DEF TInv, TypeOK
<1>3. CASE ~Denotes(fd_response(m), "w")
  <2>1. UNCHANGED pipe /\ mpc' = [mpc EXCEPT ![m] = "take"]
        /\ peer' = [peer EXCEPT ![m] = NoClient]
    BY <1>3 DEF Welcome, Write, Leave, Goto
  <2>2. /\ \A j \in Managers : Loops(j) => Loops(j)' /\ peer'[j] = peer[j]
        /\ \A j \in Managers : mpc'[j] = "handle" =>
              mpc[j] = "handle" /\ peer'[j] = peer[j]
    BY <1>1, <1>2, <2>1 DEF Loops
  <2> QED
    BY <1>1, <2>1, <2>2, RestTokens
<1>4. CASE Denotes(fd_response(m), "w")
  <2> DEFINE f == table[fd_response(m)].fifo
  <2>1. /\ WriteTo(f, a) /\ mpc' = [mpc EXCEPT ![m] = "read"] /\ UNCHANGED peer
    BY <1>4 DEF Welcome, Write, Goto
  <2>2. f = <<peer[m], "response">>
    <3>1. DOMAIN fd[m] = 1 .. 3 /\ fd[m][2] # Failed
      BY <1>1, <1>4, LastType DEF Denotes, fd_response
    <3>2. Owns(m, 2)
      BY <3>1 DEF OwnInv
    <3> QED
      BY <3>2 DEF Owns, fd_response, ManagerOpens
  <2>3. a \in Message /\ a.op = "connect" /\ a.from = m
    BY DEF Answer, Message
  <2>4. peer[m] \in Clients
    BY <1>1 DEF TInv, PeerInv
  <2>5. PICK c \in Clients : c = peer[m]
    BY <2>4
  <2> HIDE DEF a, f
  <2>6. WriteTo(<<c, "response">>, a)
    BY <2>1, <2>2, <2>5
  <2>7. UNCHANGED pipe \/ Adds(c, a)
    BY <2>3, <2>6, WriteAdds
  <2>8. /\ \A j \in Managers : Loops(j) => Loops(j)' /\ peer'[j] = peer[j]
        /\ \A j \in Managers : mpc'[j] = "handle" =>
              mpc[j] = "handle" /\ peer'[j] = peer[j]
        /\ Loops(m)'
    BY <1>1, <1>2, <2>1 DEF Loops
  <2>9. CASE UNCHANGED pipe
    BY <1>1, <2>8, <2>9, RestTokens
  <2>10. CASE Adds(c, a)
    <3>1. /\ \A d \in Clients : d # c => Answers(d)' = Answers(d)
          /\ \A d \in Clients : Asking(d)' = Asking(d)
      BY <2>10 DEF Adds
    <3>2. \A i \in DOMAIN Answers(c)' :
             \/ Answers(c)'[i] = a
             \/ i \in DOMAIN Answers(c) /\ Answers(c)'[i] = Answers(c)[i]
      BY <2>10 DEF Adds
    <3>3. peer'[m] = c
      BY <2>1, <2>5
    <3>4. AnswerInv'
      BY <2>3, <2>8, <3>1, <3>2, <3>3, AnswersRest
    <3>5. ASSUME NEW d \in Clients, cpc'[d] # "gone", d \notin twice'
          PROVE  Token(d)'
      <4>1. Token(d)
        BY <1>1, <3>5 DEF TokenInv
      <4>2. \A i \in Replies(d)' : i \in Replies(d) /\ Answers(d)'[i] = Answers(d)[i]
        BY <2>3, <3>1, <3>2 DEF Replies
      <4>3. \A j \in Managers : Handling(j, d)' => Handling(j, d)
        BY <1>1, <2>8 DEF Handling
      <4> QED
        BY <1>1, <3>1, <4>1, <4>2, <4>3, TokenRest
    <3> QED
      BY <3>4, <3>5 DEF TokenInv
  <2> QED
    BY <2>7, <2>9, <2>10
<1> QED
  BY <1>3, <1>4


\* A request goes from the fifo into the hands of one manager of its client,
\* and none is read twice: a read of nothing finds a writer, and waits.
LEMMA ReadTokens ==
    ASSUME EndsInv, OwnInv, BufferInv, AnswerInv, TokenInv,
           NEW m \in Managers, Read(m)
    PROVE  AnswerInv' /\ TokenInv'
<1> DEFINE c == peer[m]
           f == <<c, "request">>
<1>0. TInv
  BY DEF EndsInv
<1>1. /\ mpc[m] = "read" /\ mpc' = [mpc EXCEPT ![m] = "handle"]
      /\ UNCHANGED <<peer, cpc, asked, table, ends, intr, twice>>
  BY DEF Read, Goto, queueVars, clientVars, listVars
<1>2. /\ mpc \in [Managers -> {"take", "open", "read", "handle", "again", "close"}]
      /\ read_buffer \in [Managers -> Requests \cup {Nothing}]
      /\ pipe \in [Fifos -> Seq(Requests) \cup Seq(Message)]
  BY <1>0 DEF TInv, TypeOK
<1>3. /\ c \in Clients /\ fd_request(m) \in Descriptors
      /\ Denotes(fd_request(m), "r") /\ table[fd_request(m)].fifo = f
  BY <1>0, <1>1, LoopDenotes
<1>4. /\ \A j \in Managers : Loops(j) => Loops(j)' /\ peer'[j] = peer[j]
      /\ \A j \in Managers : j # m => mpc'[j] = mpc[j]
  BY <1>1, <1>2 DEF Loops
<1>5. \/ /\ UNCHANGED <<read_buffer, pipe>>
         /\ m \in intr \/ (pipe[f] = <<>> /\ ~Present(f, "w", table, ends))
      \/ /\ pipe[f] # <<>>
         /\ read_buffer' = [read_buffer EXCEPT ![m] = Head(pipe[f])]
         /\ pipe' = [pipe EXCEPT ![f] = Tail(pipe[f])]
  BY <1>3 DEF Read, ReadFails
<1>6. f \in Fifos /\ f[1] = c
  BY <1>0, <1>3, FifoTypes
<1>7. \A d \in Clients : Answers(d)' = Answers(d) /\ (d # c => Asking(d)' = Asking(d))
  <2> SUFFICES ASSUME NEW d \in Clients
               PROVE  Answers(d)' = Answers(d) /\ (d # c => Asking(d)' = Asking(d))
    OBVIOUS
  <2>1. <<d, "request">> \in Fifos /\ <<d, "response">> \in Fifos
    BY <1>0, FifoTypes
  <2>2. <<d, "response">> # f /\ (d # c => <<d, "request">> # f)
    OBVIOUS
  <2> HIDE DEF f
  <2> QED
    BY <1>2, <1>5, <2>1, <2>2 DEF Answers, Asking
<1>8. AnswerInv'
  BY <1>0, <1>4, <1>7, AnswersRest
<1>9. \A j \in Managers : j # m => read_buffer'[j] = read_buffer[j]
  BY <1>2, <1>5
<1>10. ASSUME NEW d \in Clients, cpc'[d] # "gone", d \notin twice', d # c
       PROVE  Token(d)'
  <2>1. Token(d)
    BY <1>1, <1>10 DEF TokenInv
  <2>2. \A j \in Managers :
           Handling(j, d)' => Handling(j, d) /\ read_buffer'[j] = read_buffer[j]
    BY <1>1, <1>4, <1>9, <1>10 DEF Handling
  <2>3. Replies(d)' = Replies(d)
    BY <1>7 DEF Replies
  <2> QED
    BY <1>1, <1>7, <1>10, <2>1, <2>2, <2>3, TokenRest
<1>11. ASSUME NEW d \in Clients, cpc'[d] # "gone", d \notin twice', d = c
       PROVE  Token(d)'
  <2>1. Token(d) /\ cpc[d] # "gone"
    BY <1>1, <1>11 DEF TokenInv
  <2>2. Answers(d)' = Answers(d) /\ Replies(d)' = Replies(d)
    BY <1>7 DEF Replies
  <2>3. CASE pipe[f] # <<>> /\ read_buffer' = [read_buffer EXCEPT ![m] = Head(pipe[f])]
             /\ pipe' = [pipe EXCEPT ![f] = Tail(pipe[f])]
    <3>1. Asking(d) = <<asked[d]>> /\ Asking(d) # <<>> /\ Asking(d) = pipe[f]
      BY <1>11, <2>1, <2>3 DEF Token, Asking
    <3>2. read_buffer'[m] = asked'[d] /\ Asking(d)' = <<>>
      <4>1. Head(<<asked[d]>>) = asked[d] /\ Tail(<<asked[d]>>) = <<>>
        OBVIOUS
      <4>2. pipe'[f] = Tail(pipe[f]) /\ read_buffer'[m] = Head(pipe[f])
        BY <1>2, <1>6, <2>3
      <4>3. Asking(d)' = pipe'[f]
        BY <1>1, <1>11 DEF Asking
      <4> QED
        BY <1>1, <3>1, <4>1, <4>2, <4>3
    <3>3. Replies(d)' = {} /\ \A j \in Managers : ~Handling(j, d)
      BY <2>1, <2>2, <3>1 DEF Token
    <3>4. \A j \in Managers : Handling(j, d)' => j = m
      BY <1>1, <1>4, <1>9, <3>3 DEF Handling
    <3> QED
      BY <3>2, <3>3, <3>4 DEF Token
  <2>4. CASE UNCHANGED <<read_buffer, pipe>> /\ m \in intr
    <3>1. read_buffer'[m] = Nothing
      BY <2>4 DEF BufferInv
    <3>2. \A j \in Managers :
             Handling(j, d)' => Handling(j, d) /\ read_buffer'[j] = read_buffer[j]
      BY <1>1, <1>4, <1>9, <3>1 DEF Handling
    <3>3. Asking(d)' = Asking(d)
      BY <2>4 DEF Asking
    <3> QED
      BY <1>1, <2>1, <2>2, <3>2, <3>3, TokenRest
  <2>5. CASE ~Present(f, "w", table, ends)
    <3>1. HasEnd(ends, f, "w")
      <4> DEFINE n == fd_request(m)
      <4>1. /\ n \in Descriptors /\ table[n].fifo = f /\ table[n] # Closed
            /\ table[n].state = "open" /\ table[n].mode = "r"
        BY <1>3 DEF Denotes
      <4> QED
        BY <1>6, <1>11, <2>1, <4>1 DEF EndsInv, OtherEndInv, Other
    <3>2. Present(f, "w", table, ends)
      BY <1>3, <1>6, <3>1 DEF HasEnd, Present
    <3> QED
      BY <2>5, <3>2
  <2> QED
    BY <1>5, <2>3, <2>4, <2>5
<1> QED
  BY <1>8, <1>10, <1>11 DEF TokenInv


\* An answer fits the request that its manager alone holds, or goes to a client
\* that has subscribed to a key that is not stored.
LEMMA ReplyTokens ==
    ASSUME TInv, OwnInv, AnswerInv, TokenInv, NEW m \in Managers,
           NEW op \in {"30", "31", "40", "41"}, NEW next \in {"read", "again"},
           mpc[m] \in {"handle", "again"}, mpc' = [mpc EXCEPT ![m] = next],
           UNCHANGED <<peer, cpc, asked, read_buffer>>, twice \subseteq twice',
           UNCHANGED pipe \/ Reply(m, op),
           \/ peer[m] \in twice'
           \/ /\ mpc[m] = "handle" /\ read_buffer[m] # Nothing
              /\ Fits(Answer(m, op, read_buffer[m]), read_buffer[m])
    PROVE  AnswerInv' /\ TokenInv'
<1> DEFINE a == Answer(m, op, read_buffer[m])
<1>1. UNCHANGED pipe \/ Write(fd_response(m), a)
  BY DEF Reply
<1>2. mpc \in [Managers -> {"take", "open", "read", "handle", "again", "close"}]
  BY DEF TInv, TypeOK
<1>3. /\ peer[m] \in Clients /\ Denotes(fd_response(m), "w")
      /\ table[fd_response(m)].fifo = <<peer[m], "response">>
  BY LoopDenotes
<1>4. PICK c \in Clients : c = peer[m]
  BY <1>3
<1>5. a \in Message /\ a.from = m
  <2>1. read_buffer[m] \in Requests \cup {Nothing}
    BY DEF TInv, TypeOK
  <2> QED
    BY <2>1 DEF Answer, Message
<1> HIDE DEF a
<1>6. UNCHANGED pipe \/ WriteTo(<<c, "response">>, a)
  BY <1>1, <1>3, <1>4 DEF Write
<1>7. UNCHANGED pipe \/ Adds(c, a)
  BY <1>5, <1>6, WriteAdds
<1>8. /\ \A j \in Managers : Loops(j) => Loops(j)' /\ peer'[j] = peer[j]
      /\ \A j \in Managers : mpc'[j] = "handle" =>
            j # m /\ mpc[j] = "handle" /\ peer'[j] = peer[j]
      /\ Loops(m)' /\ peer'[m] = c
  BY <1>2, <1>4 DEF Loops
<1>9. CASE UNCHANGED pipe
  BY <1>8, <1>9, RestTokens
<1>10. CASE Adds(c, a)
  <2>1. /\ \A d \in Clients : d # c => Answers(d)' = Answers(d)
        /\ \A d \in Clients : Asking(d)' = Asking(d)
    BY <1>10 DEF Adds
  <2>2. PICK k \in Nat :
           /\ DOMAIN Answers(c)' = DOMAIN Answers(c) \cup {k}
           /\ Answers(c)'[k] = a
           /\ \A i \in DOMAIN Answers(c) : Answers(c)'[i] = Answers(c)[i]
    BY <1>10 DEF Adds
  <2>3. AnswerInv'
    BY <1>5, <1>8, <2>1, <2>2, AnswersRest
  <2>4. ASSUME NEW d \in Clients, cpc'[d] # "gone", d \notin twice', d # c
        PROVE  Token(d)'
    <3>1. Token(d)
      BY <2>4 DEF TokenInv
    <3>2. Replies(d)' = Replies(d) /\ Answers(d)' = Answers(d)
      BY <2>1, <2>4 DEF Replies
    <3>3. \A j \in Managers : Handling(j, d)' => Handling(j, d)
      BY <1>8 DEF Handling
    <3> QED
      BY <2>1, <3>1, <3>2, <3>3, TokenRest
  <2>5. ASSUME cpc'[c] # "gone", c \notin twice' PROVE Token(c)'
    <3>1. Token(c)
      BY <2>5 DEF TokenInv
    <3>2. Handling(m, c) /\ Fits(a, read_buffer[m])
      BY <1>4, <2>5 DEF Handling, a
    <3>3. /\ read_buffer[m] = asked[c] /\ Asking(c) = <<>> /\ Replies(c) = {}
          /\ \A j \in Managers : Handling(j, c) => j = m
      BY <3>1, <3>2 DEF Token
    <3>4. \A j \in Managers : ~Handling(j, c)'
      BY <1>8, <3>3 DEF Handling
    <3>5. Asking(c)' = <<>>
      BY <2>1, <3>3
    <3>6. \A i \in Replies(c)' : i = k
      BY <2>2, <3>3 DEF Replies
    <3>7. asked'[c] = asked[c] /\ Answers(c)'[k] = a
      BY <2>2
    <3>8. Fits(a, asked[c])
      BY <3>2, <3>3
    <3>9. \A i \in Replies(c)' : Fits(Answers(c)'[i], asked'[c])
      BY <3>6, <3>7, <3>8
    <3>10. \A i \in Replies(c)' : Fits(Answers(c)[i], asked[c])'
      BY <3>9 DEF Fits
    <3> QED
      BY <3>4, <3>5, <3>6, <3>10 DEF Token
  <2> QED
    BY <2>3, <2>4, <2>5 DEF TokenInv
<1> QED
  BY <1>7, <1>9, <1>10

\* SUBSCRIBE of a stored key and UNSUBSCRIBE give one answer, which fits; the
\* client of any other SUBSCRIBE is in twice.
LEMMA CommandTokens ==
    ASSUME TInv, OwnInv, AnswerInv, TokenInv, AgainInv, NEW m \in Managers,
           Subscribe(m) \/ SubscribeAgain(m) \/ Unsubscribe(m)
    PROVE  AnswerInv' /\ TokenInv'
<1>1. ASSUME NEW request \in Requests, NEW op,
             \/ request.op = "subscribe" /\ op \in {"30", "31"}
             \/ request.op = "unsubscribe" /\ op \in {"40", "41"}
      PROVE  Fits(Answer(m, op, request), request)
  BY <1>1, SessionsAssumption DEF Fits, Answer
<1>2. ASSUME NEW op, op \in {"subscribe", "unsubscribe"}, NEW next, Handles(m, op, next)
      PROVE  /\ mpc[m] = "handle" /\ mpc' = [mpc EXCEPT ![m] = next]
             /\ UNCHANGED <<peer, cpc, asked, read_buffer>>
             /\ read_buffer[m] \in Requests /\ read_buffer[m] # Nothing
             /\ read_buffer[m].op = op
  <2>1. read_buffer[m] \in Requests \cup {Nothing}
    BY DEF TInv, TypeOK
  <2> QED
    BY <1>2, <2>1 DEF Handles, Goto, opcode, queueVars, clientVars
<1>3. CASE Subscribe(m)
  <2> DEFINE stored == read_buffer[m].key \in Stored
             next == IF stored THEN "read" ELSE "again"
             op == IF stored THEN "31" ELSE "30"
  <2>1. /\ Handles(m, "subscribe", next)
        /\ twice' = IF stored THEN twice ELSE twice \cup {peer[m]}
        /\ UNCHANGED pipe \/ Reply(m, op)
    BY <1>3 DEF Subscribe, Crash
  <2>2. next \in {"read", "again"} /\ op \in {"30", "31"}
    OBVIOUS
  <2>3. twice \subseteq twice' /\ (stored \/ peer[m] \in twice')
    BY <2>1
  <2> HIDE DEF stored, next, op
  <2>4. /\ mpc[m] = "handle" /\ mpc' = [mpc EXCEPT ![m] = next]
        /\ UNCHANGED <<peer, cpc, asked, read_buffer>>
        /\ read_buffer[m] \in Requests /\ read_buffer[m] # Nothing
        /\ read_buffer[m].op = "subscribe"
    BY <1>2, <2>1
  <2>5. Fits(Answer(m, op, read_buffer[m]), read_buffer[m])
    BY <1>1, <2>2, <2>4
  <2> QED
    BY <2>1, <2>2, <2>3, <2>4, <2>5, ReplyTokens
<1>4. CASE SubscribeAgain(m)
  <2>1. /\ mpc[m] = "again" /\ mpc' = [mpc EXCEPT ![m] = "read"] /\ Reply(m, "31")
        /\ UNCHANGED <<peer, cpc, asked, read_buffer, twice>>
    BY <1>4 DEF SubscribeAgain, Goto, queueVars, clientVars, listVars
  <2>2. peer[m] \in twice'
    BY <2>1 DEF AgainInv
  <2> QED
    BY <2>1, <2>2, ReplyTokens
<1>5. CASE Unsubscribe(m)
  <2> DEFINE op == IF read_buffer[m].key \in Stored THEN "41" ELSE "40"
  <2>1. /\ Handles(m, "unsubscribe", "read") /\ UNCHANGED twice
        /\ UNCHANGED pipe \/ Reply(m, op)
    BY <1>5 DEF Unsubscribe, Crash
  <2>2. op \in {"40", "41"}
    OBVIOUS
  <2> HIDE DEF op
  <2>3. /\ mpc[m] = "handle" /\ mpc' = [mpc EXCEPT ![m] = "read"]
        /\ UNCHANGED <<peer, cpc, asked, read_buffer>>
        /\ read_buffer[m] \in Requests /\ read_buffer[m] # Nothing
        /\ read_buffer[m].op = "unsubscribe"
    BY <1>2, <2>1
  <2>4. Fits(Answer(m, op, read_buffer[m]), read_buffer[m])
    BY <1>1, <2>2, <2>3
  <2> QED
    BY <2>1, <2>2, <2>3, <2>4, ReplyTokens
<1> QED
  BY <1>3, <1>4, <1>5

LEMMA ReceiveTokens ==
    ASSUME TInv, AnswerInv, TokenInv, NEW c \in Clients, Receive(c)
    PROVE  AnswerInv' /\ TokenInv'
<1> DEFINE f == <<c, "response">>
<1>1. /\ Answers(c) # <<>> /\ cpc[c] # "gone"
      /\ pipe' = [pipe EXCEPT ![f] = Tail(pipe[f])]
      /\ cpc' = [cpc EXCEPT ![c] = "connected"]
      /\ asked' = [asked EXCEPT ![c] =
                     IF Head(Answers(c)).op = "connect" THEN asked[c] ELSE Nothing]
      /\ UNCHANGED <<peer, mpc, read_buffer, twice>>
  BY DEF Receive, Answers, queueVars, managerVars
<1>2. /\ pipe \in [Fifos -> Seq(Requests) \cup Seq(Message)]
      /\ cpc \in [Clients -> {"start", "open", "connected", "gone"}]
      /\ asked \in [Clients -> Requests \cup {Nothing}]
  BY DEF TInv, TypeOK
<1>3. /\ Answers(c) \in Seq(Message) /\ Len(Answers(c)) \in Nat
      /\ DOMAIN Answers(c) = 1 .. Len(Answers(c)) /\ f \in Fifos
  BY FifoTypes
<1>4. /\ Head(Answers(c)) = Answers(c)[1] /\ 1 \in DOMAIN Answers(c)
      /\ Tail(Answers(c)) \in Seq(Message)
      /\ Len(Tail(Answers(c))) = Len(Answers(c)) - 1
      /\ \A i \in 1 .. Len(Tail(Answers(c))) : Tail(Answers(c))[i] = Answers(c)[i + 1]
  <2>1. /\ Tail(Answers(c)) \in Seq(Message)
        /\ Len(Tail(Answers(c))) = Len(Answers(c)) - 1
        /\ \A i \in 1 .. Len(Tail(Answers(c))) : Tail(Answers(c))[i] = Answers(c)[i + 1]
    BY <1>1, <1>3, HeadTailProperties
  <2>2. Len(Answers(c)) \in Nat \ {0}
    BY <1>1, <1>3, EmptySeq
  <2> QED
    BY <1>3, <2>1, <2>2
<1>5. Answers(c)' = Tail(Answers(c))
  BY <1>1, <1>2, <1>3 DEF Answers
<1>6. DOMAIN Answers(c)' = 1 .. Len(Answers(c)) - 1
  BY <1>4, <1>5, LenProperties
<1>7. \A i \in DOMAIN Answers(c)' :
         i + 1 \in DOMAIN Answers(c) /\ i + 1 # 1 /\ Answers(c)'[i] = Answers(c)[i + 1]
  BY <1>3, <1>4, <1>5, <1>6
<1>8. \A d \in Clients : Asking(d)' = Asking(d) /\ (d # c => Answers(d)' = Answers(d))
  <2> SUFFICES ASSUME NEW d \in Clients
               PROVE  Asking(d)' = Asking(d) /\ (d # c => Answers(d)' = Answers(d))
    OBVIOUS
  <2>1. <<d, "request">> \in Fifos /\ <<d, "response">> \in Fifos
    BY FifoTypes
  <2>2. <<d, "request">> # f /\ (d # c => <<d, "response">> # f)
    OBVIOUS
  <2> HIDE DEF f
  <2> QED
    BY <1>1, <1>2, <2>1, <2>2 DEF Answers, Asking
<1>9. AnswerInv'
  BY <1>1, <1>7, <1>8, AnswersRest DEF Loops
<1>10. \A m \in Managers : \A d \in Clients : Handling(m, d)' <=> Handling(m, d)
  BY <1>1 DEF Handling
<1>11. ASSUME NEW d \in Clients, cpc'[d] # "gone", d \notin twice', d # c
       PROVE  Token(d)'
  <2>1. Token(d) /\ asked'[d] = asked[d]
    BY <1>1, <1>2, <1>11 DEF TokenInv
  <2>2. Replies(d)' = Replies(d) /\ Answers(d)' = Answers(d)
    BY <1>8, <1>11 DEF Replies
  <2> QED
    BY <1>1, <1>8, <1>10, <2>1, <2>2, TokenRest
<1>12. ASSUME c \notin twice' PROVE Token(c)'
  <2>1. Token(c)
    BY <1>1, <1>12 DEF TokenInv
  <2>2. \A i \in Replies(c)' :
           i + 1 \in Replies(c) /\ i + 1 # 1 /\ Answers(c)'[i] = Answers(c)[i + 1]
    BY <1>7 DEF Replies
  <2>3. Replies(c)' \subseteq Nat
    BY <1>3, <1>6 DEF Replies
  <2>4. CASE Head(Answers(c)).op = "connect"
    <3>1. asked'[c] = asked[c]
      BY <1>1, <1>2, <2>4
    <3>2. \A i \in Replies(c)' : Fits(Answers(c)[i], asked[c])'
      BY <2>1, <2>2, <3>1 DEF Token, Fits
    <3>3. \A i, j \in Replies(c)' : i = j
      <4> SUFFICES ASSUME NEW i \in Replies(c)', NEW j \in Replies(c)' PROVE i = j
        OBVIOUS
      <4>1. i + 1 = j + 1 /\ i \in Nat /\ j \in Nat
        BY <2>1, <2>2, <2>3 DEF Token
      <4> QED
        BY <4>1
    <3>4. Replies(c) = {} => Replies(c)' = {}
      BY <2>2
    <3> QED
      BY <1>1, <1>8, <1>10, <2>1, <3>1, <3>2, <3>3, <3>4 DEF Token
  <2>5. CASE Head(Answers(c)).op # "connect"
    <3>1. asked'[c] = Nothing /\ 1 \in Replies(c)
      BY <1>1, <1>2, <1>4, <2>5 DEF Replies
    <3>2. /\ Asking(c) = <<>> /\ \A m \in Managers : ~Handling(m, c)
          /\ \A i \in Replies(c) : i = 1
      BY <2>1, <3>1 DEF Token
    <3>3. Replies(c)' = {}
      BY <2>2, <3>2
    <3> QED
      BY <1>8, <1>10, <3>2, <3>3 DEF Token
  <2> QED
    BY <2>4, <2>5
<1> QED
  BY <1>9, <1>11, <1>12 DEF TokenInv

LEMMA AskTokens ==
    ASSUME TInv, AnswerInv, TokenInv, NEW c \in Clients, NEW r \in Requests, Ask(c, r)
    PROVE  AnswerInv' /\ TokenInv'
<1> DEFINE f == <<c, "request">>
<1>1. /\ cpc[c] = "connected" /\ asked[c] = Nothing
      /\ pipe' = [pipe EXCEPT ![f] = Append(pipe[f], r)]
      /\ asked' = [asked EXCEPT ![c] = r]
      /\ UNCHANGED <<peer, mpc, read_buffer, cpc, twice>>
  BY DEF Ask, queueVars, managerVars
<1>2. /\ pipe \in [Fifos -> Seq(Requests) \cup Seq(Message)]
      /\ asked \in [Clients -> Requests \cup {Nothing}]
      /\ read_buffer \in [Managers -> Requests \cup {Nothing}]
  BY DEF TInv, TypeOK
<1>3. \A d \in Clients : Answers(d)' = Answers(d) /\ (d # c => Asking(d)' = Asking(d))
  <2> SUFFICES ASSUME NEW d \in Clients
               PROVE  Answers(d)' = Answers(d) /\ (d # c => Asking(d)' = Asking(d))
    OBVIOUS
  <2>1. <<d, "request">> \in Fifos /\ <<d, "response">> \in Fifos
    BY FifoTypes
  <2>2. <<d, "response">> # f /\ (d # c => <<d, "request">> # f)
    OBVIOUS
  <2> HIDE DEF f
  <2> QED
    BY <1>1, <1>2, <2>1, <2>2 DEF Answers, Asking
<1>4. \A d \in Clients : Replies(d)' = Replies(d)
  BY <1>3 DEF Replies
<1>5. AnswerInv'
  BY <1>1, <1>3, AnswersRest DEF Loops
<1>6. \A m \in Managers : \A d \in Clients : Handling(m, d)' <=> Handling(m, d)
  BY <1>1 DEF Handling
<1>7. ASSUME NEW d \in Clients, cpc'[d] # "gone", d \notin twice', d # c
      PROVE  Token(d)'
  <2>1. Token(d) /\ asked'[d] = asked[d]
    BY <1>1, <1>2, <1>7 DEF TokenInv
  <2> QED
    BY <1>1, <1>3, <1>4, <1>6, <1>7, <2>1, TokenRest
<1>8. ASSUME c \notin twice' PROVE Token(c)'
  <2>1. Token(c)
    BY <1>1, <1>8 DEF TokenInv
  <2>2. Asking(c) \in Seq(Requests) /\ f \in Fifos
    BY FifoTypes
  <2>3. Asking(c) = <<>>
    <3> SUFFICES ASSUME Asking(c) # <<>> PROVE FALSE
      OBVIOUS
    <3>1. Asking(c) = <<Nothing>> /\ Head(Asking(c)) \in Requests
      BY <1>1, <2>1, <2>2, HeadTailProperties DEF Token
    <3>2. Head(<<Nothing>>) = Nothing
      OBVIOUS
    <3> QED
      BY <3>1, <3>2, SessionsAssumption
  <2>4. \A m \in Managers : ~Handling(m, c)
    BY <1>1, <2>1 DEF Token, Handling
  <2>5. Replies(c) = {}
    BY <1>1, <2>1 DEF Token, Fits
  <2>6. Asking(c)' = <<r>> /\ asked'[c] = r
    <3>1. pipe'[f] = Append(pipe[f], r) /\ pipe[f] = <<>>
      BY <1>1, <1>2, <2>2, <2>3 DEF Asking
    <3>2. Append(<<>>, r) = <<r>>
      OBVIOUS
    <3>3. asked'[c] = r
      BY <1>1, <1>2
    <3> QED
      BY <3>1, <3>2, <3>3 DEF Asking
  <2> QED
    BY <1>4, <1>6, <2>4, <2>5, <2>6 DEF Token
<1> QED
  BY <1>5, <1>7, <1>8 DEF TokenInv

LEMMA ExitTokens ==
    ASSUME TInv, AnswerInv, TokenInv, NEW c \in Clients, Exit(c)
    PROVE  AnswerInv' /\ TokenInv'
<1>1. /\ cpc' = [cpc EXCEPT ![c] = "gone"] /\ asked' = [asked EXCEPT ![c] = Nothing]
      /\ pipe' = Drained(table, ends')
      /\ UNCHANGED <<peer, mpc, read_buffer, twice>>
  BY DEF Exit, ClientGoto, queueVars, managerVars
<1>2. /\ cpc \in [Clients -> {"start", "open", "connected", "gone"}]
      /\ asked \in [Clients -> Requests \cup {Nothing}]
  BY DEF TInv, TypeOK
<1>3. \A f \in Fifos : pipe'[f] \in {pipe[f], <<>>}
  BY <1>1, DrainedType
<1>4. \A d \in Clients :
         Answers(d)' \in {Answers(d), <<>>} /\ Asking(d)' \in {Asking(d), <<>>}
  BY <1>3, FifoTypes DEF Answers, Asking
<1>5. DOMAIN <<>> = {}
  OBVIOUS
<1>6. \A d \in Clients : \A i \in DOMAIN Answers(d)' :
         i \in DOMAIN Answers(d) /\ Answers(d)'[i] = Answers(d)[i]
  BY <1>4, <1>5
<1>7. AnswerInv'
  BY <1>1, <1>6, AnswersRest DEF Loops
<1>8. ASSUME NEW d \in Clients, cpc'[d] # "gone", d \notin twice' PROVE Token(d)'
  <2>1. Token(d) /\ asked'[d] = asked[d]
    BY <1>1, <1>2, <1>8 DEF TokenInv
  <2>2. \A i \in Replies(d)' : i \in Replies(d) /\ Answers(d)'[i] = Answers(d)[i]
    BY <1>6 DEF Replies
  <2>3. \A m \in Managers : Handling(m, d)' => Handling(m, d)
    BY <1>1 DEF Handling
  <2> QED
    BY <1>1, <1>4, <2>1, <2>2, <2>3, TokenRest
<1> QED
  BY <1>7, <1>8 DEF TokenInv


LEMMA NextBuffer == TInv /\ BufferInv /\ [Next]_vars => BufferInv'
<1> SUFFICES ASSUME TInv, BufferInv, [Next]_vars PROVE BufferInv'
  OBVIOUS
<1>1. /\ mpc \in [Managers -> {"take", "open", "read", "handle", "again", "close"}]
      /\ read_buffer \in [Managers -> Requests \cup {Nothing}]
  BY DEF TInv, TypeOK
<1>2. CASE UNCHANGED <<mpc, read_buffer, intr>>
  BY <1>2 DEF BufferInv
<1>3. ASSUME NEW m \in Managers, NEW from, NEW to, Goto(m, from, to),
             to \in {"take", "open"} => from \in {"take", "open"},
             UNCHANGED <<read_buffer, intr>>
      PROVE  BufferInv'
  <2>1. \A k \in Managers :
           mpc'[k] \in {"take", "open"} => mpc[k] \in {"take", "open"}
    BY <1>1, <1>3 DEF Goto
  <2> QED
    BY <1>3, <2>1 DEF BufferInv
<1>4. ASSUME NEW m \in Managers, Read(m) PROVE BufferInv'
  <2>1. mpc[m] = "read" /\ mpc' = [mpc EXCEPT ![m] = "handle"] /\ UNCHANGED intr
    BY <1>4 DEF Read, Goto, listVars
  <2>2. CASE UNCHANGED read_buffer
    <3>1. Goto(m, "read", "handle")
      BY <2>1 DEF Goto
    <3> QED
      BY <1>3, <2>1, <2>2, <3>1
  <2>3. CASE ~UNCHANGED read_buffer
    <3>1. m \notin intr /\ \E r : read_buffer' = [read_buffer EXCEPT ![m] = r]
      BY <1>4, <2>3 DEF Read, ReadFails
    <3>2. \A k \in Managers : k # m => read_buffer'[k] = read_buffer[k] /\ mpc'[k] = mpc[k]
      BY <1>1, <2>1, <3>1
    <3>3. mpc'[m] = "handle"
      BY <1>1, <2>1
    <3> QED
      BY <2>1, <3>1, <3>2, <3>3 DEF BufferInv
  <2> QED
    BY <2>2, <2>3
<1>5. ASSUME NEW m \in Managers, Manager(m) PROVE BufferInv'
  <2>1. CASE Take(m)
    BY <1>3, <2>1 DEF Take, listVars
  <2>2. CASE Open(m)
    BY <1>2, <2>2 DEF Open, listVars
  <2>3. CASE OpenFails(m) \/ Welcome(m)
    BY <1>2, <1>3, <2>3 DEF OpenFails, Welcome, Leave, listVars
  <2>4. CASE \/ Ignore(m) \/ Subscribe(m) \/ SubscribeAgain(m) \/ Unsubscribe(m)
             \/ Disconnect(m) \/ Close(m)
    BY <1>3, <2>4 DEF Ignore, Subscribe, SubscribeAgain, Unsubscribe, Disconnect,
                      Close, Handles, listVars
  <2> QED
    BY <1>4, <1>5, <2>1, <2>2, <2>3, <2>4 DEF Manager
<1>6. CASE ~\E m \in Managers : Manager(m)
  BY <1>2, <1>6 DEF Next, Host, HostRead, HostEof, Client, OpenNext, Receive, Exit, Ask,
                    vars, managerVars
<1> QED
  BY <1>5, <1>6

LEMMA NextAsked == TInv /\ AskedInv /\ [Next]_vars => AskedInv'
<1> SUFFICES ASSUME TInv, AskedInv, [Next]_vars PROVE AskedInv'
  OBVIOUS
<1>1. /\ cpc \in [Clients -> {"start", "open", "connected", "gone"}]
      /\ asked \in [Clients -> Requests \cup {Nothing}]
  BY DEF TInv, TypeOK
<1>2. CASE UNCHANGED <<cpc, asked>>
  BY <1>2 DEF AskedInv
<1>3. ASSUME NEW c \in Clients, HostRead(c) PROVE AskedInv'
  BY <1>1, <1>3 DEF HostRead, AskedInv
<1>4. ASSUME NEW c \in Clients, Receive(c) PROVE AskedInv'
  <2>1. /\ cpc' = [cpc EXCEPT ![c] = "connected"]
        /\ \E r : asked' = [asked EXCEPT ![c] = r]
    BY <1>4 DEF Receive
  <2> QED
    BY <1>1, <2>1 DEF AskedInv
<1>5. ASSUME NEW c \in Clients, Exit(c) PROVE AskedInv'
  BY <1>1, <1>5 DEF Exit, ClientGoto, AskedInv
<1>6. ASSUME NEW c \in Clients, NEW r \in Requests, Ask(c, r) PROVE AskedInv'
  BY <1>1, <1>6 DEF Ask, AskedInv
<1>7. ASSUME NEW m \in Managers, Manager(m) PROVE UNCHANGED <<cpc, asked>>
  BY <1>7 DEF Manager, Take, Open, OpenFails, Welcome, Read, Ignore, Subscribe,
              SubscribeAgain, Unsubscribe, Disconnect, Close, Handles, clientVars
<1> QED
  BY <1>2, <1>3, <1>4, <1>5, <1>6, <1>7
     DEF Next, Host, HostEof, Client, OpenNext, vars, clientVars

LEMMA NextAgain == TInv /\ AgainInv /\ [Next]_vars => AgainInv'
<1> SUFFICES ASSUME TInv, AgainInv, [Next]_vars PROVE AgainInv'
  OBVIOUS
<1>1. /\ mpc \in [Managers -> {"take", "open", "read", "handle", "again", "close"}]
      /\ peer \in [Managers -> Clients \cup {NoClient}]
  BY DEF TInv, TypeOK
<1>2. CASE UNCHANGED <<mpc, peer, twice>>
  BY <1>2 DEF AgainInv
<1>3. ASSUME NEW m \in Managers, NEW from, NEW to, Goto(m, from, to),
             \A k \in Managers : k # m => peer'[k] = peer[k],
             to = "again" => peer'[m] \in twice', twice \subseteq twice'
      PROVE  AgainInv'
  BY <1>1, <1>3 DEF AgainInv, Goto
<1>4. ASSUME NEW m \in Managers, Manager(m) PROVE AgainInv'
  <2>1. CASE Take(m)
    BY <1>1, <1>3, <2>1 DEF Take, Queue!Take, listVars
  <2>2. CASE Open(m)
    BY <1>2, <2>2 DEF Open, queueVars, listVars
  <2>3. CASE OpenFails(m) \/ Welcome(m)
    BY <1>1, <1>2, <1>3, <2>3 DEF OpenFails, Welcome, Leave, listVars
  <2>4. CASE Read(m) \/ Ignore(m) \/ SubscribeAgain(m) \/ Close(m)
    BY <1>3, <2>4 DEF Read, Ignore, SubscribeAgain, Close, queueVars, listVars
  <2>5. CASE Subscribe(m)
    BY <1>3, <2>5 DEF Subscribe, Handles, queueVars
  <2>6. CASE Unsubscribe(m) \/ Disconnect(m)
    BY <1>3, <2>6 DEF Unsubscribe, Disconnect, Handles, queueVars
  <2> QED
    BY <1>4, <2>1, <2>2, <2>3, <2>4, <2>5, <2>6 DEF Manager
<1>5. CASE ~\E m \in Managers : Manager(m)
  BY <1>2, <1>5 DEF Next, Host, HostRead, HostEof, Queue!Put, Client, OpenNext,
                    Receive, Exit, Ask, vars, queueVars, managerVars
<1> QED
  BY <1>4, <1>5

\* One step before the first DISCONNECT.
LEMMA NextQuiet ==
    ASSUME AInv, parted = {}, parted' = {}, [Next]_vars
    PROVE  /\ \A m \in Managers : mpc'[m] # "close"
           /\ OwnInv' /\ AnswerInv' /\ TokenInv'
<1>0. /\ EndsInv /\ TInv /\ BufferInv /\ AgainInv /\ OwnInv /\ AnswerInv /\ TokenInv
      /\ \A m \in Managers : mpc[m] # "close"
      /\ mpc \in [Managers -> {"take", "open", "read", "handle", "again", "close"}]
      /\ peer \in [Managers -> Clients \cup {NoClient}]
      /\ cpc \in [Clients -> {"start", "open", "connected", "gone"}]
  BY DEF AInv, EndsInv, QuietInv, TInv, TypeOK
<1>1. ASSUME UNCHANGED <<mpc, peer, fd, pipe, asked, read_buffer, twice>>, OwnInv',
             \A c \in Clients : cpc[c] = "gone" => cpc'[c] = "gone"
      PROVE  /\ \A m \in Managers : mpc'[m] # "close"
             /\ OwnInv' /\ AnswerInv' /\ TokenInv'
  BY <1>0, <1>1, RestTokens DEF Loops
<1>2. CASE Host
  <2>1. /\ ManagersRest /\ UNCHANGED <<pipe, asked, read_buffer, twice>>
        /\ \A c \in Clients : cpc[c] = "gone" => cpc'[c] = "gone"
    BY <1>0, <1>2 DEF Host, HostRead, HostEof, Queue!Put, ManagersRest, managerVars,
                      clientVars, fifoVars
  <2> QED
    BY <1>0, <1>1, <2>1, RestOwn DEF ManagersRest
<1>3. ASSUME NEW m \in Managers, Manager(m)
      PROVE  /\ \A k \in Managers : mpc'[k] # "close"
             /\ OwnInv' /\ AnswerInv' /\ TokenInv'
  <2>1. CASE Take(m)
    <3>1. /\ mpc[m] = "take" /\ mpc' = [mpc EXCEPT ![m] = "open"]
          /\ peer' = [peer EXCEPT ![m] = Head(queue)]
          /\ UNCHANGED <<pipe, asked, read_buffer, cpc, twice>>
      BY <2>1 DEF Take, Goto, Queue!Take, clientVars, fifoVars, listVars
    <3>2. /\ \A k \in Managers : Loops(k) => Loops(k)' /\ peer'[k] = peer[k]
          /\ \A k \in Managers : mpc'[k] = "handle" => mpc[k] = "handle" /\ peer'[k] = peer[k]
          /\ \A k \in Managers : mpc'[k] # "close"
      BY <1>0, <3>1 DEF Loops
    <3> QED
      BY <1>0, <2>1, <3>1, <3>2, TakeOwn, RestTokens
  <2>2. CASE Open(m)
    <3>1. UNCHANGED <<mpc, peer, pipe, asked, read_buffer, cpc, twice>>
      BY <2>2 DEF Open, queueVars, clientVars, listVars
    <3> QED
      BY <1>0, <2>2, <3>1, OpenOwn, RestTokens DEF Loops
  <2>3. CASE OpenFails(m)
    <3>1. /\ mpc[m] = "open"
          /\ \/ UNCHANGED <<mpc, peer>>
             \/ /\ mpc' = [mpc EXCEPT ![m] = "take"]
                /\ peer' = [peer EXCEPT ![m] = NoClient]
          /\ UNCHANGED <<pipe, asked, read_buffer, cpc, twice>>
      BY <2>3 DEF OpenFails, Leave, Goto, clientVars, listVars
    <3>2. /\ \A k \in Managers : Loops(k) => Loops(k)' /\ peer'[k] = peer[k]
          /\ \A k \in Managers : mpc'[k] = "handle" => mpc[k] = "handle" /\ peer'[k] = peer[k]
          /\ \A k \in Managers : mpc'[k] # "close"
      BY <1>0, <3>1 DEF Loops
    <3> QED
      BY <1>0, <2>3, <3>1, <3>2, OpenFailsOwn, RestTokens
  <2>4. CASE Welcome(m)
    <3>1. \A k \in Managers : mpc'[k] # "close"
      BY <1>0, <2>4 DEF Welcome, Leave, Goto
    <3> QED
      BY <1>0, <2>4, <3>1, WelcomeOwn, WelcomeTokens
  <2>5. ASSUME NEW next \in {"read", "handle", "again"}, Loops(m),
               mpc' = [mpc EXCEPT ![m] = next], UNCHANGED <<peer, fd, table>>
        PROVE  OwnInv' /\ \A k \in Managers : mpc'[k] # "close"
    BY <1>0, <2>5, LoopOwn DEF Loops
  <2>6. CASE Read(m)
    <3>1. /\ Loops(m) /\ mpc' = [mpc EXCEPT ![m] = "handle"]
          /\ UNCHANGED <<peer, fd, table>>
      BY <2>6 DEF Read, Goto, Loops, queueVars
    <3> QED
      BY <1>0, <2>5, <2>6, <3>1, ReadTokens
  <2>7. CASE Ignore(m)
    <3>1. /\ Loops(m) /\ mpc[m] = "handle" /\ mpc' = [mpc EXCEPT ![m] = "read"]
          /\ UNCHANGED <<peer, fd, table, pipe, asked, read_buffer, cpc, twice>>
      BY <2>7 DEF Ignore, Goto, Loops, queueVars, clientVars, fifoVars, listVars
    <3>2. /\ \A k \in Managers : Loops(k) => Loops(k)' /\ peer'[k] = peer[k]
          /\ \A k \in Managers : mpc'[k] = "handle" => mpc[k] = "handle" /\ peer'[k] = peer[k]
      BY <1>0, <3>1 DEF Loops
    <3> QED
      BY <1>0, <2>5, <3>1, <3>2, RestTokens
  <2>8. CASE Subscribe(m) \/ SubscribeAgain(m) \/ Unsubscribe(m)
    <3>1. /\ Loops(m) /\ UNCHANGED <<peer, fd, table>>
          /\ \E next \in {"read", "again"} : mpc' = [mpc EXCEPT ![m] = next]
      BY <2>8 DEF Subscribe, SubscribeAgain, Unsubscribe, Handles, Goto, Loops, queueVars
    <3> QED
      BY <1>0, <2>5, <2>8, <3>1, CommandTokens
\* After these parted is not empty.
  <2>9. CASE Disconnect(m)
    BY <2>9 DEF Disconnect
  <2>10. CASE Close(m)
    BY <1>0, <2>10 DEF Close, Goto
  <2> QED
    BY <1>3, <2>1, <2>2, <2>3, <2>4, <2>6, <2>7, <2>8, <2>9, <2>10 DEF Manager
<1>4. ASSUME NEW c \in Clients,
             Client(c) \/ Exit(c) \/ \E r \in Requests : Ask(c, r)
      PROVE  /\ \A m \in Managers : mpc'[m] # "close"
             /\ OwnInv' /\ AnswerInv' /\ TokenInv'
  <2>1. CASE OpenNext(c)
    <3>1. UNCHANGED <<mpc, peer, fd, pipe, asked, read_buffer, cpc, twice>>
      BY <2>1 DEF OpenNext, queueVars, managerVars, clientVars
    <3> QED
      BY <1>0, <1>1, <2>1, <3>1, OpenNextOwn
  <2>2. ASSUME Receive(c) \/ Exit(c) \/ \E r \in Requests : Ask(c, r)
        PROVE  ManagersRest
    BY <2>2 DEF Receive, Exit, Ask, ManagersRest, queueVars, managerVars
  <2>3. CASE Receive(c) \/ Exit(c) \/ \E r \in Requests : Ask(c, r)
    <3>1. OwnInv' /\ \A m \in Managers : mpc'[m] # "close"
      BY <1>0, <2>2, <2>3, RestOwn DEF ManagersRest
    <3> QED
      BY <1>0, <2>3, <3>1, ReceiveTokens, ExitTokens, AskTokens
  <2> QED
    BY <1>4, <2>1, <2>3 DEF Client
<1>5. CASE UNCHANGED vars
  <2>1. ManagersRest /\ UNCHANGED <<pipe, asked, read_buffer, cpc, twice>>
    BY <1>5 DEF vars, queueVars, managerVars, clientVars, fifoVars, ManagersRest
  <2> QED
    BY <1>0, <1>1, <2>1, RestOwn DEF ManagersRest
<1> QED
  BY <1>2, <1>3, <1>4, <1>5 DEF Next

LEMMA NextAInv == AInv /\ [Next]_vars => AInv'
<1> SUFFICES ASSUME AInv, [Next]_vars PROVE AInv'
  OBVIOUS
<1>1. EndsInv' /\ BufferInv' /\ AskedInv' /\ AgainInv'
  BY NextEnds, NextBuffer, NextAsked, NextAgain DEF AInv, EndsInv
<1>2. parted \subseteq parted'
  BY DEF Next, Host, HostRead, HostEof, Manager, Take, Open, OpenFails, Welcome, Read,
         Ignore, Subscribe, SubscribeAgain, Unsubscribe, Disconnect, Close, Handles,
         Client, OpenNext, Receive, Exit, Ask, vars, managerVars, listVars
<1>3. QuietInv'
  <2> SUFFICES ASSUME parted' = {}
               PROVE  /\ \A m \in Managers : mpc'[m] # "close"
                      /\ OwnInv' /\ AnswerInv' /\ TokenInv'
    BY DEF QuietInv
  <2> QED
    BY <1>2, NextQuiet
<1> QED
  BY <1>1, <1>3 DEF AInv

LEMMA InitAInv == Init => AInv
<1> SUFFICES ASSUME Init PROVE AInv
  OBVIOUS
<1>1. TInv
  BY InitTInv
<1>2. ClientEndInv /\ OtherEndInv /\ BufferInv /\ AskedInv /\ AgainInv
  BY DEF Init, ClientEndInv, OtherEndInv, BufferInv, AskedInv, AgainInv
<1>3. \A c \in Clients : Asking(c) = <<>> /\ Answers(c) = <<>> /\ Replies(c) = {}
  <2> SUFFICES ASSUME NEW c \in Clients
               PROVE  Asking(c) = <<>> /\ Answers(c) = <<>> /\ Replies(c) = {}
    OBVIOUS
  <2>1. <<c, "request">> \in Fifos /\ <<c, "response">> \in Fifos
    BY <1>1, FifoTypes
  <2>2. pipe = [f \in Fifos |-> <<>>]
    BY DEF Init
  <2>3. Asking(c) = <<>> /\ Answers(c) = <<>>
    BY <2>1, <2>2 DEF Asking, Answers
  <2>4. DOMAIN <<>> = {}
    OBVIOUS
  <2> QED
    BY <2>3, <2>4 DEF Replies
<1>4. AnswerInv /\ TokenInv
  BY <1>3 DEF Init, AnswerInv, TokenInv, Token, Handling
<1>5. OwnInv /\ \A m \in Managers : mpc[m] # "close"
  BY DEF Init, OwnInv
<1> QED
  BY <1>1, <1>2, <1>4, <1>5 DEF AInv, EndsInv, QuietInv

\* Several managers may serve one client, and all clients share the server's
\* descriptors; yet before the first DISCONNECT whatever a client is told comes
\* from a manager of its own, and one that has not subscribed to a key without
\* an entry is told at most once, about what it asked (main.c:446-510).
THEOREM AnswersAreOwn == Spec => []AnswersFollowRequests
<1>1. Spec => []AInv
  BY InitAInv, NextAInv, PTL DEF Spec
<1>2. AInv => AnswersFollowRequests
  BY DEF AInv, QuietInv, AnswerInv, TokenInv, Token, AnswersFollowRequests
<1> QED
  BY <1>1, <1>2, PTL
=============================================================================
