------------------------------ MODULE Sessions ------------------------------
(***************************************************************************)
(* Managers and clients once the jobs are done: how they open the three    *)
(* named fifos of a connection, and the command loop of a manager, as in   *)
(* manager_thread_handler of server/main.c and kvs_connect of              *)
(* client/api.c.                                                           *)
(*                                                                         *)
(* Opening a fifo returns when somebody has, or is opening, its other end. *)
(* A fifo is <<client, what the manager takes it for>>; on the way through *)
(* the connection queue the first two names were exchanged (ConnQueue), so *)
(* kvs_connect opens the manager's response fifo as its request fifo.      *)
(*                                                                         *)
(* Fifos have names, and any process may register with the server.  A      *)
(* client not in Own is a process that names and opens its fifos the way   *)
(* the manager does and sends whole requests of 42 bytes.                  *)
(*                                                                         *)
(* Descriptors are numbers in one table of the server; a new one gets the  *)
(* least free number, before the open that asks for it returns.            *)
(*                                                                         *)
(* The host puts the last message it has read into the queue again and     *)
(* again while nobody writes another (Registration).                       *)
(*                                                                         *)
(* Three pointers are followed that nothing ever set: a manager's key_list,*)
(* the head of a key's list of subscribers, and table[-1].  Following one  *)
(* crashes the server, or memory is taken for a list that holds anything;  *)
(* of table[-1], which is the size of a chunk of malloc, only the crash.   *)
(* (A list without an end is a manager that takes no more steps, which     *)
(* Spec always allows.)                                                    *)
(***************************************************************************)
EXTENDS Integers, Sequences, FiniteSetsExt, SequencesExt

CONSTANTS
    Clients,
    Own,        \* those that run client/main.c
    Managers,
    MAX_SESSION_COUNT,  \* places in the connection queue
    Requests,   \* what clients ask: an op and a key
    MaxReplays, \* repetitions of a message by the host (a bound)
    MaxRequests,\* requests a client sends (a bound)
    Stored,     \* keys the jobs have left in the table
    Wild,       \* those of them whose subscriber list is a wild pointer
    NoBucket,   \* keys whose hash is -1
    Capacity,   \* messages a fifo holds
    Descriptors,\* as many numbers as can be in use
    NoClient,
    Closed,     \* a descriptor that denotes nothing
    Nothing     \* no request

\* What open returns when it fails: -1 in the code.
Failed == 0

\* The signals that may kill the server, or none.
Alive == "alive"
SIGPIPE == "SIGPIPE"
SIGSEGV == "SIGSEGV"

Ops == {"subscribe", "unsubscribe", "disconnect", "unknown"}

Fifos == Clients \X {"request", "response", "notification"}

\* An end of a fifo: whose open waits, is about to return, or has returned.
End == [fifo : Fifos, mode : {"r", "w"}, state : {"waits", "ready", "open"}]

ASSUME SessionsAssumption ==
    /\ Own \subseteq Clients
    /\ \A r \in Requests : r.op \in Ops
    /\ Wild \subseteq Stored /\ Stored \cap NoBucket = {}
    /\ NoClient \notin Clients /\ Closed \notin End /\ Nothing \notin Requests
    /\ MAX_SESSION_COUNT \in Nat \ {0} /\ Capacity \in Nat \ {0}
    /\ MaxRequests \in Nat /\ MaxReplays \in Nat
    /\ Descriptors \subseteq Nat \ {Failed} /\ IsFiniteSet(Descriptors)

\* Who opens what, and in which order.
ManagerOpens ==
    <<<<"request", "r">>, <<"response", "w">>, <<"notification", "w">>>>

ClientOpens(c) ==
    IF c \in Own
    THEN <<<<"response", "w">>, <<"request", "r">>, <<"notification", "w">>>>
    ELSE <<<<"request", "w">>, <<"response", "r">>, <<"notification", "r">>>>

VARIABLES
    last,       \* the client whose message the host read last
    replays,    \* how often it has put it into the queue again
    queue,      \* the connection queue
    peer,       \* the client each manager has taken from it
    mpc,        \* where each manager stands
    fd,         \* its fd_request, fd_response and fd_notification
    table,      \* what the descriptors of the server denote
    read_buffer,\* the request a manager has in its buffer
    intr,       \* managers whose uninitialised `intr' is not 0
    key_list,   \* "null", or not initialised: then each use of it is a guess
    cpc,        \* where each client stands
    ends,       \* the ends it has, by the order of its opens
    asked,      \* the request it waits for the answer of
    sent,       \* how many requests it has sent
    pipe,       \* what is in the fifos
    crashed     \* what has killed the server

\* History, for the properties only.
VARIABLES
    parted,     \* managers that have handled a DISCONNECT
    twice       \* clients that one SUBSCRIBE has been answered twice

hostVars == <<last, replays>>
queueVars == <<queue, peer>>
managerVars == <<mpc, fd, read_buffer, intr, key_list, parted, twice>>
listVars == <<intr, key_list, parted, twice>>
clientVars == <<cpc, asked, sent>>
fifoVars == <<table, ends, pipe>>
vars == <<hostVars, queueVars, managerVars, clientVars, fifoVars, crashed>>

Queue == INSTANCE Fifo WITH
           Items <- Clients, Takers <- Managers, Nothing <- NoClient,
           Capacity <- MAX_SESSION_COUNT, buffer <- queue, taken <- peer

Init ==
    /\ last = NoClient /\ replays = 0
    /\ Queue!Init
    /\ mpc = [m \in Managers |-> "take"]
    /\ fd = [m \in Managers |-> <<>>]
    /\ table = [n \in Descriptors |-> Closed]
    /\ read_buffer = [m \in Managers |-> Nothing]
    /\ intr \in SUBSET Managers
    /\ cpc = [c \in Clients |-> "start"]
    /\ ends = [c \in Clients |-> <<>>]
    /\ asked = [c \in Clients |-> Nothing]
    /\ sent = [c \in Clients |-> 0]
    /\ pipe = [f \in Fifos |-> <<>>]
    /\ crashed = Alive
    /\ key_list = [m \in Managers |-> "unset"]
    /\ parted = {} /\ twice = {}

-----------------------------------------------------------------------------
(* Opening a fifo: of the server's descriptors and the clients' ends. *)

\* The end of f that somebody has, or is about to have.
Present(f, mode, tab, cl) ==
    \/ \E n \in Descriptors :
          tab[n] # Closed /\ tab[n].fifo = f /\ tab[n].mode = mode
    \/ \E c \in Clients : \E i \in DOMAIN cl[c] :
          cl[c][i].fifo = f /\ cl[c][i].mode = mode

Other(mode) == IF mode = "r" THEN "w" ELSE "r"

\* MUTANT: opened with O_NONBLOCK.
NewEndAtOnce(f, mode) == [fifo |-> f, mode |-> mode, state |-> "ready"]

NewEnd(f, mode) ==
    [fifo |-> f, mode |-> mode,
     state |-> IF Present(f, Other(mode), table, ends) THEN "ready" ELSE "waits"]

\* Whoever waits at the other end of f is let through.
Awake(e, f, mode) ==
    IF e = Closed THEN e
    ELSE IF e.fifo = f /\ e.mode = Other(mode) /\ e.state = "waits"
         THEN [e EXCEPT !.state = "ready"] ELSE e

ServerOpen(tab, n, f, mode) ==
    /\ table' = [[i \in Descriptors |-> Awake(tab[i], f, mode)]
                   EXCEPT ![n] = NewEnd(f, mode)]
    /\ ends' = [c \in Clients |->
                  [i \in DOMAIN ends[c] |-> Awake(ends[c][i], f, mode)]]

ClientOpen(c, f, mode) ==
    /\ table' = [i \in Descriptors |-> Awake(table[i], f, mode)]
    /\ ends' = [d \in Clients |->
                  LET old == [i \in DOMAIN ends[d] |-> Awake(ends[d][i], f, mode)]
                  IN  IF d = c THEN Append(old, NewEnd(f, mode)) ELSE old]

\* What is in a fifo that nobody has open is lost.
Drained(tab, cl) ==
    [f \in Fifos |->
       IF Present(f, "r", tab, cl) \/ Present(f, "w", tab, cl)
       THEN pipe[f] ELSE <<>>]

-----------------------------------------------------------------------------
(* The host. *)

\* A message is read and put into the queue in one step: Registration and
\* ConnQueue have the steps between.
HostRead(c) ==
    /\ cpc[c] = "start"
    /\ cpc' = [cpc EXCEPT ![c] = "open"]
    /\ last' = c
    /\ Queue!Put(c)
    /\ UNCHANGED <<replays, managerVars, asked, sent, fifoVars, crashed>>

\* No client has the register fifo open: the same message once more.
HostEof ==
    /\ last # NoClient /\ replays < MaxReplays
    /\ replays' = replays + 1
    /\ Queue!Put(last)
    /\ UNCHANGED <<last, managerVars, clientVars, fifoVars, crashed>>

Host == crashed = Alive /\ ((\E c \in Clients : HostRead(c)) \/ HostEof)

-----------------------------------------------------------------------------
(* A manager: a connection. *)

Goto(m, from, to) == mpc[m] = from /\ mpc' = [mpc EXCEPT ![m] = to]

Take(m) ==
    /\ Goto(m, "take", "open")
    /\ Queue!Take(m)
    /\ UNCHANGED <<hostVars, fd, read_buffer, listVars, clientVars,
                   fifoVars, crashed>>

\* The open the manager waits for, if any, has returned.
Opening(m) == fd[m] # <<>> /\ Last(fd[m]) # Failed

Returned(m) == Opening(m) => table[Last(fd[m])].state = "ready"

\* Its number is good from here on.
Installed(m) ==
    IF Opening(m) THEN [table EXCEPT ![Last(fd[m])].state = "open"] ELSE table

\* The fifos of a client that has gone may be unlinked.
Exists(c) == cpc[c] # "gone"

Free == {i \in Descriptors : table[i] = Closed}

Open(m) ==
    LET what == ManagerOpens[Len(fd[m]) + 1]
        n == Min(Free)
    IN  /\ mpc[m] = "open" /\ Len(fd[m]) < 3 /\ Returned(m) /\ Free # {}
        /\ ServerOpen(Installed(m), n, <<peer[m], what[1]>>, what[2])
        /\ fd' = [fd EXCEPT ![m] = Append(@, n)]
        /\ UNCHANGED <<hostVars, queueVars, mpc, read_buffer, listVars,
                       clientVars, pipe, crashed>>

\* MUTANT: the failure is reported, and the command loop entered all the same.
LeaveForLoop(m, from) ==
    /\ Goto(m, from, "read")
    /\ peer' = [peer EXCEPT ![m] = NoClient]
    /\ fd' = [fd EXCEPT ![m] = <<>>]

\* `continue': the manager goes back to the queue.
Leave(m, from) ==
    /\ Goto(m, from, "take")
    /\ peer' = [peer EXCEPT ![m] = NoClient]
    /\ fd' = [fd EXCEPT ![m] = <<>>]

\* An open that fails ends the connection, and what was opened stays open;
\* but of the response fifo fd_request is tested once more, and the manager
\* goes on with a descriptor that is -1.
OpenFails(m) ==
    /\ mpc[m] = "open" /\ Len(fd[m]) < 3 /\ Returned(m)
    /\ ~Exists(peer[m]) \/ Free = {}
    /\ table' = Installed(m)
    /\ IF Len(fd[m]) = 1
       THEN /\ fd' = [fd EXCEPT ![m] = Append(@, Failed)]
            /\ UNCHANGED <<mpc, peer>>
       ELSE Leave(m, "open")
    /\ UNCHANGED <<hostVars, queue, read_buffer, listVars, clientVars,
                   ends, pipe, crashed>>

-----------------------------------------------------------------------------
(* A manager: its command loop. *)

\* What read and write find: an open that has not returned yet has reserved
\* its number, and that is all.
Denotes(n, mode) ==
    IF n = Failed \/ table[n] = Closed THEN FALSE
    ELSE table[n].state = "open" /\ table[n].mode = mode

\* write_all to a fifo.  With no reader SIGPIPE kills the server, and in a
\* full fifo the write waits.
WriteTo(f, answer) ==
    \/ /\ ~Present(f, "r", table, ends)
       /\ crashed' = SIGPIPE
       /\ UNCHANGED pipe
    \/ /\ Present(f, "r", table, ends)
       /\ Len(pipe[f]) < Capacity
       /\ pipe' = [pipe EXCEPT ![f] = Append(@, answer)]
       /\ UNCHANGED crashed

\* write_all on a descriptor: it fails if that is not open for writing.
Write(n, answer) ==
    IF Denotes(n, "w") THEN WriteTo(table[n].fifo, answer)
                       ELSE UNCHANGED <<pipe, crashed>>

fd_request(m) == fd[m][1]

\* MUTANT: one fd_response for all threads, as in client/api.c.
FdResponseGlobal(m) == fd[CHOOSE k \in Managers : Len(fd[k]) >= 2][2]

fd_response(m) == fd[m][2]

\* What m writes; the request it is about is not part of the message.
Answer(m, op, request) == [op |-> op, from |-> m, to |-> request]

\* Without the descriptor the connection ends here.
Welcome(m) ==
    /\ mpc[m] = "open" /\ Len(fd[m]) = 3 /\ Returned(m)
    /\ IF Denotes(fd_response(m), "w")
       THEN Goto(m, "open", "read") /\ UNCHANGED <<peer, fd>>
       ELSE Leave(m, "open")
    /\ Write(fd_response(m), Answer(m, "connect", Nothing))
    /\ table' = Installed(m)
    /\ UNCHANGED <<hostVars, queue, read_buffer, listVars, clientVars, ends>>

\* read_all fails, at once and without a look at the fifo, when intr is set;
\* it fails too on a descriptor that is not open for reading.
ReadFails(m) == m \in intr \/ ~Denotes(fd_request(m), "r")

\* Whatever it returns, the loop goes on with what is in the buffer.
Read(m) ==
    /\ Goto(m, "read", "handle")
    /\ IF ReadFails(m)
       THEN UNCHANGED <<read_buffer, pipe>>
       ELSE LET f == table[fd_request(m)].fifo
            IN  \/ /\ pipe[f] # <<>>
                   /\ read_buffer' = [read_buffer EXCEPT ![m] = Head(pipe[f])]
                   /\ pipe' = [pipe EXCEPT ![f] = Tail(@)]
                \/ /\ pipe[f] = <<>> /\ ~Present(f, "w", table, ends)
                   /\ UNCHANGED <<read_buffer, pipe>>
    /\ UNCHANGED <<hostVars, queueVars, fd, listVars, clientVars,
                   table, ends, crashed>>

\* Before the first request the buffer holds none of the opcodes.
opcode(m) == IF read_buffer[m] = Nothing THEN "unknown" ELSE read_buffer[m].op

Handles(m, op, next) ==
    /\ opcode(m) = op
    /\ Goto(m, "handle", next)
    /\ UNCHANGED <<hostVars, queueVars, fd, read_buffer, intr, clientVars,
                   table, ends>>

\* An opcode that the switch does not know.
Ignore(m) ==
    /\ opcode(m) = "unknown"
    /\ Goto(m, "handle", "read")
    /\ UNCHANGED <<hostVars, queueVars, fd, read_buffer, listVars,
                   clientVars, fifoVars, crashed>>

\* A pointer that cannot be followed.
Crash == crashed' = SIGSEGV /\ UNCHANGED <<key_list, pipe>>

\* The answer to the request in the buffer.
Reply(m, op) == Write(fd_response(m), Answer(m, op, read_buffer[m]))

\* append_list_node_key looks for the end of key_list, and kvs_subscribe for
\* that of the key's list.  A key that is not stored has none, and gets an
\* answer that says so before the one that every key gets.
Subscribe(m) ==
    LET key == read_buffer[m].key
        stored == key \in Stored
    IN  /\ Handles(m, "subscribe", IF stored THEN "read" ELSE "again")
        /\ twice' = IF stored THEN twice ELSE twice \cup {peer[m]}
        /\ UNCHANGED parted
        /\ \/ Crash
           \/ /\ key_list[m] = "unset"
              /\ key \notin NoBucket /\ (stored => key \in Wild)
              /\ Reply(m, IF stored THEN "31" ELSE "30")
              /\ UNCHANGED key_list

SubscribeAgain(m) ==
    /\ Goto(m, "again", "read")
    /\ Reply(m, "31")
    /\ UNCHANGED <<hostVars, queueVars, fd, read_buffer, listVars, clientVars,
                   table, ends>>

\* delete_list_node_key looks for the key in key_list; the first node it may
\* free, and key_list points there still.  kvs_unsubscribe follows the head of
\* the key's list when it finds the key, and returns 0 when it does not.
Unsubscribe(m) ==
    LET key == read_buffer[m].key
    IN  /\ Handles(m, "unsubscribe", "read")
        /\ UNCHANGED <<parted, twice>>
        /\ \/ /\ key_list[m] = "unset" \/ key \in Wild \cup NoBucket
              /\ Crash
           \/ /\ key \notin NoBucket
              /\ Reply(m, IF key \in Stored THEN "41" ELSE "40")
              /\ UNCHANGED key_list

\* The walk along key_list, whose nodes may hold any key, leaves it null.
Disconnect(m) ==
    /\ Handles(m, "disconnect", "close")
    /\ parted' = parted \cup {m}
    /\ UNCHANGED twice
    /\ \/ key_list[m] = "unset" /\ Crash
       \/ /\ key_list' = [key_list EXCEPT ![m] = "null"]
          /\ Reply(m, "20")

\* close of the three numbers, whatever they denote by now.  `break' leaves
\* the switch; the loop goes on with the numbers and the buffer it has.
Close(m) ==
    /\ Goto(m, "close", "read")
    /\ table' = [n \in Descriptors |->
                   IF n \in ToSet(fd[m])
                      /\ (Denotes(n, "r") \/ Denotes(n, "w"))
                   THEN Closed ELSE table[n]]
    /\ pipe' = Drained(table', ends)
    /\ UNCHANGED <<hostVars, queueVars, fd, read_buffer, listVars,
                   clientVars, ends, crashed>>

Manager(m) ==
    /\ crashed = Alive
    /\ \/ Take(m) \/ Open(m) \/ OpenFails(m) \/ Welcome(m)
       \/ Read(m) \/ Ignore(m) \/ Subscribe(m) \/ SubscribeAgain(m)
       \/ Unsubscribe(m) \/ Disconnect(m) \/ Close(m)

-----------------------------------------------------------------------------
(* A client. *)

ClientGoto(c, from, to) == cpc[c] = from /\ cpc' = [cpc EXCEPT ![c] = to]

\* Its last open has returned.
ClientReturned(c) == ends[c] # <<>> => Last(ends[c]).state = "ready"

OpenNext(c) ==
    LET what == ClientOpens(c)[Len(ends[c]) + 1]
    IN  /\ cpc[c] = "open" /\ Len(ends[c]) < 3 /\ ClientReturned(c)
        /\ ClientOpen(c, <<c, what[1]>>, what[2])
        /\ UNCHANGED <<hostVars, queueVars, managerVars, clientVars, pipe,
                       crashed>>

Answers(c) == pipe[<<c, "response">>]

\* The client reads one message: the welcome, of which there is one for each
\* manager that has taken it, or the answer it waits for.
Receive(c) ==
    /\ cpc[c] \in {"open", "connected"}
    /\ Len(ends[c]) = 3 /\ ClientReturned(c)
    /\ Answers(c) # <<>>
    /\ pipe' = [pipe EXCEPT ![<<c, "response">>] = Tail(@)]
    /\ cpc' = [cpc EXCEPT ![c] = "connected"]
    /\ asked' = [asked EXCEPT ![c] =
                   IF Head(Answers(c)).op = "connect" THEN @ ELSE Nothing]
    /\ UNCHANGED <<hostVars, queueVars, managerVars, sent, table, ends, crashed>>

\* A client that disconnects asks for nothing more.
Ask(c, r) ==
    /\ crashed = Alive /\ cpc[c] = "connected" /\ asked[c] = Nothing
    /\ Present(<<c, "request">>, "r", table, ends)
    /\ Len(pipe[<<c, "request">>]) < Capacity
    /\ sent[c] < MaxRequests
    /\ sent' = [sent EXCEPT ![c] =
                  IF r.op = "disconnect" THEN MaxRequests ELSE @ + 1]
    /\ asked' = [asked EXCEPT ![c] = r]
    /\ pipe' = [pipe EXCEPT ![<<c, "request">>] = Append(@, r)]
    /\ UNCHANGED <<hostVars, queueVars, managerVars, cpc, table, ends, crashed>>

\* The client ends, or is killed: SIGPIPE among others.
Exit(c) ==
    /\ crashed = Alive
    /\ ClientGoto(c, "connected", "gone")
    /\ ends' = [ends EXCEPT ![c] = <<>>]
    /\ asked' = [asked EXCEPT ![c] = Nothing]
    /\ sent' = [sent EXCEPT ![c] = 0]
    /\ pipe' = Drained(table, ends')
    /\ UNCHANGED <<hostVars, queueVars, managerVars, table, crashed>>

Client(c) == crashed = Alive /\ (OpenNext(c) \/ Receive(c))

-----------------------------------------------------------------------------
Next ==
    \/ Host
    \/ \E m \in Managers : Manager(m)
    \/ \E c \in Clients : Client(c) \/ Exit(c) \/ \E r \in Requests : Ask(c, r)

Spec == Init /\ [][Next]_vars

\* Host and managers go on when they can, and a client opens its fifos and
\* reads what it is sent.  No client need ask anything, or leave.
Fairness ==
    /\ WF_vars(Host)
    /\ \A m \in Managers : WF_vars(Manager(m))
    /\ \A c \in Clients : WF_vars(Client(c))

FairSpec == Spec /\ Fairness

-----------------------------------------------------------------------------
(* Properties *)

Message ==
    [op : {"connect", "20", "30", "31", "40", "41"}, from : Managers,
     to : Requests \cup {Nothing}]

TypeOK ==
    /\ last \in Clients \cup {NoClient} /\ replays \in 0..MaxReplays
    /\ queue \in Seq(Clients) /\ Len(queue) <= MAX_SESSION_COUNT
    /\ peer \in [Managers -> Clients \cup {NoClient}]
    /\ mpc \in [Managers -> {"take", "open", "read", "handle", "again", "close"}]
    /\ fd \in [Managers -> Seq(Descriptors \cup {Failed})]
    /\ \A m \in Managers :
          IF mpc[m] \in {"take", "open"} THEN Len(fd[m]) <= 3 ELSE Len(fd[m]) = 3
    /\ table \in [Descriptors -> End \cup {Closed}]
    /\ read_buffer \in [Managers -> Requests \cup {Nothing}]
    /\ intr \subseteq Managers /\ key_list \in [Managers -> {"unset", "null"}]
    /\ parted \subseteq Managers /\ twice \subseteq Clients
    /\ cpc \in [Clients -> {"start", "open", "connected", "gone"}]
    /\ ends \in [Clients -> Seq(End)]
    /\ asked \in [Clients -> Requests \cup {Nothing}]
    /\ sent \in [Clients -> 0..MaxRequests]
    /\ pipe \in [Fifos -> Seq(Requests) \cup Seq(Message)]
    /\ \A f \in Fifos :
          /\ pipe[f] \in Seq(IF f[2] = "request" THEN Requests ELSE Message)
          /\ Len(pipe[f]) <= Capacity
    /\ crashed \in {Alive, SIGPIPE, SIGSEGV}

\* What a client can be told in return: either answer that its request has.
Fits(answer, request) ==
    /\ request # Nothing /\ answer.to = request
    /\ \/ request.op = "subscribe" /\ answer.op \in {"30", "31"}
       \/ request.op = "unsubscribe" /\ answer.op \in {"40", "41"}
       \/ request.op = "disconnect" /\ answer.op = "20"

\* Where the answers are that are not welcomes.
Replies(c) == {i \in DOMAIN Answers(c) : Answers(c)[i].op # "connect"}

\* Several managers may serve one client and many clients share the table of
\* descriptors; yet until the first DISCONNECT an answer reaches the client
\* that asked, from a manager of its own, once, and answers its last request,
\* unless the client has subscribed to a key that is not stored.
AnswersFollowRequests ==
    parted = {} =>
       \A c \in Clients :
          /\ \A i \in DOMAIN Answers(c) : peer[Answers(c)[i].from] = c
          /\ cpc[c] = "connected" /\ c \notin twice =>
                /\ \A i \in Replies(c) : Fits(Answers(c)[i], asked[c])
                /\ \A i, j \in Replies(c) : i = j

\* The manager has a request for which it may follow a pointer nobody has set.
Strays(m) ==
    \/ opcode(m) = "subscribe"
    \/ /\ opcode(m) = "unsubscribe"
       /\ key_list[m] = "unset" \/ read_buffer[m].key \in Wild \cup NoBucket
    \/ opcode(m) = "disconnect" /\ key_list[m] = "unset"

\* A write to a fifo without a reader kills the server only if a client has
\* gone: nobody who stays is taken for one that has, not even by a manager that
\* goes on, after DISCONNECT, with descriptors that are now somebody else's.
\* Nothing else does but a request for which a pointer is followed that nobody
\* has set.
DeathHasCause ==
    /\ crashed = SIGPIPE => \E c \in Clients : cpc[c] = "gone"
    /\ crashed = SIGSEGV => \E m \in Managers : Strays(m)

\* main.c:437: "process the commands sent by the client in the request fifo".
\* A client that has registered comes to have its session.
ClientsConnect ==
    \A c \in Clients : (cpc[c] # "start") ~> (cpc[c] \in {"connected", "gone"})
=============================================================================
