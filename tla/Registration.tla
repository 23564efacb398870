---------------------------- MODULE Registration ----------------------------
(***************************************************************************)
(* The register fifo: clients write their CONNECT message to it (kvs_      *)
(* connect in client/api.c), the host thread cuts the byte stream back     *)
(* into messages (manages_register_fifo and read_all) and puts each into   *)
(* the connection queue, of which Fifo says what it promises.              *)
(*                                                                         *)
(* The host asks for one byte more than a message has.  With one client at *)
(* a time the end of file cuts that read short; with two, the byte is the  *)
(* first one of the next message.                                          *)
(*                                                                         *)
(* A byte is <<client, position in its message>>.                          *)
(***************************************************************************)
EXTENDS Integers, Sequences, FiniteSets

CONSTANTS
    Clients,   \* each connects once
    Managers,  \* who takes from the connection queue
    Capacity,  \* its places
    MsgLen,    \* 122 in client/api.c
    ReadLen,   \* 123 in main.c
    Ones,      \* the positions of a message that hold a 1, as the opcode does
    NoByte,    \* content of the buffer before anything is read into it
    Nothing    \* no request in a manager's hands

Byte == Clients \X (1 .. MsgLen)
Message(c) == [i \in 1 .. MsgLen |-> <<c, i>>]

\* The names extracted from the buffer: what follows the opcode.
Names(b) == [i \in 2 .. MsgLen |-> b[i]]

ASSUME RegistrationAssumption ==
    /\ MsgLen \in Nat \ {0} /\ ReadLen \in Nat /\ ReadLen >= MsgLen
    /\ Ones \subseteq 1 .. MsgLen /\ 1 \in Ones
    /\ NoByte \notin Byte

VARIABLES
    cpc,         \* where each client stands in kvs_connect
    fifo,        \* the bytes in the register fifo
    hpc,         \* where the host stands
    bytes_read,  \* of read_all
    buffer,      \* of the host
    queue,       \* the connection queue
    taken        \* the request each manager has taken

\* History, for the properties only.
VARIABLES
    aligned,    \* clients whose message found the fifo empty, between two reads
    swallowed,  \* those of whose message the first byte was read behind others
    extracted,  \* clients whose message the host has extracted
    again       \* those it has extracted more than once

Queue == INSTANCE Fifo WITH
           Items    <- [2 .. MsgLen -> Byte \cup {NoByte}],
           Takers   <- Managers,
           buffer   <- queue

clientVars == <<cpc, aligned>>
hostVars == <<hpc, bytes_read, buffer>>
queueVars == <<queue, taken>>
historyVars == <<extracted, again>>
vars == <<clientVars, fifo, hostVars, queueVars, swallowed, historyVars>>

Init ==
    /\ cpc = [c \in Clients |-> "start"]
    /\ fifo = <<>>
    /\ hpc = "start"
    /\ bytes_read = 0
    /\ buffer = [i \in 1 .. ReadLen |-> NoByte]
    /\ Queue!Init
    /\ aligned = {} /\ swallowed = {} /\ extracted = {} /\ again = {}

-----------------------------------------------------------------------------
(* A client. *)

Goto(c, from, to) == cpc[c] = from /\ cpc' = [cpc EXCEPT ![c] = to]

\* Opening for writing blocks until the host has begun to open for reading.
ClientOpen(c) ==
    /\ hpc \notin {"start", "failed"}
    /\ Goto(c, "start", "open")
    /\ UNCHANGED <<fifo, aligned, hostVars, queueVars, swallowed, historyVars>>

\* A message is shorter than PIPE_BUF, so it is written in one piece.
ClientWrite(c) ==
    /\ Goto(c, "open", "written")
    /\ fifo' = fifo \o Message(c)
    /\ aligned' = IF fifo = <<>> /\ ~(hpc = "read" /\ bytes_read > 0) THEN aligned \cup {c}
                  ELSE aligned
    /\ UNCHANGED <<hostVars, queueVars, swallowed, historyVars>>

ClientClose(c) ==
    /\ Goto(c, "written", "closed")
    /\ UNCHANGED <<fifo, aligned, hostVars, queueVars, swallowed, historyVars>>

Writers == {c \in Clients : cpc[c] \in {"open", "written"}}

-----------------------------------------------------------------------------
(* The host. *)

HostGoto(from, to) == hpc = from /\ hpc' = to

HostOpening ==
    /\ HostGoto("start", "opening")
    /\ UNCHANGED <<clientVars, fifo, bytes_read, buffer, queueVars, swallowed, historyVars>>

\* Opening for reading blocks until some client has opened for writing.
HostOpen ==
    /\ \E c \in Clients : cpc[c] # "start"
    /\ HostGoto("opening", "read")
    /\ UNCHANGED <<clientVars, fifo, bytes_read, buffer, queueVars, swallowed, historyVars>>

\* An open that fails has let no client in.  From here on the host only
\* prints that reading has failed.
HostOpenFails ==
    /\ cpc = [c \in Clients |-> "start"]
    /\ HostGoto("opening", "failed")
    /\ UNCHANGED <<clientVars, fifo, bytes_read, buffer, queueVars, swallowed, historyVars>>

Least(m, n) == IF m < n THEN m ELSE n

\* Clients whose message begins among the next n bytes, but not at the start
\* of the buffer.
Behind(n) == {c \in Clients : \E i \in 1 .. n : fifo[i] = <<c, 1>> /\ bytes_read + i # 1}

\* MUTANT: read is given the start of the buffer every time.
ReadToStart ==
    LET n == Least(Len(fifo), ReadLen - bytes_read)
    IN  /\ hpc = "read" /\ fifo # <<>>
        /\ buffer' = [i \in 1 .. ReadLen |-> IF i <= n THEN fifo[i] ELSE buffer[i]]
        /\ fifo' = SubSeq(fifo, n + 1, Len(fifo))
        /\ bytes_read' = bytes_read + n
        /\ swallowed' = swallowed \cup Behind(n)
        /\ hpc' = IF bytes_read' = ReadLen THEN "extract" ELSE "read"
        /\ UNCHANGED <<clientVars, queueVars, historyVars>>

\* MUTANT: read is asked for the whole size every time.
ReadWholeSize ==
    LET n == Least(Len(fifo), ReadLen)
    IN  /\ hpc = "read" /\ fifo # <<>>
        /\ buffer' = [i \in 1 .. ReadLen |->
                        IF i \in bytes_read + 1 .. bytes_read + n
                        THEN fifo[i - bytes_read] ELSE buffer[i]]
        /\ fifo' = SubSeq(fifo, n + 1, Len(fifo))
        /\ bytes_read' = bytes_read + n
        /\ swallowed' = swallowed \cup Behind(n)
        /\ hpc' = IF bytes_read' >= ReadLen THEN "extract" ELSE "read"
        /\ UNCHANGED <<clientVars, queueVars, historyVars>>

\* read_all: what is there, but no more than still missing.
HostRead ==
    LET n == Least(Len(fifo), ReadLen - bytes_read)
    IN  /\ hpc = "read" /\ fifo # <<>>
        /\ buffer' = [i \in 1 .. ReadLen |->
                        IF i \in bytes_read + 1 .. bytes_read + n
                        THEN fifo[i - bytes_read] ELSE buffer[i]]
        /\ fifo' = SubSeq(fifo, n + 1, Len(fifo))
        /\ bytes_read' = bytes_read + n
        /\ swallowed' = swallowed \cup Behind(n)
        /\ hpc' = IF bytes_read' = ReadLen THEN "extract" ELSE "read"
        /\ UNCHANGED <<clientVars, queueVars, historyVars>>

\* read_all returns 0 at the end of the file; the host only looks for -1,
\* and goes on with the buffer as it is.
HostEof ==
    /\ fifo = <<>> /\ Writers = {}
    /\ HostGoto("read", "extract")
    /\ UNCHANGED <<clientVars, fifo, bytes_read, buffer, queueVars, swallowed, historyVars>>

IsConnect == buffer[1] # NoByte /\ buffer[1][2] \in Ones

\* MUTANT: bytes_read is kept for the next call of read_all.
ExtractNoReset ==
    /\ HostGoto("extract", IF IsConnect THEN "enqueue" ELSE "read")
    /\ IF IsConnect
       THEN /\ extracted' = extracted \cup {buffer[1][1]}
            /\ again' = again \cup ({buffer[1][1]} \cap extracted)
       ELSE UNCHANGED historyVars
    /\ UNCHANGED <<clientVars, fifo, bytes_read, buffer, queueVars, swallowed>>

\* The opcode is looked at; the next read_all starts counting anew.
HostExtract ==
    /\ HostGoto("extract", IF IsConnect THEN "enqueue" ELSE "read")
    /\ bytes_read' = 0
    /\ IF IsConnect
       THEN /\ extracted' = extracted \cup {buffer[1][1]}
            /\ again' = again \cup ({buffer[1][1]} \cap extracted)
       ELSE UNCHANGED historyVars
    /\ UNCHANGED <<clientVars, fifo, buffer, queueVars, swallowed>>

\* It waits while the queue is full.
HostEnqueue ==
    /\ HostGoto("enqueue", "read")
    /\ Queue!Put(Names(buffer))
    /\ UNCHANGED <<clientVars, fifo, bytes_read, buffer, swallowed, historyVars>>

-----------------------------------------------------------------------------
ManagerTake(m) ==
    /\ Queue!Take(m)
    /\ UNCHANGED <<clientVars, fifo, hostVars, swallowed, historyVars>>

ManagerDrop(m) ==
    /\ taken[m] # Nothing
    /\ Queue!Drop(m)
    /\ UNCHANGED <<clientVars, fifo, hostVars, swallowed, historyVars>>

Client(c) == ClientOpen(c) \/ ClientWrite(c) \/ ClientClose(c)
Host ==
    \/ HostOpening \/ HostOpen \/ HostOpenFails
    \/ HostRead \/ HostEof \/ HostExtract \/ HostEnqueue

Next ==
    \/ \E c \in Clients : Client(c)
    \/ Host
    \/ \E m \in Managers : ManagerTake(m) \/ ManagerDrop(m)

Spec == Init /\ [][Next]_vars

\* The host runs when it can, and a client that has opened writes and closes.
\* Nothing is assumed of the managers: each may stay with a client for ever.
Fairness ==
    /\ WF_vars(Host)
    /\ \A c \in Clients : WF_vars(ClientWrite(c) \/ ClientClose(c))

FairSpec == Spec /\ Fairness
-----------------------------------------------------------------------------
(* Properties *)

TypeOK ==
    /\ cpc \in [Clients -> {"start", "open", "written", "closed"}]
    /\ fifo \in Seq(Byte)
    /\ hpc \in {"start", "opening", "failed", "read", "extract", "enqueue"}
    /\ bytes_read \in 0 .. ReadLen
    /\ buffer \in [1 .. ReadLen -> Byte \cup {NoByte}]
    /\ aligned \subseteq Clients /\ swallowed \subseteq Clients /\ extracted \subseteq Clients
    /\ again \subseteq extracted

\* The three names the host enqueues are those of one client's message, even
\* when messages run into each other or an end of file leaves the buffer
\* partly overwritten (read_all and the test of the opcode).
NamesAreOneMessage ==
    hpc = "enqueue" => \E c \in Clients : \A i \in 2 .. MsgLen : buffer[i] = <<c, i>>

\* The host extracts every message that was written, unless the queue is full
\* for ever or the message's first byte was read behind the bytes of another,
\* which read_all, asking for one byte too many, cuts from it (main.c:544).
\* That can only befall a message written behind another one, or into a read
\* that is half-way, and never one that finds the fifo empty between two
\* reads, whatever drift earlier reads have left.
MessagesAreExtracted ==
    \A c \in Clients :
       cpc[c] = "written" ~>
          c \in extracted \/ c \in swallowed \ aligned \/ [](Len(queue) = Capacity)

\* main.c:549, "extracts each part of the mensage sent from the register
\* fifo": no message is extracted that was not sent anew.
ExtractedOnce == again = {}
=============================================================================
