-------------------------- MODULE RegistrationProofs --------------------------
(***************************************************************************)
(* Proofs about Registration, for any number of clients and any length of  *)
(* a message.                                                              *)
(*                                                                         *)
(* NamesAreOneMessage speaks of the buffer only.  It holds because of what *)
(* is true of the stream, the bytes of the current read_all together with  *)
(* those still in the fifo: it is made of whole messages but for its       *)
(* beginning, which each full read moves one byte further into a message;  *)
(* and each such read has used up the message of one client, of which      *)
(* there are only so many.                                                 *)
(***************************************************************************)
EXTENDS Registration, FiniteSetTheorems, SequenceTheorems, TLAPS

\* What the current read_all has read, and after it what it may still read.
StreamLen == bytes_read + Len(fifo)
Stream(i) == IF i <= bytes_read THEN buffer[i] ELSE fifo[i - bytes_read]

InStream(b) == \E i \in 1 .. StreamLen : Stream(i) = b

\* Behind a byte of a message comes the rest of it, and then another one.
WholeMessages ==
    \A i \in 1 .. StreamLen :
       /\ Stream(i) \in Byte
       /\ \A j \in 0 .. MsgLen - Stream(i)[2] :
             /\ i + j <= StreamLen
             /\ Stream(i + j) = <<Stream(i)[1], Stream(i)[2] + j>>
       /\ Stream(i)[2] = MsgLen /\ i < StreamLen => Stream(i + 1)[2] = 1

\* No byte is there twice, and none before its client has written.
NoRepetition ==
    /\ \A i, j \in 1 .. StreamLen : Stream(i) = Stream(j) => i = j
    /\ \A i \in 1 .. StreamLen : cpc[Stream(i)[1]] \in {"written", "closed"}

\* A read_all that is half-way has emptied the fifo.
PartialReads ==
    /\ hpc # "extract" => bytes_read < ReadLen
    /\ bytes_read \in 1 .. ReadLen - 1 => fifo = <<>> \/ fifo[1][2] = 1

\* The clients of whose message the stream has nothing left.
UsedUp ==
    {c \in Clients : cpc[c] \in {"written", "closed"} /\ ~InStream(<<c, MsgLen>>)}

\* How far into a message the stream, and so the buffer, can begin.
Shift ==
    /\ StreamLen > 0 => Stream(1)[2] <= 1 + Cardinality(UsedUp)
    /\ buffer[1] # NoByte => buffer[1][2] <= Cardinality(Clients)

\* A buffer that begins with the first byte of a message holds all of it.
BufferWhole ==
    \A c \in Clients :
       buffer[1] = <<c, 1>> => \A i \in 1 .. MsgLen : buffer[i] = <<c, i>>

\* What is put into the queue has passed the test of the opcode.
Tested == hpc = "enqueue" => IsConnect

IInv ==
    /\ TypeOK
    /\ WholeMessages
    /\ NoRepetition
    /\ PartialReads
    /\ BufferWhole
    /\ Tested

-----------------------------------------------------------------------------
(* What the steps do to the stream. *)

LEMMA Lengths ==
    ASSUME TypeOK
    PROVE  /\ MsgLen \in Nat /\ MsgLen >= 1 /\ ReadLen \in Nat /\ ReadLen >= MsgLen
           /\ bytes_read \in 0 .. ReadLen
           /\ Len(fifo) \in Nat /\ fifo \in Seq(Byte)
           /\ StreamLen \in Nat
           /\ \A i \in 1 .. Len(fifo) : fifo[i] \in Byte
           /\ (fifo = <<>>) <=> Len(fifo) = 0
BY RegistrationAssumption DEF TypeOK, StreamLen

\* A message is a sequence of its bytes.
LEMMA MessageIs ==
    ASSUME NEW c \in Clients, MsgLen \in Nat
    PROVE  /\ Message(c) \in Seq(Byte)
           /\ Len(Message(c)) = MsgLen
           /\ \A i \in 1 .. MsgLen : Message(c)[i] = <<c, i>>
BY DEF Message, Byte

\* A client's write puts its message at the end.
LEMMA WriteGrows ==
    ASSUME TypeOK, NEW c \in Clients, ClientWrite(c)
    PROVE  /\ StreamLen' = StreamLen + MsgLen
           /\ \A i \in 1 .. StreamLen : Stream(i)' = Stream(i)
           /\ \A i \in StreamLen + 1 .. StreamLen + MsgLen :
                 Stream(i)' = <<c, i - StreamLen>>
           /\ fifo' \in Seq(Byte)
           /\ fifo # <<>> => fifo'[1] = fifo[1]
           /\ fifo = <<>> => fifo'[1] = <<c, 1>>
<1>1. /\ Message(c) \in Seq(Byte) /\ Len(Message(c)) = MsgLen
      /\ \A i \in 1 .. MsgLen : Message(c)[i] = <<c, i>>
  BY MessageIs, Lengths
<1>2. fifo' = fifo \o Message(c) /\ buffer' = buffer /\ bytes_read' = bytes_read
  BY DEF ClientWrite, hostVars
<1>3. /\ fifo' \in Seq(Byte) /\ Len(fifo') = Len(fifo) + MsgLen
      /\ \A i \in 1 .. Len(fifo) + MsgLen :
            fifo'[i] = IF i <= Len(fifo) THEN fifo[i] ELSE Message(c)[i - Len(fifo)]
  <2> DEFINE m == Message(c)
  <2>1. m \in Seq(Byte) /\ Len(m) = MsgLen /\ fifo \in Seq(Byte)
    BY <1>1, Lengths
  <2> HIDE DEF m
  <2>2. /\ fifo \o m \in Seq(Byte) /\ Len(fifo \o m) = Len(fifo) + Len(m)
        /\ \A i \in 1 .. Len(fifo) + Len(m) :
              (fifo \o m)[i] = IF i <= Len(fifo) THEN fifo[i] ELSE m[i - Len(fifo)]
    BY <2>1, ConcatProperties
  <2> QED
    BY <1>2, <2>1, <2>2 DEF m
<1>4. StreamLen' = StreamLen + MsgLen
  BY <1>2, <1>3, Lengths DEF StreamLen
<1>5. ASSUME NEW i \in 1 .. StreamLen PROVE Stream(i)' = Stream(i)
  BY <1>2, <1>3, <1>5, Lengths DEF Stream, StreamLen
<1>6. ASSUME NEW i \in StreamLen + 1 .. StreamLen + MsgLen
      PROVE  Stream(i)' = <<c, i - StreamLen>>
  <2>1. ~(i <= bytes_read) /\ i - bytes_read \in Len(fifo) + 1 .. Len(fifo) + MsgLen
        /\ i - bytes_read - Len(fifo) = i - StreamLen /\ i - StreamLen \in 1 .. MsgLen
    BY <1>6, Lengths DEF StreamLen
  <2>2. Stream(i)' = fifo'[i - bytes_read]
    BY <1>2, <2>1, <1>6, Lengths DEF Stream
  <2>3. fifo'[i - bytes_read] = Message(c)[i - StreamLen]
    BY <1>3, <2>1, Lengths
  <2> QED
    BY <2>1, <2>2, <2>3, <1>1
<1>7. fifo # <<>> => fifo'[1] = fifo[1]
  BY <1>3, Lengths
<1>8. fifo = <<>> => fifo'[1] = <<c, 1>>
  BY <1>1, <1>3, Lengths
<1> QED
  BY <1>3, <1>4, <1>5, <1>6, <1>7, <1>8

\* read_all moves bytes from the fifo to the buffer: the stream stays.
LEMMA ReadKeeps ==
    ASSUME TypeOK, PartialReads, HostRead
    PROVE  /\ StreamLen' = StreamLen
           /\ \A i \in 1 .. StreamLen : Stream(i)' = Stream(i)
           /\ StreamLen > 0
           /\ bytes_read' \in 1 .. ReadLen
           /\ bytes_read' < ReadLen => bytes_read' = StreamLen /\ fifo' = <<>>
           /\ bytes_read' <= StreamLen
           /\ \A i \in 1 .. bytes_read' : buffer'[i] = Stream(i)
           /\ fifo' \in Seq(Byte)
           /\ buffer' \in [1 .. ReadLen -> Byte \cup {NoByte}]
<1> DEFINE n == Least(Len(fifo), ReadLen - bytes_read)
<1>1. /\ fifo # <<>> /\ hpc = "read"
      /\ buffer' = [i \in 1 .. ReadLen |->
                        IF i \in bytes_read + 1 .. bytes_read + n
                        THEN fifo[i - bytes_read] ELSE buffer[i]]
      /\ fifo' = SubSeq(fifo, n + 1, Len(fifo))
      /\ bytes_read' = bytes_read + n
  BY DEF HostRead
<1>2. bytes_read < ReadLen
  BY <1>1 DEF PartialReads
<1>3. /\ n \in 1 .. Len(fifo) /\ bytes_read + n <= ReadLen
      /\ bytes_read + n < ReadLen => n = Len(fifo)
  BY <1>1, <1>2, Lengths DEF Least
<1> HIDE DEF n
<1>4. /\ fifo' \in Seq(Byte)
      /\ Len(fifo') = Len(fifo) - n
      /\ \A i \in 1 .. Len(fifo) - n : fifo'[i] = fifo[n + i]
  <2>1. \A i \in n + 1 .. Len(fifo) : fifo[i] \in Byte
    BY <1>3, Lengths
  <2>2. /\ SubSeq(fifo, n + 1, Len(fifo)) \in Seq(Byte)
        /\ Len(SubSeq(fifo, n + 1, Len(fifo))) =
              IF n + 1 <= Len(fifo) THEN Len(fifo) - (n + 1) + 1 ELSE 0
        /\ \A i \in 1 .. Len(fifo) - (n + 1) + 1 :
              SubSeq(fifo, n + 1, Len(fifo))[i] = fifo[n + 1 + i - 1]
    BY <1>3, <2>1, Lengths, SubSeqProperties
  <2> QED
    BY <1>1, <1>3, <2>2, Lengths
<1>5. StreamLen' = StreamLen /\ StreamLen > 0
  <2>1. StreamLen' = bytes_read + n + (Len(fifo) - n)
    BY <1>1, <1>4 DEF StreamLen
  <2> QED
    BY <1>3, <2>1, Lengths DEF StreamLen
<1>6. ASSUME NEW i \in 1 .. StreamLen PROVE Stream(i)' = Stream(i)
  <2>1. CASE i <= bytes_read
    BY <1>1, <1>3, <2>1, Lengths DEF Stream
  <2>2. CASE i > bytes_read /\ i <= bytes_read + n
    BY <1>1, <1>3, <2>2, Lengths DEF Stream
  <2>3. CASE i > bytes_read + n
    BY <1>1, <1>3, <1>4, <2>3, Lengths DEF Stream, StreamLen
  <2> QED
    BY <2>1, <2>2, <2>3, <1>3, Lengths
<1>7. bytes_read' <= StreamLen
  BY <1>1, <1>3, Lengths DEF StreamLen
<1>8. ASSUME NEW i \in 1 .. bytes_read' PROVE buffer'[i] = Stream(i)
  BY <1>1, <1>3, <1>8, Lengths DEF Stream
<1>9. buffer' \in [1 .. ReadLen -> Byte \cup {NoByte}]
  BY <1>1, <1>3, Lengths DEF TypeOK
<1>10. bytes_read' < ReadLen => bytes_read' = StreamLen /\ fifo' = <<>>
  BY <1>1, <1>3, <1>4, Lengths DEF StreamLen
<1>11. bytes_read' \in 1 .. ReadLen
  BY <1>1, <1>3, Lengths
<1> QED
  BY <1>4, <1>5, <1>6, <1>7, <1>8, <1>9, <1>10, <1>11

\* The next read_all begins where the last one stopped.
LEMMA ExtractCuts ==
    ASSUME TypeOK, HostExtract
    PROVE  /\ StreamLen' = StreamLen - bytes_read
           /\ \A i \in 1 .. StreamLen' : Stream(i)' = Stream(bytes_read + i)
           /\ bytes_read' = 0
BY Lengths DEF HostExtract, StreamLen, Stream

\* All other steps leave the stream alone.
Elsewhere ==
    \/ \E c \in Clients : ClientOpen(c) \/ ClientClose(c)
    \/ HostOpening \/ HostOpen \/ HostOpenFails \/ HostEof \/ HostEnqueue
    \/ \E m \in Managers : ManagerTake(m) \/ ManagerDrop(m)
    \/ UNCHANGED vars

LEMMA ElsewhereKeeps ==
    Elsewhere => UNCHANGED <<fifo, bytes_read, buffer>>
BY DEF Elsewhere, ClientOpen, ClientClose, HostOpening, HostOpen, HostOpenFails,
       HostEof, HostEnqueue, ManagerTake, ManagerDrop, vars, hostVars

LEMMA Steps ==
    [Next]_vars <=> \/ \E c \in Clients : ClientWrite(c)
                    \/ HostRead \/ HostExtract \/ Elsewhere
BY DEF Next, Client, Host, Elsewhere

-----------------------------------------------------------------------------
\* The initial states satisfy the invariant: the stream is empty.
LEMMA InitIInv == Init => IInv
<1> SUFFICES ASSUME Init PROVE IInv
  OBVIOUS
<1>1. /\ hpc = "start" /\ fifo = <<>> /\ bytes_read = 0
      /\ buffer = [i \in 1 .. ReadLen |-> NoByte]
  BY DEF Init
<1>2. TypeOK
  BY RegistrationAssumption DEF Init, TypeOK
<1>3. StreamLen = 0
  BY <1>1 DEF StreamLen
<1>4. WholeMessages /\ NoRepetition
  BY <1>3 DEF WholeMessages, NoRepetition
<1>5. buffer[1] = NoByte
  BY <1>1, RegistrationAssumption
<1>6. ASSUME NEW c \in Clients PROVE buffer[1] # <<c, 1>>
  BY <1>5, RegistrationAssumption DEF Byte
<1> QED
  BY <1>1, <1>2, <1>4, <1>6, RegistrationAssumption
     DEF IInv, PartialReads, BufferWhole, Tested

\* Types.
LEMMA NextType == IInv /\ [Next]_vars => TypeOK'
<1> SUFFICES ASSUME IInv, [Next]_vars PROVE TypeOK'
  OBVIOUS
<1>0. TypeOK /\ PartialReads
  BY DEF IInv
<1>1. ASSUME NEW c \in Clients, ClientWrite(c) PROVE TypeOK'
  <2>1. fifo' \in Seq(Byte)
    BY <1>0, <1>1, WriteGrows
  <2> QED
    BY <1>0, <1>1, <2>1 DEF TypeOK, ClientWrite, Goto, hostVars, historyVars
<1>2. CASE HostRead
  <2>1. /\ fifo' \in Seq(Byte) /\ bytes_read' \in 1 .. ReadLen
        /\ buffer' \in [1 .. ReadLen -> Byte \cup {NoByte}]
    BY <1>0, <1>2, ReadKeeps
  <2>2. /\ hpc' \in {"extract", "read"}
        /\ swallowed' = swallowed \cup Behind(Least(Len(fifo), ReadLen - bytes_read))
        /\ UNCHANGED <<cpc, aligned, extracted, again>>
    BY <1>2 DEF HostRead, clientVars, historyVars
  <2>3. swallowed' \subseteq Clients
    BY <1>0, <2>2 DEF TypeOK, Behind
  <2> QED
    BY <1>0, <2>1, <2>2, <2>3, Lengths DEF TypeOK
<1>3. CASE HostExtract
  <2>1. IsConnect => buffer[1][1] \in Clients
    BY <1>0, Lengths DEF IsConnect, TypeOK, Byte
  <2>2. /\ hpc' \in {"enqueue", "read"} /\ bytes_read' = 0
        /\ UNCHANGED <<cpc, aligned, swallowed, fifo, buffer>>
    BY <1>3 DEF HostExtract, HostGoto, clientVars
  <2>3. extracted' \subseteq Clients /\ again' \subseteq extracted'
    BY <1>0, <1>3, <2>1 DEF TypeOK, HostExtract, historyVars
  <2> QED
    BY <1>0, <2>2, <2>3, Lengths DEF TypeOK
<1>4. CASE Elsewhere
  <2>1. UNCHANGED <<fifo, bytes_read, buffer, aligned, swallowed, extracted, again>>
    BY <1>4 DEF Elsewhere, ClientOpen, ClientClose, HostOpening, HostOpen,
                HostOpenFails, HostEof, HostEnqueue, ManagerTake, ManagerDrop,
                vars, hostVars, clientVars, historyVars
  <2>2. cpc' \in [Clients -> {"start", "open", "written", "closed"}]
    BY <1>0, <1>4
       DEF Elsewhere, ClientOpen, ClientClose, HostOpening, HostOpen,
           HostOpenFails, HostEof, HostEnqueue, ManagerTake, ManagerDrop,
           vars, clientVars, Goto, TypeOK
  <2>3. hpc' \in {"start", "opening", "failed", "read", "extract", "enqueue"}
    BY <1>0, <1>4
       DEF Elsewhere, ClientOpen, ClientClose, HostOpening, HostOpen,
           HostOpenFails, HostEof, HostEnqueue, ManagerTake, ManagerDrop,
           vars, hostVars, HostGoto, TypeOK
  <2> QED
    BY <1>0, <2>1, <2>2, <2>3 DEF TypeOK
<1> QED
  BY <1>1, <1>2, <1>3, <1>4, Steps

\* If the stream loses its first k bytes and no other, it stays whole.
LEMMA CutStaysWhole ==
    ASSUME TypeOK, WholeMessages, NEW k \in 0 .. StreamLen,
           StreamLen' = StreamLen - k,
           \A i \in 1 .. StreamLen' : Stream(i)' = Stream(k + i)
    PROVE  WholeMessages'
<1>1. StreamLen \in Nat /\ StreamLen' \in Nat /\ MsgLen \in Nat
  BY Lengths
<1>2. ASSUME NEW i \in 1 .. StreamLen'
      PROVE  /\ k + i \in 1 .. StreamLen
             /\ Stream(i)' = Stream(k + i) /\ Stream(k + i) \in Byte
             /\ Stream(k + i)[2] \in 1 .. MsgLen
  BY <1>1, <1>2 DEF WholeMessages, Byte
<1>3. ASSUME NEW i \in 1 .. StreamLen', NEW j \in 0 .. MsgLen - Stream(i)'[2]
      PROVE  /\ i + j <= StreamLen'
             /\ Stream(i + j)' = <<Stream(i)'[1], Stream(i)'[2] + j>>
  <2>1. j \in 0 .. MsgLen - Stream(k + i)[2]
    BY <1>2, <1>3
  <2>2. /\ k + i + j <= StreamLen
        /\ Stream(k + i + j) = <<Stream(k + i)[1], Stream(k + i)[2] + j>>
    BY <1>1, <1>2, <2>1 DEF WholeMessages
  <2>3. j \in Nat
    BY <1>1, <1>2, <2>1
  <2>4. i + j \in 1 .. StreamLen'
    BY <1>1, <2>2, <2>3
  <2>5. Stream(i + j)' = Stream(k + (i + j)) /\ k + (i + j) = k + i + j
    BY <1>1, <2>3, <2>4
  <2> QED
    BY <1>2, <2>2, <2>4, <2>5
<1>4. ASSUME NEW i \in 1 .. StreamLen', Stream(i)'[2] = MsgLen, i < StreamLen'
      PROVE  Stream(i + 1)'[2] = 1
  <2>1. Stream(i + 1)' = Stream(k + (i + 1)) /\ k + (i + 1) = k + i + 1
    BY <1>1, <1>4
  <2>2. k + i < StreamLen
    BY <1>1, <1>4
  <2> QED
    BY <1>2, <1>4, <2>1, <2>2 DEF WholeMessages
<1> QED
  BY <1>2, <1>3, <1>4 DEF WholeMessages

\* A message written behind whole messages is whole.
LEMMA WriteStaysWhole ==
    ASSUME TypeOK, WholeMessages, NEW c \in Clients, ClientWrite(c)
    PROVE  WholeMessages'
<1>1. StreamLen \in Nat /\ MsgLen \in Nat /\ MsgLen >= 1
  BY Lengths
<1>2. /\ StreamLen' = StreamLen + MsgLen
      /\ \A i \in 1 .. StreamLen : Stream(i)' = Stream(i)
      /\ \A i \in StreamLen + 1 .. StreamLen + MsgLen :
            Stream(i)' = <<c, i - StreamLen>>
  BY WriteGrows
<1>3. ASSUME NEW i \in 1 .. StreamLen
      PROVE  /\ Stream(i)' = Stream(i) /\ Stream(i) \in Byte
             /\ Stream(i)[2] \in 1 .. MsgLen
  BY <1>2 DEF WholeMessages, Byte
<1>4. ASSUME NEW i \in StreamLen + 1 .. StreamLen'
      PROVE  /\ Stream(i)' = <<c, i - StreamLen>>
             /\ i - StreamLen \in 1 .. MsgLen
             /\ <<c, i - StreamLen>> \in Byte
  BY <1>1, <1>2 DEF Byte
<1>5. ASSUME NEW i \in 1 .. StreamLen', NEW j \in 0 .. MsgLen - Stream(i)'[2]
      PROVE  /\ i + j <= StreamLen'
             /\ Stream(i + j)' = <<Stream(i)'[1], Stream(i)'[2] + j>>
  <2>1. CASE i <= StreamLen
    <3>1. /\ i + j <= StreamLen
          /\ Stream(i + j) = <<Stream(i)[1], Stream(i)[2] + j>>
      BY <1>3, <1>5, <2>1 DEF WholeMessages
    <3>2. j \in Nat
      BY <1>3, <1>5, <2>1, <1>1
    <3>3. i + j \in 1 .. StreamLen
      BY <1>1, <3>1, <3>2, <1>5
    <3> QED
      BY <1>1, <1>2, <1>3, <2>1, <3>1, <3>3
  <2>2. CASE i > StreamLen
    <3>1. Stream(i)'[2] = i - StreamLen /\ Stream(i)'[1] = c
      BY <1>1, <1>2, <1>4, <2>2
    <3>2. j \in Nat /\ i + j \in StreamLen + 1 .. StreamLen'
      BY <1>1, <1>2, <1>5, <2>2, <3>1
    <3>3. Stream(i + j)' = <<c, i + j - StreamLen>>
      BY <1>1, <1>2, <3>2
    <3> QED
      BY <1>1, <1>2, <3>1, <3>2, <3>3
  <2> QED
    BY <2>1, <2>2, <1>1, <1>2
<1>6. ASSUME NEW i \in 1 .. StreamLen', Stream(i)'[2] = MsgLen, i < StreamLen'
      PROVE  Stream(i + 1)'[2] = 1
  <2>1. CASE i < StreamLen
    <3>1. i \in 1 .. StreamLen /\ i + 1 \in 1 .. StreamLen
      BY <1>1, <2>1
    <3> QED
      BY <1>3, <1>6, <2>1, <3>1 DEF WholeMessages
  <2>2. CASE i = StreamLen
    BY <1>1, <1>2, <2>2
  <2>3. CASE i > StreamLen
    <3>1. Stream(i)'[2] = i - StreamLen
      BY <1>1, <1>2, <1>4, <2>3
    <3> QED
      BY <1>1, <1>2, <1>6, <2>3, <3>1
  <2> QED
    BY <2>1, <2>2, <2>3, <1>1, <1>2
<1>7. ASSUME NEW i \in 1 .. StreamLen' PROVE Stream(i)' \in Byte
  BY <1>1, <1>2, <1>3, <1>4
<1> QED
  BY <1>5, <1>6, <1>7 DEF WholeMessages

\* The stream stays made of whole messages.
LEMMA NextWhole == IInv /\ [Next]_vars => WholeMessages'
<1> SUFFICES ASSUME IInv, [Next]_vars PROVE WholeMessages'
  OBVIOUS
<1>0. TypeOK /\ PartialReads /\ WholeMessages
  BY DEF IInv
<1>1. ASSUME NEW c \in Clients, ClientWrite(c) PROVE WholeMessages'
  BY <1>0, <1>1, WriteStaysWhole
<1>2. CASE HostRead
  <2>1. /\ StreamLen' = StreamLen - 0
        /\ \A i \in 1 .. StreamLen' : Stream(i)' = Stream(0 + i)
        /\ 0 \in 0 .. StreamLen
    BY <1>0, <1>2, ReadKeeps, Lengths
  <2> QED
    BY <1>0, <2>1, CutStaysWhole
<1>3. CASE HostExtract
  <2>1. bytes_read \in 0 .. StreamLen
    BY <1>0, Lengths DEF StreamLen
  <2> QED
    BY <1>0, <1>3, <2>1, ExtractCuts, CutStaysWhole
<1>4. CASE Elsewhere
  BY <1>0, <1>4, ElsewhereKeeps DEF WholeMessages, Stream, StreamLen
<1> QED
  BY <1>1, <1>2, <1>3, <1>4, Steps

\* A client that has written never comes back to where it has not.
LEMMA WrittenStays ==
    ASSUME TypeOK, [Next]_vars, NEW c \in Clients,
           cpc[c] \in {"written", "closed"}
    PROVE  cpc'[c] \in {"written", "closed"}
<1>1. CASE \E d \in Clients : Client(d)
  BY <1>1 DEF Client, ClientOpen, ClientWrite, ClientClose, Goto, TypeOK
<1>2. CASE cpc' = cpc
  BY <1>2
<1> QED
  BY <1>1, <1>2
     DEF Next, vars, Host, HostOpening, HostOpen, HostOpenFails, HostRead,
         HostEof, HostExtract, HostEnqueue, ManagerTake, ManagerDrop, clientVars

\* No byte comes to be in the stream twice.
LEMMA NextOnce == IInv /\ [Next]_vars => NoRepetition'
<1> SUFFICES ASSUME IInv, [Next]_vars PROVE NoRepetition'
  OBVIOUS
<1>0. TypeOK /\ PartialReads /\ WholeMessages /\ NoRepetition
  BY DEF IInv
<1>1. ASSUME NEW c \in Clients, ClientWrite(c) PROVE NoRepetition'
  <2>1. /\ cpc[c] = "open" /\ cpc' = [cpc EXCEPT ![c] = "written"]
        /\ cpc \in [Clients -> {"start", "open", "written", "closed"}]
    BY <1>0, <1>1 DEF ClientWrite, Goto, TypeOK
  <2>2. /\ StreamLen' = StreamLen + MsgLen
        /\ \A i \in 1 .. StreamLen : Stream(i)' = Stream(i)
        /\ \A i \in StreamLen + 1 .. StreamLen + MsgLen :
              Stream(i)' = <<c, i - StreamLen>>
    BY <1>0, <1>1, WriteGrows
  <2>3. StreamLen \in Nat /\ MsgLen \in Nat
    BY <1>0, Lengths
  <2>4. ASSUME NEW i \in 1 .. StreamLen
        PROVE  Stream(i)' = Stream(i) /\ Stream(i)[1] \in Clients \ {c}
               /\ cpc[Stream(i)[1]] \in {"written", "closed"}
    BY <1>0, <2>1, <2>2, <2>4 DEF NoRepetition, WholeMessages, Byte
  <2>5. ASSUME NEW i \in StreamLen + 1 .. StreamLen'
        PROVE  Stream(i)' = <<c, i - StreamLen>> /\ Stream(i)'[1] = c
               /\ Stream(i)'[2] = i - StreamLen
    BY <2>2, <2>5
  <2>6. \A i \in 1 .. StreamLen' : cpc'[Stream(i)'[1]] \in {"written", "closed"}
    BY <2>1, <2>2, <2>3, <2>4, <2>5
  <2>7. ASSUME NEW i \in 1 .. StreamLen', NEW j \in 1 .. StreamLen',
               Stream(i)' = Stream(j)'
        PROVE  i = j
    <3>1. CASE i <= StreamLen /\ j <= StreamLen
      BY <1>0, <2>2, <2>3, <2>7, <3>1 DEF NoRepetition
    <3>2. CASE i <= StreamLen /\ j > StreamLen
      BY <2>2, <2>3, <2>4, <2>5, <2>7, <3>2
    <3>3. CASE i > StreamLen /\ j <= StreamLen
      BY <2>2, <2>3, <2>4, <2>5, <2>7, <3>3
    <3>4. CASE i > StreamLen /\ j > StreamLen
      <4>1. i - StreamLen = j - StreamLen
        BY <2>2, <2>3, <2>5, <2>7, <3>4
      <4> QED
        BY <2>2, <2>3, <4>1
    <3> QED
      BY <3>1, <3>2, <3>3, <3>4, <2>2, <2>3
  <2> QED
    BY <2>6, <2>7 DEF NoRepetition
<1>2. ASSUME NEW k \in 0 .. StreamLen, StreamLen' = StreamLen - k,
             \A i \in 1 .. StreamLen' : Stream(i)' = Stream(k + i)
      PROVE  NoRepetition'
  <2>1. StreamLen \in Nat
    BY <1>0, Lengths
  <2>2. ASSUME NEW i \in 1 .. StreamLen'
        PROVE  /\ k + i \in 1 .. StreamLen /\ Stream(i)' = Stream(k + i)
               /\ Stream(k + i)[1] \in Clients
               /\ cpc[Stream(k + i)[1]] \in {"written", "closed"}
    BY <1>0, <1>2, <2>1 DEF NoRepetition, WholeMessages, Byte
  <2>3. \A i \in 1 .. StreamLen' : cpc'[Stream(i)'[1]] \in {"written", "closed"}
    BY <1>0, <2>2, WrittenStays
  <2>4. ASSUME NEW i \in 1 .. StreamLen', NEW j \in 1 .. StreamLen',
               Stream(i)' = Stream(j)'
        PROVE  i = j
    <3>1. k + i = k + j
      BY <1>0, <2>2, <2>4 DEF NoRepetition
    <3> QED
      BY <1>2, <2>1, <3>1
  <2> QED
    BY <2>3, <2>4 DEF NoRepetition
<1>3. CASE HostRead
  <2>1. /\ StreamLen' = StreamLen - 0
        /\ \A i \in 1 .. StreamLen' : Stream(i)' = Stream(0 + i)
        /\ 0 \in 0 .. StreamLen
    BY <1>0, <1>3, ReadKeeps, Lengths
  <2> QED
    BY <1>2, <2>1
<1>4. CASE HostExtract
  <2>1. bytes_read \in 0 .. StreamLen
    BY <1>0, Lengths DEF StreamLen
  <2> QED
    BY <1>0, <1>2, <1>4, <2>1, ExtractCuts
<1>5. CASE Elsewhere
  <2>1. /\ StreamLen' = StreamLen
        /\ \A i \in 1 .. StreamLen' : Stream(i)' = Stream(i)
    BY <1>5, ElsewhereKeeps DEF Stream, StreamLen
  <2>2. StreamLen \in Nat /\ \A i \in 1 .. StreamLen' : 0 + i = i
    BY <1>0, <2>1, Lengths
  <2>3. /\ StreamLen' = StreamLen - 0
        /\ \A i \in 1 .. StreamLen' : Stream(i)' = Stream(0 + i)
        /\ 0 \in 0 .. StreamLen
    BY <2>1, <2>2
  <2> QED
    BY <1>2, <2>3
<1> QED
  BY <1>1, <1>3, <1>4, <1>5, Steps

\* A read_all that is half-way has emptied the fifo, and what is in it now
\* was written since.
LEMMA NextPartial == IInv /\ [Next]_vars => PartialReads'
<1> SUFFICES ASSUME IInv, [Next]_vars PROVE PartialReads'
  OBVIOUS
<1>0. TypeOK /\ PartialReads
  BY DEF IInv
<1>1. ASSUME NEW c \in Clients, ClientWrite(c) PROVE PartialReads'
  <2>1. /\ fifo # <<>> => fifo'[1] = fifo[1]
        /\ fifo = <<>> => fifo'[1] = <<c, 1>>
    BY <1>0, <1>1, WriteGrows
  <2>2. UNCHANGED <<hpc, bytes_read>>
    BY <1>1 DEF ClientWrite, hostVars
  <2> QED
    BY <1>0, <2>1, <2>2 DEF PartialReads
<1>2. CASE HostRead
  <2>1. /\ bytes_read' < ReadLen => fifo' = <<>>
        /\ bytes_read' \in 1 .. ReadLen
    BY <1>0, <1>2, ReadKeeps
  <2>2. bytes_read' = ReadLen => hpc' = "extract"
    BY <1>2 DEF HostRead
  <2> QED
    BY <1>0, <2>1, <2>2, Lengths DEF PartialReads
<1>3. CASE HostExtract
  BY <1>0, <1>3, Lengths DEF HostExtract, PartialReads
<1>4. CASE Elsewhere
  <2>1. UNCHANGED <<fifo, bytes_read>>
    BY <1>4, ElsewhereKeeps
  <2>2. hpc = "extract" => hpc' = "extract"
    BY <1>4
       DEF Elsewhere, ClientOpen, ClientClose, HostOpening, HostOpen,
           HostOpenFails, HostEof, HostEnqueue, ManagerTake, ManagerDrop,
           vars, hostVars, HostGoto
  <2> QED
    BY <1>0, <2>1, <2>2 DEF PartialReads
<1> QED
  BY <1>1, <1>2, <1>3, <1>4, Steps

\* Where the buffer is not read into, it is whole as before; a read that
\* brings the first byte of a message brings all of it.
LEMMA NextBuffer == IInv /\ [Next]_vars => BufferWhole' /\ Tested'
<1> SUFFICES ASSUME IInv, [Next]_vars PROVE BufferWhole' /\ Tested'
  OBVIOUS
<1>0. TypeOK /\ PartialReads /\ WholeMessages /\ BufferWhole /\ Tested
  BY DEF IInv
<1>1. CASE HostRead
  <2>1. /\ StreamLen > 0 /\ StreamLen \in Nat
        /\ bytes_read' \in 1 .. ReadLen /\ bytes_read' <= StreamLen
        /\ bytes_read' < ReadLen => bytes_read' = StreamLen
        /\ \A i \in 1 .. bytes_read' : buffer'[i] = Stream(i)
    BY <1>0, <1>1, ReadKeeps, Lengths
  <2>2. MsgLen \in Nat /\ MsgLen >= 1 /\ ReadLen \in Nat /\ ReadLen >= MsgLen
    BY <1>0, Lengths
  <2>3. ASSUME NEW c \in Clients, buffer'[1] = <<c, 1>>, NEW i \in 1 .. MsgLen
        PROVE  buffer'[i] = <<c, i>>
    <3>1. Stream(1) = <<c, 1>> /\ 1 \in 1 .. StreamLen
      BY <2>1, <2>3
    <3>2. \A j \in 0 .. MsgLen - 1 :
             1 + j <= StreamLen /\ Stream(1 + j) = <<c, 1 + j>>
      BY <1>0, <3>1 DEF WholeMessages
    <3>3. MsgLen <= bytes_read'
      BY <2>1, <2>2, <3>2
    <3>4. i - 1 \in 0 .. MsgLen - 1 /\ 1 + (i - 1) = i
      BY <2>2
    <3>5. Stream(i) = <<c, i>>
      BY <3>2, <3>4
    <3> QED
      BY <2>1, <2>2, <3>3, <3>5
  <2>4. hpc' # "enqueue"
    BY <1>1 DEF HostRead
  <2> QED
    BY <2>3, <2>4 DEF BufferWhole, Tested
<1>2. CASE HostExtract
  <2>1. buffer' = buffer /\ (hpc' = "enqueue" => IsConnect)
    BY <1>2 DEF HostExtract, HostGoto
  <2> QED
    BY <1>0, <2>1 DEF BufferWhole, Tested, IsConnect
<1>3. CASE (\E c \in Clients : ClientWrite(c)) \/ Elsewhere
  <2>1. buffer' = buffer
    BY <1>3, ElsewhereKeeps DEF ClientWrite, hostVars
  <2>2. hpc' = "enqueue" => hpc = "enqueue"
    BY <1>3
       DEF Elsewhere, ClientOpen, ClientWrite, ClientClose, HostOpening,
           HostOpen, HostOpenFails, HostEof, HostEnqueue, ManagerTake,
           ManagerDrop, vars, hostVars, HostGoto
  <2> QED
    BY <1>0, <2>1, <2>2 DEF BufferWhole, Tested, IsConnect
<1> QED
  BY <1>1, <1>2, <1>3, Steps

\* IInv is an invariant of the specification.
LEMMA Invariance == Spec => []IInv
<1>1. IInv /\ [Next]_vars => IInv'
  BY NextType, NextWhole, NextOnce, NextPartial, NextBuffer DEF IInv
<1> QED
  BY InitIInv, <1>1, PTL DEF Spec

-----------------------------------------------------------------------------
(* How far the host gets out of step, when it asks for one byte too many. *)

\* The client whose byte comes first has not been used up: at most all the
\* others have.
LEMMA ShiftBound ==
    ASSUME IInv, IsFiniteSet(Clients)
    PROVE  /\ IsFiniteSet(UsedUp)
           /\ Cardinality(UsedUp) \in Nat
           /\ StreamLen > 0 => Cardinality(UsedUp) + 1 <= Cardinality(Clients)
<1>0. TypeOK /\ WholeMessages
  BY DEF IInv
<1>1. UsedUp \in SUBSET Clients
  BY DEF UsedUp
<1>2. IsFiniteSet(UsedUp)
  BY <1>1, FS_Subset
<1>3. Cardinality(UsedUp) \in Nat /\ Cardinality(Clients) \in Nat
  BY <1>2, FS_CardinalityType
<1>4. ASSUME StreamLen > 0
      PROVE  Cardinality(UsedUp) + 1 <= Cardinality(Clients)
  <2> DEFINE c == Stream(1)[1]
             p == Stream(1)[2]
  <2>1. StreamLen \in Nat /\ 1 \in 1 .. StreamLen
    BY <1>0, <1>4, Lengths
  <2>2. c \in Clients /\ p \in 1 .. MsgLen /\ Stream(1) = <<c, p>>
    BY <1>0, <2>1 DEF WholeMessages, Byte
  <2>3. MsgLen - p \in 0 .. MsgLen - p /\ p + (MsgLen - p) = MsgLen
        /\ 1 + (MsgLen - p) >= 1
    BY <1>0, <2>2, Lengths
  <2>4. /\ 1 + (MsgLen - p) <= StreamLen
        /\ Stream(1 + (MsgLen - p)) = <<c, p + (MsgLen - p)>>
    BY <1>0, <2>1, <2>3 DEF WholeMessages
  <2>5. InStream(<<c, MsgLen>>)
    BY <1>0, <2>1, <2>2, <2>3, <2>4, Lengths DEF InStream
  <2>6. c \notin UsedUp
    BY <2>5 DEF UsedUp
  <2> HIDE DEF c
  <2>7. Cardinality(UsedUp \cup {c}) = Cardinality(UsedUp) + 1
    BY <1>2, <2>6, FS_AddElement
  <2>8. UsedUp \cup {c} \in SUBSET Clients
    BY <1>1, <2>2
  <2> QED
    BY <2>7, <2>8, FS_Subset
<1> QED
  BY <1>2, <1>3, <1>4

\* A used-up client stays so as long as no byte comes back.
LEMMA MoreUsedUp ==
    ASSUME IsFiniteSet(Clients), NEW S \in SUBSET UsedUp', IsFiniteSet(S)
    PROVE  /\ Cardinality(S) \in Nat /\ Cardinality(UsedUp') \in Nat
           /\ Cardinality(S) <= Cardinality(UsedUp')
<1>1. UsedUp' \in SUBSET Clients
  BY DEF UsedUp
<1>2. IsFiniteSet(UsedUp')
  BY <1>1, FS_Subset
<1> QED
  BY <1>2, FS_Subset, FS_CardinalityType

LEMMA WriteShift ==
    ASSUME IsFiniteSet(Clients), IInv, Shift, NEW c \in Clients, ClientWrite(c)
    PROVE  Shift'
<1>0. TypeOK /\ NoRepetition /\ WholeMessages /\ StreamLen \in Nat /\ MsgLen \in Nat
  BY Lengths DEF IInv
<1>1. /\ StreamLen' = StreamLen + MsgLen
      /\ \A i \in 1 .. StreamLen : Stream(i)' = Stream(i)
      /\ \A i \in StreamLen + 1 .. StreamLen + MsgLen :
            Stream(i)' = <<c, i - StreamLen>>
  BY <1>0, WriteGrows
<1>2. /\ cpc[c] = "open" /\ cpc' = [cpc EXCEPT ![c] = "written"]
      /\ buffer' = buffer
  BY DEF ClientWrite, Goto, hostVars
<1>3. ASSUME NEW d \in UsedUp PROVE d \in UsedUp'
  <2>1. d \in Clients /\ d # c /\ cpc'[d] \in {"written", "closed"}
    BY <1>0, <1>2, <1>3 DEF UsedUp, TypeOK
  <2>2. ASSUME NEW i \in 1 .. StreamLen' PROVE Stream(i)' # <<d, MsgLen>>
    <3>1. CASE i <= StreamLen
      BY <1>0, <1>1, <1>3, <3>1 DEF UsedUp, InStream
    <3>2. CASE i > StreamLen
      BY <1>0, <1>1, <2>1, <3>2
    <3> QED
      BY <3>1, <3>2, <1>0, <1>1
  <2> QED
    BY <2>1, <2>2 DEF UsedUp, InStream
<1>4. /\ Cardinality(UsedUp) \in Nat /\ Cardinality(UsedUp') \in Nat
      /\ Cardinality(UsedUp) <= Cardinality(UsedUp')
  BY <1>3, ShiftBound, MoreUsedUp
<1>5. StreamLen' > 0 => Stream(1)'[2] <= 1 + Cardinality(UsedUp')
  <2>1. CASE StreamLen = 0
    BY <1>0, <1>1, <1>4, <2>1
  <2>2. CASE StreamLen > 0
    <3>1. 1 \in 1 .. StreamLen
      BY <1>0, <2>2
    <3>2. Stream(1)' = Stream(1) /\ Stream(1)[2] \in 1 .. MsgLen
      BY <1>0, <1>1, <3>1 DEF WholeMessages, Byte
    <3>3. Stream(1)[2] <= 1 + Cardinality(UsedUp)
      BY <2>2 DEF Shift
    <3> QED
      BY <1>0, <1>4, <3>2, <3>3
  <2> QED
    BY <2>1, <2>2, <1>0
<1> QED
  BY <1>2, <1>5 DEF Shift

LEMMA ExtractShift ==
    ASSUME IsFiniteSet(Clients), ReadLen <= MsgLen + 1, IInv, Shift, HostExtract
    PROVE  Shift'
<1>0. /\ TypeOK /\ NoRepetition /\ WholeMessages /\ PartialReads
      /\ StreamLen \in Nat /\ MsgLen \in Nat /\ MsgLen >= 1
      /\ ReadLen \in Nat /\ ReadLen >= MsgLen
      /\ bytes_read \in 0 .. ReadLen /\ bytes_read <= StreamLen
  BY Lengths DEF IInv, StreamLen
<1>1. /\ StreamLen' = StreamLen - bytes_read
      /\ \A i \in 1 .. StreamLen' : Stream(i)' = Stream(bytes_read + i)
  BY <1>0, ExtractCuts
<1>2. cpc' = cpc /\ buffer' = buffer
  BY DEF HostExtract, clientVars
<1>3. ASSUME NEW d \in UsedUp PROVE d \in UsedUp'
  <2>1. d \in Clients /\ cpc'[d] \in {"written", "closed"}
    BY <1>2, <1>3 DEF UsedUp
  <2>2. ASSUME NEW i \in 1 .. StreamLen' PROVE Stream(i)' # <<d, MsgLen>>
    <3>1. bytes_read + i \in 1 .. StreamLen
      BY <1>0, <1>1
    <3> QED
      BY <1>1, <1>3, <3>1 DEF UsedUp, InStream
  <2> QED
    BY <2>1, <2>2 DEF UsedUp, InStream
<1>4. /\ Cardinality(UsedUp) \in Nat /\ Cardinality(UsedUp') \in Nat
      /\ Cardinality(UsedUp) <= Cardinality(UsedUp')
  BY <1>3, ShiftBound, MoreUsedUp
<1>5. ASSUME StreamLen' > 0
      PROVE  Stream(1)'[2] <= 1 + Cardinality(UsedUp')
  <2>1. 1 \in 1 .. StreamLen' /\ StreamLen > 0 /\ 1 \in 1 .. StreamLen
    BY <1>0, <1>1, <1>5
  <2>2. Stream(1)' = Stream(bytes_read + 1)
    BY <1>1, <2>1
  <2>3. Stream(1) \in Byte /\ Stream(1)[2] <= 1 + Cardinality(UsedUp)
    BY <1>0, <2>1 DEF Shift, WholeMessages
  <2>4. CASE bytes_read = 0
    BY <1>0, <1>4, <2>2, <2>3, <2>4 DEF Byte
  <2>5. CASE bytes_read \in 1 .. ReadLen - 1
    <3>1. Stream(bytes_read + 1) = fifo[1] /\ fifo # <<>>
      BY <1>0, <1>1, <1>5, <2>5, Lengths DEF Stream, StreamLen
    <3>2. fifo[1][2] = 1
      BY <1>0, <2>5, <3>1 DEF PartialReads
    <3> QED
      BY <1>4, <2>2, <3>1, <3>2
  <2>6. CASE bytes_read = ReadLen
    <3> DEFINE c == Stream(1)[1]
               p == Stream(1)[2]
               e == 1 + (MsgLen - p)
    <3>1. c \in Clients /\ p \in 1 .. MsgLen /\ Stream(1) = <<c, p>>
      BY <2>3 DEF Byte
    <3>2. MsgLen - p \in 0 .. MsgLen - p /\ p + (MsgLen - p) = MsgLen
          /\ e \in 1 .. MsgLen
      BY <1>0, <3>1
    <3>3. e <= StreamLen /\ Stream(e) = <<c, MsgLen>>
      BY <1>0, <2>1, <3>2 DEF WholeMessages
    <3>4. c \in UsedUp' /\ c \notin UsedUp
      <4>1. ASSUME NEW i \in 1 .. StreamLen' PROVE Stream(i)' # <<c, MsgLen>>
        <5>1. ReadLen + i \in 1 .. StreamLen /\ Stream(i)' = Stream(ReadLen + i)
          BY <1>0, <1>1, <2>6
        <5>2. e \in 1 .. StreamLen /\ e # ReadLen + i
          BY <1>0, <3>2, <3>3
        <5> QED
          BY <1>0, <3>3, <5>1, <5>2 DEF NoRepetition
      <4>2. cpc'[c] \in {"written", "closed"}
        BY <1>0, <1>2, <2>1 DEF NoRepetition
      <4>3. e \in 1 .. StreamLen
        BY <1>0, <3>2, <3>3
      <4> QED
        BY <3>1, <3>3, <4>1, <4>2, <4>3 DEF UsedUp, InStream
    <3>5. Cardinality(UsedUp) + 1 <= Cardinality(UsedUp')
      <4> HIDE DEF c
      <4>1. IsFiniteSet(UsedUp)
        BY ShiftBound
      <4>2. /\ IsFiniteSet(UsedUp \cup {c})
            /\ Cardinality(UsedUp \cup {c}) = Cardinality(UsedUp) + 1
        BY <3>4, <4>1, FS_AddElement
      <4>3. UsedUp \cup {c} \in SUBSET UsedUp'
        BY <1>3, <3>4
      <4> QED
        BY <4>2, <4>3, MoreUsedUp
    <3>6. Stream(ReadLen + 1)[2] <= p + 1
      <4>0. ReadLen + 1 <= StreamLen /\ StreamLen > 0
        BY <1>0, <1>1, <1>5, <2>6
      <4>1. e < StreamLen /\ e \in 1 .. StreamLen /\ e + 1 \in 1 .. StreamLen
        BY <1>0, <3>2, <4>0
      <4>2. Stream(e + 1)[2] = 1 /\ Stream(e + 1) \in Byte
        BY <1>0, <3>3, <4>1 DEF WholeMessages
      <4>3. \A j \in 0 .. MsgLen - 1 :
               e + 1 + j <= StreamLen /\ Stream(e + 1 + j)[2] = 1 + j
        BY <1>0, <4>1, <4>2 DEF WholeMessages
      <4>4. CASE ReadLen + 1 <= e + MsgLen
        <5> DEFINE j == ReadLen - e
        <5>1. j \in 0 .. MsgLen - 1 /\ e + 1 + j = ReadLen + 1 /\ 1 + j <= p + 1
          BY <1>0, <3>1, <3>2, <4>4
        <5> QED
          BY <4>3, <5>1
      <4>5. CASE ReadLen + 1 > e + MsgLen
        <5>1. e = 1 /\ ReadLen = MsgLen + 1 /\ p = MsgLen
          BY <1>0, <3>1, <3>2, <4>5
        <5>2. /\ MsgLen - 1 \in 0 .. MsgLen - 1
              /\ e + 1 + (MsgLen - 1) = ReadLen /\ 1 + (MsgLen - 1) = MsgLen
          BY <1>0, <5>1
        <5>3. Stream(ReadLen)[2] = MsgLen
          BY <4>3, <5>2
        <5>4. ReadLen \in 1 .. StreamLen /\ ReadLen < StreamLen
          BY <1>0, <4>0
        <5>5. Stream(ReadLen + 1)[2] = 1
          BY <1>0, <5>3, <5>4 DEF WholeMessages
        <5> QED
          BY <1>0, <5>1, <5>5
      <4> QED
        BY <4>4, <4>5, <1>0, <3>2
    <3>7. Stream(ReadLen + 1)[2] \in 1 .. MsgLen
      BY <1>0, <1>1, <1>5, <2>6 DEF WholeMessages, Byte
    <3> QED
      BY <1>4, <2>2, <2>3, <2>6, <3>1, <3>5, <3>6, <3>7
  <2> QED
    BY <2>4, <2>5, <2>6, <1>0
<1> QED
  BY <1>2, <1>5 DEF Shift

\* Every full read begins one byte further into a message, and has used up
\* one client more.
LEMMA NextShift ==
    ASSUME IsFiniteSet(Clients), ReadLen <= MsgLen + 1, IInv, Shift, [Next]_vars
    PROVE  Shift'
<1>0. TypeOK /\ PartialReads /\ WholeMessages
  BY DEF IInv
<1>1. ASSUME NEW c \in Clients, ClientWrite(c) PROVE Shift'
  BY <1>1, WriteShift
<1>2. CASE HostRead
  <2>1. /\ StreamLen' = StreamLen /\ StreamLen > 0 /\ StreamLen \in Nat
        /\ \A i \in 1 .. StreamLen : Stream(i)' = Stream(i)
        /\ buffer'[1] = Stream(1)
    BY <1>0, <1>2, ReadKeeps, Lengths
  <2>2. cpc' = cpc
    BY <1>2 DEF HostRead, clientVars
  <2>3. UsedUp' = UsedUp
    BY <2>1, <2>2 DEF UsedUp, InStream
  <2>4. 1 \in 1 .. StreamLen
    BY <2>1
  <2>5. Stream(1)[2] \in 1 .. MsgLen
    BY <1>0, <2>4 DEF WholeMessages, Byte
  <2>6. /\ Cardinality(UsedUp) \in Nat
        /\ Cardinality(UsedUp) + 1 <= Cardinality(Clients)
    BY <2>1, ShiftBound
  <2>7. Cardinality(Clients) \in Nat /\ MsgLen \in Nat
    BY <1>0, FS_CardinalityType, Lengths
  <2> QED
    BY <2>1, <2>3, <2>4, <2>5, <2>6, <2>7 DEF Shift
<1>3. CASE HostExtract
  BY <1>3, ExtractShift
<1>4. CASE Elsewhere
  <2>1. /\ StreamLen' = StreamLen /\ buffer' = buffer
        /\ \A i \in 1 .. StreamLen' : Stream(i)' = Stream(i)
    BY <1>4, ElsewhereKeeps DEF Stream, StreamLen
  <2>2. ASSUME NEW d \in UsedUp PROVE d \in UsedUp'
    <3>1. d \in Clients /\ cpc'[d] \in {"written", "closed"}
      BY <1>0, <2>2, WrittenStays DEF UsedUp
    <3> QED
      BY <2>1, <2>2, <3>1 DEF UsedUp, InStream
  <2>3. /\ Cardinality(UsedUp) \in Nat /\ Cardinality(UsedUp') \in Nat
        /\ Cardinality(UsedUp) <= Cardinality(UsedUp')
    BY <2>2, ShiftBound, MoreUsedUp
  <2>4. StreamLen > 0 => Stream(1)[2] \in 1 .. MsgLen /\ 1 \in 1 .. StreamLen
    BY <1>0, Lengths DEF WholeMessages, Byte
  <2>5. MsgLen \in Nat
    BY <1>0, Lengths
  <2> QED
    BY <2>1, <2>3, <2>4, <2>5 DEF Shift
<1> QED
  BY <1>1, <1>2, <1>3, <1>4, Steps

-----------------------------------------------------------------------------
\* The variables keep their types, whatever the sizes: bytes_read never
\* passes the size asked for, and read_all never writes behind the buffer.
THEOREM TypeCorrect == Spec => []TypeOK
<1>1. IInv => TypeOK
  BY DEF IInv
<1> QED
  BY Invariance, <1>1, PTL

\* The names that are enqueued are those of one message as long as no byte
\* but the opcode among the first N of a message is a 1, where N is the
\* number of clients: with a read that asks for one byte too many, it takes
\* N clients at a time to bring byte N of a message to the opcode's place.
THEOREM NamesAreNotMixed ==
    ASSUME IsFiniteSet(Clients), ReadLen <= MsgLen + 1,
           Ones \cap 2 .. Cardinality(Clients) = {}
    PROVE  Spec => []NamesAreOneMessage
<1>1. Init => Shift
  <2> SUFFICES ASSUME Init PROVE Shift
    OBVIOUS
  <2>1. StreamLen = 0 /\ buffer[1] = NoByte
    BY RegistrationAssumption DEF Init, StreamLen
  <2> QED
    BY <2>1 DEF Shift
<1>2. IInv /\ Shift /\ [Next]_vars => Shift'
  BY NextShift
<1>3. IInv /\ Shift => NamesAreOneMessage
  <2> SUFFICES ASSUME IInv, Shift, hpc = "enqueue"
               PROVE  \E c \in Clients : \A i \in 2 .. MsgLen : buffer[i] = <<c, i>>
    BY DEF NamesAreOneMessage
  <2>1. TypeOK /\ IsConnect /\ BufferWhole
    BY DEF IInv, Tested
  <2>2. /\ buffer[1] \in Byte /\ buffer[1][2] \in Ones
        /\ buffer[1][2] <= Cardinality(Clients)
    BY <2>1, Lengths DEF IsConnect, TypeOK, Shift
  <2>3. Cardinality(Clients) \in Nat
    BY FS_CardinalityType
  <2>4. buffer[1][2] \in 1 .. MsgLen /\ buffer[1] = <<buffer[1][1], buffer[1][2]>>
        /\ buffer[1][1] \in Clients
    BY <2>2 DEF Byte
  <2>5. buffer[1][2] = 1
    BY <2>1, <2>2, <2>3, <2>4, Lengths
  <2> QED
    BY <2>1, <2>4, <2>5 DEF BufferWhole
<1> QED
  BY Invariance, <1>1, <1>2, <1>3, PTL DEF Spec
=============================================================================
