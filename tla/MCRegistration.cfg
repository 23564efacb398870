\* Three clients; four bytes stand for the message, five are asked for.
SPECIFICATION FairSpec
CONSTANTS
    Clients = {c1, c2, c3}
    Managers = {m1}
    Capacity = 2
    MsgLen = 4
    ReadLen = 5
    Ones = {1, 4}
    NoByte = NoByte
    Nothing = Nothing
INVARIANTS
    TypeOK
    NamesAreOneMessage
PROPERTIES
    MessagesAreExtracted
\* With a full queue, no manager and every client gone the host waits.
CHECK_DEADLOCK FALSE
