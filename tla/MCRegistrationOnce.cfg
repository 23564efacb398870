\* One client is enough.
SPECIFICATION Spec
CONSTANTS
    Clients = {c1}
    Managers = {m1}
    Capacity = 2
    MsgLen = 3
    ReadLen = 4
    Ones = {1}
    NoByte = NoByte
    Nothing = Nothing
INVARIANTS
    ExtractedOnce
CHECK_DEADLOCK FALSE
