\* Two clients that speak the server's protocol, two managers, descriptors for
\* two connections.
SPECIFICATION Spec
CONSTANTS
    k1 = k1
    k2 = k2
    Clients = {c1, c2}
    Own = {}
    Managers = {m1, m2}
    MAX_SESSION_COUNT = 1
    Requests <- MCRequests
    MaxRequests = 2
    MaxReplays = 1
    Stored = {k1}
    Wild = {k1}
    NoBucket = {}
    Capacity = 1
    Descriptors = {1, 2, 3, 4, 5, 6}
    NoClient = NoClient
    Closed = Closed
    Nothing = Nothing
SYMMETRY Symmetry
INVARIANTS
    TypeOK
    
    DeathHasCause
\* A dead server, or one without clients that ask, does nothing.
CHECK_DEADLOCK FALSE
