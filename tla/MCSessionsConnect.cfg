\* A client that runs client/main.c, and one manager.
SPECIFICATION FairSpec
CONSTANTS
    k1 = k1
    k2 = k2
    Clients = {c1}
    Own = {c1}
    Managers = {m1}
    MAX_SESSION_COUNT = 1
    Requests <- MCRequests
    MaxRequests = 2
    MaxReplays = 1
    Stored = {k1}
    Wild = {k1}
    NoBucket = {}
    Capacity = 1
    Descriptors = {1, 2, 3, 4, 5, 6}
    NoClient = NoClient
    Closed = Closed
    Nothing = Nothing
PROPERTIES
    ClientsConnect
CHECK_DEADLOCK FALSE
