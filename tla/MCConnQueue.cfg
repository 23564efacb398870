\* Two clients that come again and again, two managers, two places.
SPECIFICATION FairSpec
CONSTANTS
    c1 = c1
    c2 = c2
    Nodes = {n1, n2}
    Fifos <- MCFifos
    NULL = NULL
    Clients = {c1, c2}
    Managers = {m1, m2}
    host = host
    MAX_SESSION_COUNT = 2
    NoThread = NoThread
INVARIANTS
    TypeOK
    PlacesAreConserved
    PopFindsRequest
    ListIsSound
PROPERTIES
    ImplementsFifo
    FrontIsTaken
\* With every manager in a session and the queue full the host waits for ever.
CHECK_DEADLOCK FALSE
