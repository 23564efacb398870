\* Three job threads, room for one backup: the limit can be exceeded by two.
SPECIFICATION FairSpec
CONSTANTS
    Threads = {t1, t2, t3}
    MaxBackups = 1
    NoThread = NoThread
INVARIANTS
    TypeOK
    CountAccountsForChildren
    ReapedBeforeServing
PROPERTIES
    LockIsReleased
\* main stays in "serve" and the job threads in "done": the end of this phase.
CHECK_DEADLOCK FALSE
