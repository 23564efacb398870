\* One backup allowed, two job threads.
SPECIFICATION Spec
CONSTANTS
    Threads = {t1, t2}
    MaxBackups = 1
    NoThread = NoThread
INVARIANTS
    BackupLimit
CHECK_DEADLOCK FALSE
