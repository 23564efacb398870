\* Two threads, three jobs and a fourth with too long a path in a directory
\* larger than the stream's buffer, one backup at a time.
SPECIFICATION FairSpec
CONSTANTS
    Threads = {t1, t2}
    MaxBackups = 1
    NoThread = NoThread
    Characters <- MCCharacters
    directory <- MCDirectory
    MAX_JOB_FILE_NAME_SIZE = 16
    BCK_NAME_SIZE = 10
    Numeral <- MCNumeral
    MostBackups = 3
    NullText <- MCNullText
    Chunks <- MCLarge
    BackupsIn <- MCBackupsIn
    Nothing = Nothing
INVARIANTS
    TypeOK
    JobsRunOnce
    AllJobsRun
    BackupsHaveTheirFile
PROPERTIES
    ServesEventually
\* The job phase ends.
CHECK_DEADLOCK FALSE
