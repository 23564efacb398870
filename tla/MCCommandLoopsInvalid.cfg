\* Two lines of a job file or a client.
SPECIFICATION Spec
CONSTANTS
    MAX_STRING_SIZE = 3
    UINT_MAX = 99
    Garbage <- MCGarbage
    MAX_WRITE_SIZE = 3
    JobLines <- MCJobLines
    ClientLines <- MCClientLines
    MaxLines = 2
INVARIANTS
    InvalidCostsOneLine
