\* Files of up to three lines, valid and mistyped; room for two keys or pairs
\* of two characters.
SPECIFICATION Spec
CONSTANTS
    MAX_STRING_SIZE = 3
    UINT_MAX = 99
    Garbage <- MCGarbage
    MAX_WRITE_SIZE = 3
    JobLines <- MCJobLines
    ClientLines <- MCClientLines
    MaxLines = 3
INVARIANTS
    TypeOK
    LinesAreRun
    CommandsAreSpelled
    LinesInStep
    ArgumentsFit
PROPERTIES
    EveryTurnReads
