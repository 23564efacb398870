\* Two threads; two keys that collide, one alone and one without a bucket;
\* subscriber lists that malloc may have left wild; any command at any time.
SPECIFICATION Spec
CONSTANTS
    a = a
    B = B
    one = one
    odd = odd
    v1 = v1
    v2 = v2
    Keys = {a, B, one, odd}
    Values = {v1, v2}
    Initial <- MCInitial
    TABLE_SIZE = 2
    HeapResidue = {"null", "wild"}
    Threads = {t1, t2}
    Commands <- MCCommands
    NoThread = NoThread
    NoImage = NoImage
INVARIANTS
    TypeOK
    TablesWellFormed
PROPERTIES
    ReadersSeeOneTable
    ImplementsKvStore
