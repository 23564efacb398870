\* Updates of one ordinary key whose node malloc put in a reused chunk.
SPECIFICATION Spec
CONSTANTS
    a = a
    B = B
    one = one
    odd = odd
    v1 = v1
    v2 = v2
    Keys = {a}
    Values = {v1, v2}
    Initial <- MCInitial
    TABLE_SIZE = 2
    HeapResidue = {"null", "wild"}
    Threads = {t1, t2}
    Commands <- MCUpdates
    NoThread = NoThread
    NoImage = NoImage
INVARIANTS
    UpdatesSurvive
