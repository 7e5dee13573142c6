CONSTANTS
    Threads = {t1, t2, t3}
    num_entries = 2
    NULL = NULL
    Foreign = {5}
SPECIFICATION Spec
INVARIANTS MutualExclusion OnePlace
PROPERTIES LockMoves ImplementsAtomicStack
CHECK_DEADLOCK FALSE
