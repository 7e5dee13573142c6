\* A block of two huge pages, of three.
CONSTANTS
    Threads = {t1}
    NULL = NULL
    HUGE = 4
    Sizes = {1, 8}
    Frames = {0, 1, 2}
    MaxCalls = 2
SPECIFICATION DmaSpec
INVARIANT BlocksContiguous
CHECK_DEADLOCK FALSE
