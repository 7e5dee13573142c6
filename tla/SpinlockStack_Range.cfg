CONSTANTS
    Threads = {t1}
    num_entries = 2
    NULL = NULL
    Foreign = {2}
SPECIFICATION Spec
INVARIANT RangeChecked
CHECK_DEADLOCK FALSE
