CONSTANTS
    NUM_BUFS = 6
    NUM_RX_QUEUE_ENTRIES = 2
    Packets = {p1}
    NULL = NULL
SPECIFICATION Spec
INVARIANT HeadersIntact
CHECK_DEADLOCK FALSE
