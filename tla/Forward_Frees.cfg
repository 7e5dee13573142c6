CONSTANTS
    NUM_BUFS = 8
    NUM_RX_QUEUE_ENTRIES = 4
    NUM_TX_QUEUE_ENTRIES = 4
    WTHRESH = 1
    Packets = {p1}
    NULL = NULL
SPECIFICATION FwdSpec
INVARIANT TransmitFrees
CHECK_DEADLOCK FALSE
