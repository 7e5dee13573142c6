CONSTANTS
    NUM_BUFS = 8
    NUM_RX_QUEUE_ENTRIES = 4
    NUM_TX_QUEUE_ENTRIES = 4
    WTHRESH = 1
    Packets = {p1}
    NULL = NULL
    LOW = 3
    PERIOD = 2
    OCTETS = 2
    MaxPackets = 3
SPECIFICATION AppSpec
INVARIANT CountedOnce
PROPERTIES KeepsReceiving ReportsKeepComing
CHECK_DEADLOCK FALSE
