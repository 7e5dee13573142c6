CONSTANTS
    NULL = NULL
    RxQueues = 2
    TxQueues = 2
    NUM_RX_QUEUE_ENTRIES = 4
    NUM_TX_QUEUE_ENTRIES = 2
    MAX_RX_QUEUE_ENTRIES = 4
    MAX_TX_QUEUE_ENTRIES = 4
    MEMPOOL_ENTRIES = 4
    RegisterSet <- MCRegisterSet
    Lengths <- MCLengths
    Data <- MCData
    Processes = {p1}
    self = p1
SPECIFICATION HwSpec
INVARIANT QueuesApart
CHECK_DEADLOCK FALSE
