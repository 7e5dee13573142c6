CONSTANTS
    NULL = NULL
    RxQueues = 1
    TxQueues = 1
    NUM_RX_QUEUE_ENTRIES = 4
    NUM_TX_QUEUE_ENTRIES = 2
    MAX_RX_QUEUE_ENTRIES = 4
    MAX_TX_QUEUE_ENTRIES = 4
    MEMPOOL_ENTRIES = 4
    RegisterSet <- MCRegisterSet
    Lengths <- MCLengths
    Data <- MCData
    Processes = {p1, p2}
    self = p1
SPECIFICATION HwSpec
INVARIANTS
    DmaOnlyWhenReady ConfigurationSurvives MappedDeviceWorks
    NoOverlap MaskIsModulus DDTells WordsMeant
PROPERTIES RxOffWhileConfigured StartupEnds
CHECK_DEADLOCK FALSE
