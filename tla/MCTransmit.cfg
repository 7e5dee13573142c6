CONSTANTS
    NUM_BUFS = 4
    NUM_TX_QUEUE_ENTRIES = 4
    WTHRESH = 3
    NULL = NULL
SPECIFICATION MCSpec
INVARIANTS RingOrder PublishedComplete DDMeansSent OneOwner PoolNeverEmpty
PROPERTIES CallReturns ImplementsChannel RetrySucceeds KeepsTxRules
