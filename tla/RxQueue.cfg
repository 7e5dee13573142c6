CONSTANTS
    NUM_BUFS = 12
    NUM_RX_QUEUE_ENTRIES = 4
    Packets = {p1, p2}
    NULL = NULL
SPECIFICATION Spec
INVARIANTS DDMeansReceived PostedExclusive
PROPERTIES DriverKeepsOff RingRefilled ImplementsChannel
CHECK_DEADLOCK FALSE
