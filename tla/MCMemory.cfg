\* A stack of two entries fills a huge page, so a DMA parent gets back what it
\* gave.
CONSTANTS
    Threads = {t1, t2}
    NULL = NULL
    HUGE = 4
    Sizes = {1, 8}
    Frames = {0, 1, 2, 3}
    MaxCalls = 3
    ARENA = 9
    num_entries = 2
    entry_size = 2
    Requests = {1, 2, 3}
    Parents = {"malloc", "null", "dma"}
    Secondaries = {"malloc", "null", "dma"}
    Tids = {11, 12, 13}
    MaxDepth = 2
SPECIFICATION MemSpec
INVARIANTS
    MemoryDisjoint
    BlocksDisjoint BlocksGoHome NothingLeft
    ChecksPass
    ReentryNeverWaits
PROPERTY ImplementsMutex
