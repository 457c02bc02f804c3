SPECIFICATION FairSpec
CONSTANTS
    BUF_SIZE = 3
    ACK_WINDOW = 9
    REL_SIZE = 11
    MAX_BATCH_SIZE = 1
    UINT_MAX = 15
    Producers = {"RcvAth"}
    SPURIOUS = FALSE
    MAX_AHEAD = 3
    MaxSeq = 3
    MaxBatch = 1
PROPERTIES
    EnqueueReturns
    PendingDelivered
