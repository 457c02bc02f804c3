SPECIFICATION Spec
CONSTANTS
    BUF_SIZE = 3
    ACK_WINDOW = 3
    REL_SIZE = 4
    MAX_BATCH_SIZE = 1
    UINT_MAX = 15
    Producers = {"RcvAth"}
    SPURIOUS = TRUE
    MAX_AHEAD = 9
    MaxSeq = 5
    MaxBatch = 1
INVARIANTS
    BlockedIsHead
    DequeueNotEmpty
    NoStaleRead
    DataNacksParse
