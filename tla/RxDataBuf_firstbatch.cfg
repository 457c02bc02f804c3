SPECIFICATION Spec
CONSTANTS
    BUF_SIZE = 2
    ACK_WINDOW = 2
    REL_SIZE = 11
    MAX_BATCH_SIZE = 1
    UINT_MAX = 15
    Producers = {"RcvAth"}
    SPURIOUS = FALSE
    MAX_AHEAD = 9
    MaxSeq = 2
    MaxBatch = 1
INVARIANTS
    AssertEndPt
