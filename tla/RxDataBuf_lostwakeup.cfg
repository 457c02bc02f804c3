SPECIFICATION Spec
CONSTANTS
    BUF_SIZE = 3
    ACK_WINDOW = 9
    REL_SIZE = 11
    MAX_BATCH_SIZE = 1
    UINT_MAX = 15
    Producers = {"RcvCell"}
    SPURIOUS = FALSE
    MAX_AHEAD = 9
    MaxSeq = 5
    MaxBatch = 0
INVARIANTS
    NoLostAvail
