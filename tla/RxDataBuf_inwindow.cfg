SPECIFICATION Spec
CONSTANTS
    BUF_SIZE = 3
    ACK_WINDOW = 9
    REL_SIZE = 11
    MAX_BATCH_SIZE = 1
    UINT_MAX = 15
    Producers = {"RcvAth"}
    SPURIOUS = FALSE
    MAX_AHEAD = 3
    MaxSeq = 4
    MaxBatch = 2
INVARIANTS
    AckSound
    NoLostAvail
    OnlyDuplicatesIgnored
PROPERTIES
    OnlyBlockedDropped
    DeliverySpec
