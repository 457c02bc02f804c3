SPECIFICATION RawFairSpec
CONSTANTS
    ACK_WINDOW = 3
    REL_SIZE = 5
    MAX_SEND_CNT = 2
    MIN_PKT_CNT = 2
    MaxSeq = 8
INVARIANTS
    RawTypeOK
    RawAckSound
    RawAckNoOverlap
    RawNackFits
    RawNackParses
PROPERTIES
    RawReports
