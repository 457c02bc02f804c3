SPECIFICATION ReceiveSpec
CONSTANTS
    MAX_CODED = 5
    MAX_BATCH_SIZE = 4
    MaxBatch = 2
    MaxStart = 3
    GF_BITS = 3
INVARIANTS
    ReceiveTypeOK
    AssertsHold
    HandedRight
    AnyKSuffice
    DecodedIsHanded
    DecodeRecovers
    TablesMultiply
    InvertsMatrices
PROPERTIES
    StreamSpec
