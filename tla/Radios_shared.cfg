SPECIFICATION RadiosSpec
CONSTANTS
    RadioIds = {2, 3}
    MaxQueue = 1
    MaxOSeq = 1
    MaxBatch = 1
INVARIANTS
    NewBatchAcked
