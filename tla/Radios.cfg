SPECIFICATION RadiosSpec
CONSTANTS
    RadioIds = {r1, r2}
    MaxQueue = 1
    MaxOSeq = 2
    MaxBatch = 1
SYMMETRY Symmetry
INVARIANTS
    RadiosTypeOK
    WrittenOnce
    RadioInOrder
    SleepsAfterAck
