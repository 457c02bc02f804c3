SPECIFICATION FecInitSpec
CONSTANTS
    GF_BITS = 3
    Threads = {"r1", "r2"}
INVARIANTS
    TestGf
