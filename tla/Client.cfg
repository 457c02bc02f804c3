SPECIFICATION MCSpec
CONSTANTS
    Ids = {2}
    BsIds = {2, 3}
    Clients = {10, 11}
    CLIENT = 10
    K = 2
    N = 3
    UINT16 = 16
    MaxBatch = 3
    MaxLen = 2
    MaxReport = 4
    MAX_RADIO = 3
    MAX_ACK_CNT = 1
    UINT8 = 4
    PORT_ETH = 55554
    PORT_ATH = 55555
    Commands <- MCCommands
INVARIANTS
    LengthKept
    EndsOnlyOnFault
    OptionsRespected
    TimeLeftEnough
    ReadingWhole
PROPERTIES
    ReadingsAdvance
CHECK_DEADLOCK FALSE
