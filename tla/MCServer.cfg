CONSTANTS
    Message <- MixedLength
    BUFFER_SIZE = 3
    FreshByte <- DebugFill
    Sample <- Samples
    Board = {"sensor", "enc"}
    Capacity = 2
    MaxStream = 2
    MaxFaults = 2
SPECIFICATION FedSpec
INVARIANTS
    TypeOK
    StopsWithTheSecond
PROPERTIES
    FilterBetween
    StopReachesMotor
    EscEnds
CHECK_DEADLOCK FALSE
