CONSTANTS
    Message <- OneDigit
    BUFFER_SIZE = 3
    FreshByte <- DebugFill
    Sample <- OneSample
    Board = {"sensor"}
    Capacity = 3
    MaxStream = 2
    MaxFaults = 0
SPECIFICATION FedSpec
PROPERTIES
    DisconnectEnds
CHECK_DEADLOCK FALSE
