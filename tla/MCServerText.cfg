CONSTANTS
    Message <- MixedLength
    BUFFER_SIZE = 3
    FreshByte <- DebugFill
    Sample <- OneSample
    Board = {"sensor"}
    Capacity = 3
    MaxStream = 2
    MaxFaults = 0
SPECIFICATION Spec
INVARIANTS
    NumberIsTheSent
CHECK_DEADLOCK FALSE
