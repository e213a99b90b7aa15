\* CM001::Open and three more commands, with up to two faults.
SPECIFICATION Spec
CONSTANTS
    Used <- MCUsed
    Id = {0, 7}
    Version = 16
    Config <- MCConfig
    MaxCalls = 5
    MaxFaults = 2
INVARIANTS
    TypeOK
    AddressKnown
    OwnReply
    NothingDamaged
    MotorAsTold
PROPERTIES
    ImplementsService
CHECK_DEADLOCK FALSE
