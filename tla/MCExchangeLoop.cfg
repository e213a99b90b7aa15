\* Up to three keys; any board; an exchange may fail at any time.
SPECIFICATION FairSpec
CONSTANTS
    Board = {"pwm", "da", "pio"}
    Junk <- MCJunk
    Capacity = 3
    MaxLeft = 2
    MaxKeys = 3
INVARIANTS
    TypeOK
    ZeroAtEnd
    QueueStaysOpen
PROPERTIES
    EscEnds
CHECK_DEADLOCK FALSE
