CONSTANTS
    m1 = m1
    m2 = m2
    NoChild = NoChild
    Child <- MCChild
    Kind <- ExchangeAndQuery
    SC_BUF_SIZE = 12
    BYTE_SIZE = 12
    TX_HEADER = 1
    RX_HEADER = 1
    ExchangeIn = 1
    QueryIn = 2
    MaxCalls = 3
    MaxFaults = 2
SYMMETRY Symmetry
SPECIFICATION Spec
INVARIANTS
    TypeOK
    TrueMeansServed
    ExchangeFresh
    QueryDelivered
PROPERTIES
    GoneOnlyByBacklog
    StepsBackInRepeat
CHECK_DEADLOCK FALSE
