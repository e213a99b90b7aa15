CONSTANTS
    m1 = m1
    m2 = m2
    NoChild = NoChild
    Child <- MCChild
    Kind <- AllKinds
    SC_BUF_SIZE = 12
    BYTE_SIZE = 12
    TX_HEADER = 1
    RX_HEADER = 1
    ExchangeIn = 1
    QueryIn = 2
    MaxCalls = 2
    MaxFaults = 2
SPECIFICATION FairSpec
INVARIANTS
    TrueMeansServed
    ExchangeFresh
    QueryDelivered
PROPERTIES
    CallReturns
CHECK_DEADLOCK FALSE
