CONSTANTS
    m1 = m1
    m2 = m2
    NoChild = NoChild
    Child <- OneChild
    Kind <- ExchangeAndQuery
    SC_BUF_SIZE = 14
    BYTE_SIZE = 14
    TX_HEADER = 1
    RX_HEADER = 1
    ExchangeIn = 1
    QueryIn = 2
    MaxCalls = 2
    MaxFaults = 0
SPECIFICATION Spec
INVARIANTS
    QueryGetsItsReply
CHECK_DEADLOCK FALSE
