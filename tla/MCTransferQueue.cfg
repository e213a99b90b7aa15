CONSTANTS
    m1 = m1
    m2 = m2
    NoChild = NoChild
    Child <- MCChild
    Request <- MCRequest
    SC_BUF_SIZE = 40
    BYTE_SIZE = 40
    TX_HEADER = 6
    RX_HEADER = 4
SPECIFICATION Spec
INVARIANTS
    TypeOK
    BufferBounds
    ReplyRouting
    Accounting
PROPERTIES
    AcceptedNeverLost
    WedgeIsPermanent
