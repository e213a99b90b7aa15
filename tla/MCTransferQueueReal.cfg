CONSTANTS
    m1 = m1
    m2 = m2
    NoChild = NoChild
    Child <- MCChild
    Request <- RealRequest
    SC_BUF_SIZE = 256
    BYTE_SIZE = 256
    TX_HEADER = 6
    RX_HEADER = 4
SPECIFICATION Spec
INVARIANTS
    FrameFitsTransceive
