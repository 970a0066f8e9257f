CONSTANTS
    MaxIn = 4
    MaxOut = 2
    MaxChunk = 3
SPECIFICATION TlsFairSpec
INVARIANTS
    TlsInv
    SentInOrder
PROPERTIES
    StreamSpec
    PlaintextIsRead
    CloseIsReported
    WrittenIsSent
CHECK_DEADLOCK FALSE
