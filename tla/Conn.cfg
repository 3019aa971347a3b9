SPECIFICATION DrainSpec
CONSTANTS
    c1 = c1  c2 = c2  w1 = w1  w2 = w2
    Conns = {c1, c2}
    Workers = {w1, w2}
    WorkerOf <- OneWorker
    KeepAlive = {c1}
    MaxPackets = 3
    NoConn = NoConn
INVARIANTS
    TypeOK
    NoNilConn
    ProcessedInOrder
    PanicNeedsMalformed
    CloseIsFinal
PROPERTY
    GoneIsReleased
CHECK_DEADLOCK FALSE
