SPECIFICATION FairSpec
CONSTANTS
    c1 = c1  c2 = c2  w1 = w1  w2 = w2
    Conns = {c1, c2}
    Workers = {w1}
    WorkerOf <- OneWorker
    KeepAlive = {c1}
    MaxPackets = 1
    NoConn = NoConn
PROPERTY
    SubmitReturns
CHECK_DEADLOCK FALSE
