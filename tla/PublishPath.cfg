SPECIFICATION DrainSpec
CONSTANTS
    m1 = m1  m2 = m2  m3 = m3  m4 = m4  m5 = m5  i1 = i1
    Msgs = {m1, m2, m3, m4, m5}
    Ids = {i1}
    IdOf <- OneId
    QosOf <- EachQosOf
    Bridged = {m1, m2}
    Capacity = 1
    AwaitRelTimeout = 1
    MaxAwaitingRel = 0
    MaxConns = 2
    MaxSends = 2
    MaxQueue = 1
    None = None
INVARIANTS
    TypeOK
    RoutedOnce
    AckedIsRouted
    HeldIsWatched
PROPERTY
    HandshakeEnds
CHECK_DEADLOCK FALSE
