SPECIFICATION Spec
CONSTANTS
    c1 = c1  c2 = c2  m1 = m1  m2 = m2  m3 = m3
    Clients = {c1, c2}
    Keys <- SomeKeys
    Shared = {"share"}
    BadShare = {"badshare"}
    Malformed = {}
    Filters = {"#", "b"}
    FilterOf <- SomeFilterOf
    Topics = {"a", "b", "/c"}
    Match <- SomeMatch
    QoS = {1, 3}
    Msgs = {m1, m2, m3}
    QosOf <- SomeQosOf
    TopicOf <- SomeTopicOf
    Retain = {m1, m3}
    MaxSent = 2
    Gens = {1, 2}
    None = None
SYMMETRY Symmetry
INVARIANTS
    TypeOK
    IndexAgrees
    NoRetainedMissed
    OnlyWhatWasAsked
    OneOfTheShared
CHECK_DEADLOCK FALSE
