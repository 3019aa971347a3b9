SPECIFICATION TimelySpec
CONSTANTS
    Msgs = {m1, m2}
    Mids = {m1, m2}
    MidOf <- OwnMids
    Runners = {r1, r2}
    NoMsg = NoMsg
    RetryInterval = 3
    MaxLag = 0
    MaxPending = 1
SYMMETRY Symmetry
INVARIANTS   RetransmitGapBound
