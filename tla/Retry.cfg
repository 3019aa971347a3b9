SPECIFICATION FairSpec
CONSTANTS
    Msgs = {m1}
    Mids = {m1}
    MidOf <- OwnMids
    Runners = {r1, r2}
    NoMsg = NoMsg
    RetryInterval = 2
    MaxLag = 1
    MaxPending = 1
INVARIANTS TypeOK ArmedTimerExists RetryArmed
PROPERTY OverdueIsRetried
