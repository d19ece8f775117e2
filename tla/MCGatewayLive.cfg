SPECIFICATION FairSpec
CONSTANTS
    c1 = c1
    c2 = c2
    r1 = r1
    r2 = r2
    Runs = {r1}
    Conns = {c1, c2}
    Home <- SingleRun
    Keys = {}
    NoKey = NoKey
    NoRun = NoRun
    Leavers = {}
    ReuseKeys = FALSE
    EventCap = 1
    TxCap = 1
    MaxIter = 1
    MaxStream = 1
    MaxPatches = 1
    MaxReads = 1
INVARIANT Delivery
PROPERTY ConfigFixedDuringRun
PROPERTY EveryRunEnds
PROPERTY EveryRequestAnswered
\* every run has ended and every client is silent
CHECK_DEADLOCK FALSE
