SPECIFICATION FairSpec
CONSTANTS
    c1 = c1
    c2 = c2
    r1 = r1
    r2 = r2
    Runs = {r1}
    Conns = {c1}
    Home <- SingleRun
    Keys = {}
    NoKey = NoKey
    NoRun = NoRun
    Leavers = {c1}
    ReuseKeys = FALSE
    EventCap = 1
    TxCap = 1
    MaxIter = 1
    MaxStream = 2
    MaxPatches = 0
    MaxReads = 0
PROPERTY DisconnectEndsRuns
CHECK_DEADLOCK FALSE
