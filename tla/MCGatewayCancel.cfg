SPECIFICATION Spec
CONSTANTS
    c1 = c1
    c2 = c2
    r1 = r1
    r2 = r2
    Runs = {r1, r2}
    Conns = {c1}
    Home <- OneHome
    Keys = {k1}
    NoKey = NoKey
    NoRun = NoRun
    Leavers = {c1}
    ReuseKeys = FALSE
    EventCap = 1
    TxCap = 1
    MaxIter = 1
    MaxStream = 0
    MaxPatches = 1
    MaxReads = 0
INVARIANT ActiveRunsExact
INVARIANT DisconnectCancels
PROPERTY ImplementsChatRun
\* every run has ended and every client is silent or gone
CHECK_DEADLOCK FALSE
