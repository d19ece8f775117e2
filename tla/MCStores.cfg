SPECIFICATION StoresSpec
CONSTANTS
    token = token
    model = model
    plain = plain
    ref = ref
    Conns = {c1, c2}
    Fields = {token, model}
    Serialized = {token}
    Guarded = {token}
    NoEntry = NoEntry
    Plain = {plain}
    Refs = {ref}
    Disk <- FileOfBoth
    MaxOps = 2
    Runs = {r1, r2, r3}
    Keys = {k1, k2}
    NoKey = NoKey
    NoHandle = NoHandle
    MaxAdmin = 2
    CreatorsOverlap = FALSE
    MaxRequests = 3
    Aside = Aside
    Paths = {f1, f2, f3}
    Root = f1
    MaxIncludes = 2
    MaxIncludeDepth = 1
INVARIANTS
    PatchesKept
    SessionsSound
    IncludesSound
PROPERTIES
    StrictReloadResolves
    HttpSettles
\* no request is left
CHECK_DEADLOCK FALSE
