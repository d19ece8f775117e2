SPECIFICATION Spec
CONSTANTS
    c1 = c1
    c2 = c2
    token = token
    model = model
    v = v
    r = r
    Conns = {c1}
    Fields = {token, model}
    Serialized = {token}
    Guarded = {token}
    NoEntry = NoEntry
    Plain = {v}
    Refs = {r}
    Disk <- FileOfBoth
    MaxOps = 2
PROPERTY RequiredOrRolledBack
\* no request is left
CHECK_DEADLOCK FALSE
