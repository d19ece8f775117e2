SPECIFICATION FairSpec
CONSTANTS
    c1 = c1
    c2 = c2
    tok = tok
    pw = pw
    NoSecret = NoSecret
    NoDevice = NoDevice
    NoSignature = NoSignature
    NoParams = NoParams
    Conns = {c1, c2}
    Remote = {c2}
    Secrets = {tok, pw}
    ScopeLists <- MCScopeLists
    Creds <- MCCreds
    Setups <- MCSetups
    Skew = 0
    HandshakeTimeout = 1
    Drifts = {1}
    MaxClock = 2
    MaxOpen = 1
    MaxSent <- MCMaxSent
INVARIANT TypeOK
INVARIANT OpenIsEntitled
INVARIANT ReplyOrder
INVARIANT EarnedScopes
PROPERTY HandshakeEnds
\* clients may say nothing more and the clock is bounded
CHECK_DEADLOCK FALSE
