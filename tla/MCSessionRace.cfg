SPECIFICATION SessionSpec
CONSTANTS
    Runs = {r1, r2}
    Keys = {k1}
    NoKey = NoKey
    NoHandle = NoHandle
    MaxAdmin = 0
    CreatorsOverlap = TRUE
INVARIANT AnswersKept
CHECK_DEADLOCK FALSE
