SPECIFICATION FfiSpec
CONSTANTS
    Threads = {t1, t2}
    MaxStrings = 1
PROPERTY ShutdownStopsRun
CHECK_DEADLOCK FALSE
