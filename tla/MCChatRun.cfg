SPECIFICATION ChatFairSpec
CONSTANTS
    Runs = {r1}
    EventCap = 2
    MaxIter = 2
    MaxStream = 3
INVARIANT ChatTypeOK
INVARIANT EventOrder
INVARIANT AnswerMatchesEvent
INVARIANT CancelStopsDeltas
PROPERTY ImplementsPromise
PROPERTY RunTerminates
\* a run that has ended, whose token is cancelled and channel drained, stops
CHECK_DEADLOCK FALSE
