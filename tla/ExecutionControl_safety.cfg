SPECIFICATION Spec
CONSTANTS
    Tasks = {t1, t2}
    Requests = {r1, r2, r3, r4}
    Kinds <- AnyRequest
    Manners <- AllManners
    MaxCrashes = 0
    NoTask = NoTask
INVARIANT NoOrphan
INVARIANT StopReachesTask
INVARIANT VerdictHasReport
PROPERTY StopIsFinal
\* clients may stop sending requests
CHECK_DEADLOCK FALSE
