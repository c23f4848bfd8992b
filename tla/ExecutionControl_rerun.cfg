SPECIFICATION Spec
CONSTANTS
    Tasks = {t1, t2}
    Requests = {r1, r2}
    Kinds <- Reruns
    Manners <- OneByOne
    MaxCrashes = 0
    NoTask = NoTask
INVARIANT NoRerunWhileRunning
\* clients may stop sending requests
CHECK_DEADLOCK FALSE
