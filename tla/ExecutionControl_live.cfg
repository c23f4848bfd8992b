SPECIFICATION FairSpec
CONSTANTS
    Tasks = {t1, t2}
    Requests = {r1, r2, r3}
    Kinds <- AllKinds
    Manners <- AnyManner
    MaxCrashes = 1
    NoTask = NoTask
PROPERTY Settles
PROPERTY StopEndsOrphan
\* clients may stop sending requests
CHECK_DEADLOCK FALSE
