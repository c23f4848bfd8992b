SPECIFICATION FairSpec
CONSTANTS
    N = 4
    Bootstrap <- LoginSteps
    MaxRetries = 1
    MaxRuns = 3
PROPERTY InOneGo
INVARIANT PassedMeansDone
PROPERTY FailureIsVisible
PROPERTY NothingAfterFailure
PROPERTY Settles
\* users may leave the execution alone
CHECK_DEADLOCK FALSE
