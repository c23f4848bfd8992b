SPECIFICATION Spec
CONSTANTS
    N = 4
    Bootstrap <- LoginSteps
    MaxRetries = 2
    MaxRuns = 2
INVARIANT SkippedHavePassed
\* users may leave the execution alone
CHECK_DEADLOCK FALSE
