SPECIFICATION Spec
CONSTANTS
    N = 3
    Bootstrap <- LoginSteps
    MaxRetries = 2
    MaxRuns = 2
INVARIANT SessionEstablished
\* users may leave the execution alone
CHECK_DEADLOCK FALSE
