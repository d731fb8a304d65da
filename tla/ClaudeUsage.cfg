SPECIFICATION Spec
CONSTANTS
    P1 = P1
    P2 = P2
    Proc = {P1, P2}
    NoProc = NoProc
    RetryAfter = {0, 1, 3}
    BackoffDefault = 1
    BackoffMax = 2
    MaxRetries = 1
    MaxRetryDelay = 1
    MaxAge = 1
    MaxTime = 3
    MaxRuns = 4
SYMMETRY ProcSymmetry
INVARIANTS ServedNumbersAreDated BackoffIsBounded EndpointLeftAlone
CHECK_DEADLOCK FALSE
