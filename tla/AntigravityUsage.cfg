SPECIFICATION Spec
CONSTANTS
    P1 = P1
    P2 = P2
    P3 = P3
    Proc = {P1, P2, P3}
    NoProc = NoProc
    MinInterval = 2
    AuthBackoff = 3
    MaxAge = 2
    MaxTime = 5
    MaxRuns = 5
INVARIANTS OneAgyAtATime ServedNumbersAreDated
PROPERTIES RunsAreSpaced AuthPauseIsKept
CHECK_DEADLOCK FALSE
