CONSTANTS
    c1 = c1
    c2 = c2
    Calls <- MCCalls
    ProcessTimeout = 0
    RefreshDeadline = 2
    MaxRefreshes = 2
    MaxRequests = 1
SPECIFICATION Spec
INVARIANTS
    OutputIsWhole
    SpentOncePerRequest
PROPERTIES
    RefreshesAreAnswered
    RefreshEnds
    CallsEnd
