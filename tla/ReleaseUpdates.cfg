SPECIFICATION Spec
CONSTANTS
    U1 = U1
    U2 = U2
    Updaters = {U1, U2}
    NoUpdater = NoUpdater
    C1 = C1
    C2 = C2
    Checks = {C1, C2}
    MaxRelease = 3
    MaxUpdates = 2
    MaxChecks = 2
    MaxToggles = 2
INVARIANTS InstalledIsWhole
PROPERTIES LoneUpdateInstalls LateAnswersAreDropped UpdatingEnds
CHECK_DEADLOCK FALSE
