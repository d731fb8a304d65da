SPECIFICATION Spec
CONSTANTS
    P1 = P1
    P2 = P2
    Proc = {P1, P2}
    NoProc = NoProc
    codex = codex
    fiveHours = fiveHours
    Provider <- MCProvider
    Window <- MCWindow
    Current = Current
    Default = Default
    Unnamed = Unnamed
    NoNumber = NoNumber
    Config <- MCConfig
    Reading <- MCReading
    Scope <- MCScope
    Cooldown = 2
    MaxTime = 2
    MaxRuns = 3
INVARIANTS RecordMatchesDelivery SnoozeIsAsAsked
PROPERTIES CooldownRespected SnoozeRespected EveryRunEnds
CHECK_DEADLOCK FALSE
