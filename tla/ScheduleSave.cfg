SPECIFICATION Spec
CONSTANTS
    P1 = P1
    P2 = P2
    Proc = {P1, P2}
    NoProc = NoProc
    Platform = {"darwin", "linux", "windows"}
    AgentUpdate = AgentUpdate
    SessionRefresh = SessionRefresh
    Task = {AgentUpdate, SessionRefresh}
    daily = daily
    sixHours = sixHours
    Interval = {daily, sixHours}
    HourInterval = {daily}
    Unknown = Unknown
    Bad = Bad
    Hour = {8, 9}
    MaxRuns = 2
PROPERTIES FailedUpdateRestores OthersKept UnrelatedSaveKeepsSchedule
CHECK_DEADLOCK FALSE
