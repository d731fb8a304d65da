CONSTANTS
    Configs <- MCConfigs
    AddTo = {"codex", "kimi"}
    Names = {"work", "a*n"}
    Homes = {"default", "h1", "h2"}
    TmpHomes = {"t1", "t2"}
    Logins = {"ann", "bo", "cy"}
    DefaultHome = "default"
    EmailAlias <- MCEmailAlias
    SegmentHome <- MCSegmentHome
    Masked = "***"
    NoEmail = "asks"
    Toggles = {{}, {"codex"}}
    MaxCommands = 3
SPECIFICATION AccountSpec
CHECK_DEADLOCK FALSE
INVARIANTS
    AccountsAreAsTold
    CreditGoesToItsRow
PROPERTIES
    NewAccountShowsItsLogin
    UnchangedPickerKeepsRows
