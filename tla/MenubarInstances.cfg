SPECIFICATION MenubarSpec
CONSTANTS
    P1 = P1
    P2 = P2
    P3 = P3
    P4 = P4
    Procs = {P1, P2, P3, P4}
    MaxCommands = 3
    MaxLogins = 1
PROPERTIES LoneStartLeavesOne RestartComesBack
CHECK_DEADLOCK FALSE
