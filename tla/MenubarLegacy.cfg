SPECIFICATION MenubarSpec
CONSTANTS
    P1 = P1
    P2 = P2
    P3 = P3
    P4 = P4
    Procs = {P1, P2, P3}
    MaxCommands = 1
    MaxLogins = 0
PROPERTIES LegacyTakesOver
CHECK_DEADLOCK FALSE
