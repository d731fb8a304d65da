SPECIFICATION Spec
CONSTANTS
    T1 = T1
    T2 = T2
    R1 = R1
    R2 = R2
    Tools = {T1}
    NoTool = NoTool
    Runs = {R1, R2}
    Latest = 2
    Found = {0, 1, 2}
    MaxLag = 2
    MaxStarts = 3
    MaxOpens = 3
PROPERTIES RowsSettle
CHECK_DEADLOCK FALSE
