CONSTANTS
    Cases <- MCCases
    RetryAfters = {1, 3, 61}
    MaxRetries = 3
    NotifyTimeout = 15
    KilledAt = 20
SPECIFICATION Spec
CHECK_DEADLOCK FALSE
INVARIANTS
    DoctorNamesTheSource
    EveryRowOnce
    LoginsOnce
    EstimatesSayWhy
PROPERTIES
    RetriesAreSpaced
    ReportIsPrinted
