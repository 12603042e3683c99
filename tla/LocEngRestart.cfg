SPECIFICATION Spec
CONSTANTS
    AidingData = {a}
    MaxCalls = 5
    MaxReports = 2
    MaxRestarts = 1
    MaxQueue = 2
INVARIANTS
    FixHasMode
CHECK_DEADLOCK FALSE
