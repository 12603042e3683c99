SPECIFICATION Spec
CONSTANTS
    AidingData = {a}
    MaxCalls = 5
    MaxReports = 2
    MaxRestarts = 1
    MaxQueue = 2
INVARIANTS
    SessionTypeOK
    StoppedIsIdle
    RequestIsServed
    StatusIsKnown
PROPERTIES
    SessionSettles
CHECK_DEADLOCK FALSE
