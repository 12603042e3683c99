SPECIFICATION DsSpec
CONSTANTS
    DsClients = {c1, c2}
    MaxRetries = 4
    NoConnHandle = NoConnHandle
    MaxDsMsgs = 2
    MaxTimers = 2
INVARIANTS
    DsPendingIsAnswered
