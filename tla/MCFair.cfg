SPECIFICATION Spec
CONSTANTS
    DSenders = {"MSAPM", "MODEM"}
    DTypes = {"SUPL"}
    DHandles = {"NULL", "agps"}
    DOpenResults <- OpenResults
    PipeSize = 2
    MaxWritten = 3
    MaxLaunches = 2
    Clients = {c1, c2}
    Delays = {1, 2}
    MaxStarts = 3
    MaxTime = 3
    DsClients = {c1}
    MaxRetries = 4
    NoConnHandle = NoConnHandle
    MaxDsMsgs = 2
    MaxTimers = 2
INVARIANTS
    MessagesArrive
    TimersAreSound
    DsAgrees
PROPERTIES
    OwnerReturns
    TimersEndOnce
    DsEveryRequestIsAnswered
