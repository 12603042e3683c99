SPECIFICATION Spec
CONSTANTS
    AtlClients = {a1, a2}
    BitClients = {b1}
    MaxMsgs = 2
    MaxRequests = 2
    MaxRestarts = 1
INVARIANTS
    TypeOK
    ReleasedHasNoSubscribers
    GrantIsBacked
    WaitingIsTracked
    MachineAgrees
PROPERTIES
    EveryClientIsAnswered
