SPECIFICATION Spec
CONSTANTS
    AtlClients = {a1, a2}
    BitClients = {}
    MaxMsgs = 3
    MaxRequests = 3
    MaxRestarts = 0
INVARIANTS
    NoConnectionLeak
