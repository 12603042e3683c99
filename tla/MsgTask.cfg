SPECIFICATION Spec
CONSTANTS
    MaxMsgs = 4
CHECK_DEADLOCK FALSE
INVARIANTS
    MsgTypeOK
    AliveWhileUsed
    NothingIsLeft
PROPERTIES
    IsFifo
    TaskGoesOn
