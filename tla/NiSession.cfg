SPECIFICATION Spec
CONSTANTS
    MaxRequests = 2
    MaxRestarts = 1
INVARIANTS
    NiIsSound
    AnsweredOnce
    AnswerBySelf
    EsIsNewer
PROPERTIES
    EveryRequestEnds
