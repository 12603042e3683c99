SPECIFICATION Spec
CONSTANTS
    MaxRequests = 2
    MaxRestarts = 0
INVARIANTS
    AnswerIsGiven
