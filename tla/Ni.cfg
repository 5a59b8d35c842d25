SPECIFICATION Spec
CONSTANTS
    MaxRequests = 2
    MaxRestarts = 1
CHECK_DEADLOCK FALSE
INVARIANTS
    AnsweredOnce
    NothingLost
    AnswerIsUsers
PROPERTIES
    SlotIsFreed
