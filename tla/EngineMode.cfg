SPECIFICATION Spec
CONSTANTS
    AidingTypes = {}
    MaxSessions = 2
    MaxLoad = 4
    MaxEvents = 1
CHECK_DEADLOCK FALSE
INVARIANTS
    RestartKeepsMode
