SPECIFICATION Spec
CONSTANTS
    AidingTypes = {eph}
    MaxSessions = 2
    MaxLoad = 4
    MaxEvents = 2
CHECK_DEADLOCK FALSE
INVARIANTS
    StopIsObeyed
    SessionIsKept
    EndIsTold
    AidingIsDeleted
    MutedIsSilent
    CleanupStops
    ModeIsGiven
PROPERTIES
    DeletedWhileOff
