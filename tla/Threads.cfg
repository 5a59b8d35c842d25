SPECIFICATION MCSpec
CHECK_DEADLOCK FALSE
CONSTANTS
    Messages = 3
    MaxMessages = 3
INVARIANTS
    EachMessageOnce
    DelegateIsCounted
    LaunchIsReady
PROPERTIES
    EachIsHandled
    DestroyReturns
    JoinReturns
    DaemonIsAnswered
