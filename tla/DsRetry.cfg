CONSTANTS
    Handles = {h1}
    NoHandle = NoHandle
    MaxRetries = 1
    MaxRequests = 2
    MaxRestarts = 0
SPECIFICATION Spec
INVARIANT FailedIsRetried
CHECK_DEADLOCK FALSE
