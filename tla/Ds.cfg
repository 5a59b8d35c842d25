CONSTANTS
    Handles = {h1, h2}
    NoHandle = NoHandle
    MaxRetries = 1
    MaxRequests = 3
    MaxRestarts = 1
SPECIFICATION Spec
INVARIANTS CallIsStopped RetryReadsLive
PROPERTY EsAnswered
CHECK_DEADLOCK FALSE
