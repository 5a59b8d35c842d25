SPECIFICATION Spec
CONSTANTS
    Adapters = {a1, a2}
    NULL = NULL
    Events = {sv}
    MAX_ADAPTERS = 2
    MaxLoad = 2
SYMMETRY Interchangeable
CONSTRAINT Uncrossed
CHECK_DEADLOCK FALSE
INVARIANTS
    Subscribed
    EachToldOnce
