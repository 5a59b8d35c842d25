SPECIFICATION Spec
CONSTANTS
    Atl = {h1}
    Bit = {b1}
    agnss = agnss
    internet = internet
    BitNif = agnss
    NoApn = {agnss, internet}
    MaxInFlight = 2
    MaxLosses = 1
    MaxRestarts = 1
INVARIANTS
    PendingIsAnswered
    AcquiredIsBacked
    LinkIsReleased
PROPERTIES
    OnlyStraysCrash
    RequestsAnswered
