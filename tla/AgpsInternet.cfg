SPECIFICATION Spec
CONSTANTS
    Atl = {h1}
    Bit = {b1}
    agnss = agnss
    internet = internet
    BitNif = internet
    NoApn = {}
    MaxInFlight = 2
    MaxLosses = 0
    MaxRestarts = 0
INVARIANTS
    PendingExpects
