SPECIFICATION Spec
CONSTANTS
    Vehicles = {v1, v2}
    Trips = {t1, t2}
    Modes = {fixture, stm}
    OwnMode = stm
    Window = 1
    Near = 1
    Recent = 1
    Lags <- MCLags
    MaxNow = 3
    MaxRows = 3
INVARIANTS
    DelayAgeBounded
    OwnTripFirst
PROPERTY
    NeverBehind
SYMMETRY MCSymmetry
CHECK_DEADLOCK FALSE
