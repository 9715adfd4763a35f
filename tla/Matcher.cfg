SPECIFICATION Spec
CONSTANTS
    t1 = t1
    s1 = s1
    Trips = {t1}
    Stops = {s1}
    Times <- MCTimes
    DayLength = 24
    TorontoOffset = 4
    Feed <- MiddayFeed
    Instances = {m1, m2}
    StartupStops <- MCAllStops
    NoOwner = NoOwner
    MaxLog = 2
    MaxFaults = 1
INVARIANTS StoredOnce CommittedSettled ArrivalsGrounded TriggerJoined
PROPERTY ImplementsArrivalLog
SYMMETRY MCSymmetry
