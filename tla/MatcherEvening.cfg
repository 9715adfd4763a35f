SPECIFICATION Spec
CONSTANTS
    t1 = t1
    s1 = s1
    Trips = {t1}
    Stops = {s1}
    Times <- MCTimes
    DayLength = 24
    TorontoOffset = 4
    Feed <- EveningFeed
    Instances = {m1}
    StartupStops <- MCAllStops
    NoOwner = NoOwner
    MaxLog = 1
    MaxFaults = 0
INVARIANT AlwaysJoined
