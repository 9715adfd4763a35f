SPECIFICATION FairSpec
CONSTANTS
    t1 = t1
    s1 = s1
    Trips = {t1}
    Stops = {s1}
    Times <- MCTimes
    DayLength = 24
    TorontoOffset = 4
    Feed <- WholeFeed
    Instances = {m1}
    StartupStops <- MCStartupStops
    NoOwner = NoOwner
    MaxLog = 2
    MaxFaults = 1
PROPERTIES DueEventuallyObserved EveryMessageCommitted
