\* A container, two matchers and a person share a database that holds no
\* schedule, over two days, with one process killed or one answer lost anywhere.
SPECIFICATION FairSpec
CONSTANTS
    c = c
    m1 = m1
    m2 = m2
    h = h
    Containers = {c}
    Importers = {h}
    Matchers = {m1, m2}
    StopsFile <- MCStopsFile
    Archives <- MCArchives
    SiteArchives <- MCSiteArchives
    HandArchives <- MCHandArchives
    Content <- MCContent
    HandVersions <- MCHandVersions
    IntOf <- MCIntOf
    FloatOf <- MCFloatOf
    ClockOf <- MCClockOf
    MaxBytes = 2
    MaxDownload = 1
    MaxColumn = 5000000
    MaxDay = 1
    MaxFaults = 1
INVARIANTS
    ScheduleSound
    OneImportEach
    ServesWithSchedule
    
PROPERTIES
    VersionsImmutable
    LoadsNewest
    EventuallyUp
CHECK_DEADLOCK FALSE
