\* The page and the API over a growing database, with failing requests, both
\* ways to refresh, the preference and the page being closed.
SPECIFICATION FairSpec
CONSTANTS
    Host = "api"
    AllowedOrigins <- MCAllowedOrigins
    PageRequest <- MCPageRequest
    Errors <- MCErrors
    MaxHorizon = 3
    DefaultLimit = 2
    MaxLimit = 3
    QualityLimit = 3
    MaxVersion <- MCMaxVersion
    MaxFailures = 1
    MaxLoads = 2
INVARIANTS
    WarningsMatchFailures
    CountedIsCollected
    ShortHorizonsExact
PROPERTIES
    ShownNeverGoesBack
    EventuallyFresh
\* A closed page does nothing any more.
CHECK_DEADLOCK FALSE
