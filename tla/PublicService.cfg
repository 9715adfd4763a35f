\* The public container with a buffer of one message, under the schedulers'
\* fairness: full channels, failing consumers, signals, crashes, restarts.
SPECIFICATION FairSpec
CONSTANTS
    Capacity = 1
    MaxEvents = 2
INVARIANTS
    EachEventInOnePlace
PROPERTIES
    
    FailureEndsProcess
    BackpressureResolves
