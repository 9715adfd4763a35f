SPECIFICATION FairSpec
CONSTANTS
    t1 = t1
    s1 = s1
    u1 = u1
    u2 = u2
    u3 = u3
    v1 = v1
    Trips = {t1}
    Stops = {s1}
    Times <- MCTimes
    DayLength = 24
    TorontoOffset = 4
    Feed <- MCFeed
    Ingesters = {i1, i2}
    Payloads = {u1, u2, u3, v1}
    Malformed = {u3}
    FeedType <- MCFeedType
    EventsOf <- MCEventsOf
    NoPayload = NoPayload
    HasPublisher = TRUE
    MaxFaults = 2
INVARIANTS IngestedOnce PublishedInOrder
PROPERTIES ImplementsIngest VehicleFeedPolled
