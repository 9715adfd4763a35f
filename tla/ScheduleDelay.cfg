SPECIFICATION DelaySpec
CONSTANTS
    Day = 4
    Stops = {s1, s2}
    Sequences = {1, 2}
    Planned <- MCPlanned
    Predicted <- MCPredicted
    MaxRows = 2
INVARIANTS
    DelayDeterministic
    OwnStopFirst
