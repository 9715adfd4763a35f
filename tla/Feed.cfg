\* Every answer of the upstream and every message of at most two entities.
SPECIFICATION Spec
CONSTANTS
    Environments <- MCEnvironments
    Header <- MCHeader
    Recorded = 3
    RawEntities <- MCRawEntities
    MaxEntities = 2
    MaxInteger = 9
    LastEncoded = 9
    LastStored = 10
INVARIANTS
    NormalizedIsAccepted
    WholeOrNothing
    OwnTimeKept
    OneMode
    RequestsAuthenticated
