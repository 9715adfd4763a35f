\* An old and a new image migrate the same database at once, from an empty
\* schema or any legacy one, with failures between any two statements.
SPECIFICATION FairSpec
CONSTANTS
    old = old
    new = new
    Migrators = {old, new}
    NFiles = 4
    Baseline = 2
    Image <- MCImages
    MaxFailures = 2
INVARIANTS
    RecordedIsApplied
    ServedSchemaComplete
PROPERTIES
    EventuallyRecorded
