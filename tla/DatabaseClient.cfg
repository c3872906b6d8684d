\* One product's figure, three operations, one loss or refusal, one other client.
CONSTANTS
    MaxOps = 3
    Values <- MCValues
    MaxRetries = 2
    MaxOthers = 1
    MaxReads = 1
    MaxFailures = 1
SPECIFICATION FairSpec
INVARIANTS
    TypeOK
    AppliedOnce
    ReportsAreTrue
    StoredInOrder
PROPERTIES
    AcknowledgedIsSeen
    AddsItsUnit
    EveryCallEnds
\* The instance stops when its operations and failures are used up.
CHECK_DEADLOCK FALSE
