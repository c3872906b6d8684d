\* The documentation of runTransactionBlock: a block runs again on the latest data.
CONSTANTS
    MaxOps = 3
    Values <- MCValues
    MaxRetries = 2
    MaxOthers = 1
    MaxReads = 1
    MaxFailures = 1
SPECIFICATION FairSpec
PROPERTIES
    RunsOnLatestData
CHECK_DEADLOCK FALSE
