\* The documentation of runTransactionBlock again, where nothing happens but five
\* operations of one client: a transaction forgotten by an overwrite, and those
\* behind it.
CONSTANTS
    MaxOps = 5
    Values <- MCValues
    MaxRetries = 2
    MaxOthers = 0
    MaxReads = 0
    MaxFailures = 0
SPECIFICATION FairSpec
PROPERTIES
    RunsOnLatestData
CHECK_DEADLOCK FALSE
