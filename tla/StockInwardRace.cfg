CONSTANTS
    Devices = {"d1", "d2"}
    Products = {"milk"}
    Price <- MCPrice
    MaxQty = 2
    MaxPages = 1
    MaxRefusals = 0
    MaxNow = 1
    DayLength = 1
    Asserts = TRUE
SPECIFICATION FairSpec
INVARIANTS
    HeaderCountsItsLines
    LedgerExactWhenSerial
PROPERTIES
    UploadEnds
    ImplementsLedger
