CONSTANTS
    Devices = {"d1"}
    Products = {"milk", "rice"}
    Price <- MCPrice
    MaxQty = 1
    MaxPages = 2
    MaxRefusals = 1
    MaxNow = 0
    DayLength = 1
    Asserts = FALSE
SPECIFICATION Spec
INVARIANTS
    TypeOK
    ProductCountTracksCart
    TotalsTrackCart
    SuccessMeansUploaded
    TillNeverExceedsLedger
    RecentIsBacked
