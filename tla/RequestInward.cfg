CONSTANTS
    Devices = {"d1"}
    Products = {"milk", "rice"}
    NoProduct <- MCNoProduct
    MaxQty = 1
    MaxConfirms = 2
    MaxRefusals = 1
    MaxNow = 1
    DayLength = 1
SPECIFICATION FairSpec
CONSTRAINT OneDisturbance
INVARIANTS
    TypeOK
    DayExactWhenSerial
    TillExactUnlessReselected
    TillBackedByInvoices
PROPERTIES
    ImplementsLedger
    InvoiceIsCredited
