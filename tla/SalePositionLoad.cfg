SPECIFICATION FairSpec
CONSTANTS
    Terminals = {POS_2, POS_11}
    Dates = {monday, tuesday}
    Today = tuesday
    Orders = {o1}
    None <- MCNone
    MaxSale = 1
    MaxRetrievals = 2
    MaxRefusals = 1
INVARIANTS
    TotalWithinSales
    DetailsAddUp
    BillsMatchDetails
    OrdersComplete
    OrdersStrayByEvents
PROPERTIES
    ImplementsGathering
    RetrievalEnds
CHECK_DEADLOCK FALSE
