SPECIFICATION Spec
CONSTANTS
    Terminals = {POS_2, POS_11}
    Dates = {monday, tuesday}
    Today = tuesday
    Orders = {o1}
    None <- MCNone
    MaxSale = 1
    MaxRetrievals = 2
    MaxRefusals = 0
INVARIANT TotalIsOfSelectedDate
CHECK_DEADLOCK FALSE
