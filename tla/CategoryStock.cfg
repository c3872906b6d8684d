SPECIFICATION FairSpec
CONSTANTS
    Products = {milk, rice}
    Terminals = {POS_2}
    Inwards <- MCInwards
    MaxQty = 1
    MaxVisits = 2
    MaxRefusals = 1
INVARIANTS
    ListHasOneHalf
    InwardIsBacked
    OutwardIsBacked
PROPERTIES
    ImplementsGathering
    ListAppears
CHECK_DEADLOCK FALSE
