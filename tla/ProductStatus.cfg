\* Two devices, two duplicates, two changes of status or price, one late search
\* or second reading of the products, one refusal or restart.
CONSTANTS
    Devices = {d1, d2}
    Products = {p1, p2}
    NoProduct = NoProduct
    MaxConfirms = 2
    MaxReads = 1
    MaxFailures = 1
SYMMETRY Symmetry
SPECIFICATION Spec
CONSTRAINT NotOver
ACTION_CONSTRAINT StepMatters
INVARIANTS
    LastActivatedIsActive
    DuplicatesGiveWay
\* The instance stops when its changes are used up.
CHECK_DEADLOCK FALSE
