SPECIFICATION Spec
CONSTANTS
    Devices = {phone}
    Names = {NEW, MILK}
    Prices = {low, high}
    NoValue = NoValue
    DraftName = NEW
    FirstSecond = 2
    LastSecond = 3
    MaxEdits = 2
    MaxHits = 1
    MaxFailures = 1
    Asserts = FALSE
SYMMETRY Symmetry
CONSTRAINTS
    NotAstray
    NotOver
ACTION_CONSTRAINTS
    StepMatters
    FormsForEdits
INVARIANTS
    NamesAreTheirOwn
    StoresAgree
    RecordsWhole
CHECK_DEADLOCK FALSE
