SPECIFICATION HoldingsSpec
CONSTANTS
    Users = {guest}
    Staff = {clerk}
    Properties = {p1, p2}
    Inspections = {i1, i2}
    References = {t1, t2}
    Durations = {0, 29, 30, 90, 91, 181, 182, 364, 365}
    MaxRows = 3
    Requests = {r1, r2}
    None = None
    Gone = Gone
INVARIANTS
    TypeOK
    PropertiesStand
    MoneyTypeOK
    RatesFollowBands
    PaidOnce
PROPERTIES
    DecidedStaysDecided
    InspectionsGoByHand
CONSTRAINT OnePartAtATime
SYMMETRY Symmetry
CHECK_DEADLOCK FALSE
