SPECIFICATION Spec
CONSTANTS
    guest = guest
    clerk = clerk
    Users = {guest, clerk}
    Staff = {clerk}
    Hotels = {h1}
    Properties = {p1}
    Scores = {1, 5}
    Ids = {i1, i2, i3}
    None = None
    Gone = Gone
INVARIANTS
    TypeOK
    AggregatesExact
PROPERTIES
    RatingsGoByOwner
SYMMETRY Symmetry
CHECK_DEADLOCK FALSE
