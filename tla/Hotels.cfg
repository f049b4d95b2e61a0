SPECIFICATION Spec
CONSTANTS
    Staff = {clerk}
    Hotels = {h1, h2}
    Rooms = {m1, m2}
    Bookings = {b1, b2, b3}
    Numbers = {n1, n2}
    Requests = {r1, r2}
    None = None
    Gone = Gone
INVARIANTS
    TypeOK
    RowsHaveParents
    SoundNumbersDiffer
PROPERTIES
    SecondBookingKeepsHotel
SYMMETRY Symmetry
CHECK_DEADLOCK FALSE
