SPECIFICATION Spec
CONSTANTS
    guest = guest
    clerk = clerk
    Users = {guest, clerk}
    Rooms = {r1, r2}
    Staff <- MCStaff
    Dates = {1, 2, 3}
    Statuses = {"pending", "canceled"}
    Offers <- MCOffers
    Patches <- MCPatches
    Ids = {b1, b2}
    None = None
INVARIANTS
    TypeOK
    SoundNeverClash
    SoundStaysOrdered
PROPERTIES
    CancelSticks
    KeepsLedger
SYMMETRY Symmetry
CHECK_DEADLOCK FALSE
