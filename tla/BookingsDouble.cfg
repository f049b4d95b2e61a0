SPECIFICATION Spec
CONSTANTS
    guest = guest
    clerk = clerk
    Users = {guest, clerk}
    Rooms = {r1}
    Staff <- MCStaff
    Dates = {1, 2, 3}
    Statuses = {"pending", "canceled"}
    Offers <- MCOffers
    Patches = {}
    Ids = {b1, b2}
    None = None
INVARIANTS
    RoomUniqueness
CHECK_DEADLOCK FALSE
