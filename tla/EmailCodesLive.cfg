SPECIFICATION FairSpec
CONSTANTS
    Emails = {bob}
    Registered = {}
    Admin = None
    Codes = {k1, k2}
    Clients = {c1, c2}
    None = None
    MaxRows = 2
    MaxRestarts = 1
INVARIANTS
    CodesWatched
PROPERTIES
    CodesGo
CHECK_DEADLOCK FALSE
