SPECIFICATION FairSpec
CONSTANTS
    Emails = {bob}
    Registered = {}
    Admin = None
    Codes = {k1}
    Clients = {c1}
    None = None
    MaxRows = 1
    MaxRestarts = 1
PROPERTIES
    ExpiredCodesDeleted
CHECK_DEADLOCK FALSE
