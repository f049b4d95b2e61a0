SPECIFICATION Spec
CONSTANTS
    Emails = {ann, root}
    Users = {u1, u2, u3}
    Sessions = {s1, s2}
    Requests = {r1, r2}
    None = None
    Gone = Gone
INVARIANTS
    TypeOK
    SessionsServeTheirAccount
    RevokedStaysOut
    OneAdmin
PROPERTIES
    OnlyUnusedAccountsErased
SYMMETRY Symmetry
CHECK_DEADLOCK FALSE
