SPECIFICATION Spec
CONSTANTS
    Emails = {ann, ben}
    Tokens = {t1, t2}
    Codes = {c1, c2, c3}
    Requests = {r1, r2}
    None = None
    Gone = Gone
INVARIANTS
    TypeOK
    StaffInvited
    OneAccountPerInvite
SYMMETRY Symmetry
CHECK_DEADLOCK FALSE
