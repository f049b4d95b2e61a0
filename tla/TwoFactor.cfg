SPECIFICATION Spec
CONSTANTS
    Clients = {c1, c2}
    Ids = {i1, i2}
    Index = {x1, x2}
    None = None
    MaxGenerated = 3
INVARIANTS
    TypeOK
    EnabledIsConfirmed
    DeadCodesStayDead
PROPERTIES
    OnlyCodeEnables
SYMMETRY Symmetry
CHECK_DEADLOCK FALSE
