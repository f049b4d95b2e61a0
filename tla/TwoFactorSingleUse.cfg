SPECIFICATION Spec
CONSTANTS
    Clients = {c1, c2}
    Ids = {i1}
    Index = {x1}
    None = None
    MaxGenerated = 1
PROPERTIES
    SingleUse
CHECK_DEADLOCK FALSE
