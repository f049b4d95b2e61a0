SPECIFICATION Spec
CONSTANTS
    Emails = {alice, bob}
    Registered = {alice}
    Admin = alice
    Codes = {k1}
    Clients = {c1, c2}
    None = None
    MaxRows = 2
    MaxRestarts = 1
INVARIANTS
    TypeOK
    EffectsProved
PROPERTIES
    CleanupSparesLive
    ConfirmationsWait
    KeepsPromise
SYMMETRY Symmetry
CHECK_DEADLOCK FALSE
