SPECIFICATION Spec
CONSTANTS
    Browsers = {b1, b2}
    Tabs = {t1}
    Codes = {c1}
    Kinds <- AllKinds
    SessionInstalled = FALSE
    RequireState = TRUE
    PersistSession = TRUE
    LossyReplies = FALSE
    MaxLogins = 2
    MaxClock = 2
    MaxPending = 1
    Ttl = 1
SYMMETRY Symmetry
CHECK_DEADLOCK FALSE
INVARIANTS
    SingleUse
PROPERTIES
    AcceptedFromOwner
