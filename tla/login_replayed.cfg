SPECIFICATION Spec
CONSTANTS
    Browsers = {b1}
    Tabs = {t1, t2}
    Codes = {c1}
    Kinds <- LoginKinds
    SessionInstalled = TRUE
    RequireState = TRUE
    PersistSession = TRUE
    LossyReplies = FALSE
    MaxLogins = 1
    MaxClock = 0
    MaxPending = 2
    Ttl = 1
SYMMETRY Symmetry
CHECK_DEADLOCK FALSE
INVARIANTS
    SingleUse
