SPECIFICATION Spec
CONSTANTS
    Browsers = {b1, b2}
    Tabs = {t1}
    Codes = {c1, c2}
    Kinds <- LogoutKinds
    SessionInstalled = TRUE
    RequireState = TRUE
    PersistSession = TRUE
    LossyReplies = TRUE
    MaxLogins = 2
    MaxClock = 2
    MaxPending = 2
    Ttl = 1
SYMMETRY Symmetry
CHECK_DEADLOCK FALSE
INVARIANTS
    TypeOK
    LoginBinding
    VerifiedBeforeSpent
    SingleUse
    LogoutIsFinal
PROPERTIES
    TokensKept
