SPECIFICATION FairSpec
CONSTANTS
    Browsers = {b1}
    Tabs = {t1}
    Codes = {c1}
    Kinds <- AllKinds
    SessionInstalled = TRUE
    RequireState = FALSE
    PersistSession = TRUE
    LossyReplies = TRUE
    MaxLogins = 3
    MaxClock = 3
    MaxPending = 2
    Ttl = 2
CHECK_DEADLOCK FALSE
INVARIANTS
    PendingBounded
PROPERTIES
    LoginsKept
    ImplementsTickets
    EveryRequestAnswered
