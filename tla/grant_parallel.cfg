SPECIFICATION Spec
CONSTANTS
    Services = {s1}
    Calls = {c1, c2}
    Ops <- ParallelOps
    SessionUser = ann
    BearerUser = bob
    ann = ann
    bob = bob
    Bearers = FALSE
    EnsureFreshness = TRUE
    Conditions <- RoughOrIdeal
    MaxTokens = 2
SYMMETRY Symmetry
INVARIANTS
    CacheCoherent
    LogoutEnds
    GrantsVerified
PROPERTIES
    FailureClears
    SessionAnswered
