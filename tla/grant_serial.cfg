SPECIFICATION Spec
CONSTANTS
    Services = {s1}
    Calls = {c1}
    Ops <- AllOps
    SessionUser = ann
    BearerUser = bob
    ann = ann
    bob = bob
    Bearers = TRUE
    EnsureFreshness = TRUE
    Conditions <- Rough
    MaxTokens = 3
SYMMETRY Symmetry
INVARIANTS
    TypeOK
    IdentityCoherent
    LogoutEnds
