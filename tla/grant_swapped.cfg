SPECIFICATION Spec
CONSTANTS
    Services = {s1}
    Calls = {c1}
    Ops <- GrantOps
    SessionUser = ann
    BearerUser = bob
    ann = ann
    bob = bob
    Bearers = TRUE
    EnsureFreshness = TRUE
    Conditions <- Ideal
    MaxTokens = 3
SYMMETRY Symmetry
INVARIANTS
    BearerDecides
