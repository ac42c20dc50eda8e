SPECIFICATION FairSpec
CONSTANTS
    admin = admin
    user = user
    cats = cats
    dogs = dogs
    read = read
    write = write
    Replicas = {r1, r2}
    Deployments <- RollingUpdate
    RealmRoles = {admin}
    ClientRoles = {user}
    Resources = {cats}
    Scopes = {read}
    HealthEndpoint = FALSE
    MaxOutages = 1
    MaxCrashes = 1
    MaxForced = 1
INVARIANTS
    TypeOK
    RegisteredHasRoles
PROPERTIES
    Idempotent
    EventuallyComplete
