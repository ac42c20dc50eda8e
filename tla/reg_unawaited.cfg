SPECIFICATION Spec
CONSTANTS
    admin = admin
    user = user
    cats = cats
    dogs = dogs
    read = read
    write = write
    Replicas = {r1}
    Deployments <- JustCats
    RealmRoles = {admin}
    ClientRoles = {user}
    Resources = {cats}
    Scopes = {read}
    HealthEndpoint = TRUE
    MaxOutages = 0
    MaxCrashes = 0
    MaxForced = 0
INVARIANTS
    RegisteredHasScopes
