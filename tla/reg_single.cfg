SPECIFICATION Spec
CONSTANTS
    admin = admin
    user = user
    cats = cats
    dogs = dogs
    read = read
    write = write
    Replicas = {r1}
    Deployments <- Solo
    RealmRoles = {admin}
    ClientRoles = {user}
    Resources = {cats, dogs}
    Scopes = {read, write}
    HealthEndpoint = TRUE
    MaxOutages = 0
    MaxCrashes = 2
    MaxForced = 1
INVARIANTS
    NoBootFails
    GuardsSatisfiable
