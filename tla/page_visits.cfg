SPECIFICATION FairSpec
CONSTANTS
    t1 = t1
    t2 = t2
    admin = admin
    user = user
    read = read
    write = write
    Tabs = {t1, t2}
    Roles = {admin, user}
    Scopes = {read, write}
    Applications <- AllVisits
    MaxExpiries = 1
INVARIANTS
    TypeOK
    ShownToEntitled
    EntitledIsServed
    LoginOffered
    OneLoginPerVisit
PROPERTIES
    VisitEnds
