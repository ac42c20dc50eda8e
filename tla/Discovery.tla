------------------------------- MODULE Discovery -------------------------------
(***************************************************************************)
(* What an application declares to Keycloak.  KeycloakRegisterService      *)
(* reads the decorators of the classes that Nest discovers, merges them    *)
(* with the register options, and registers the roles, resources and       *)
(* scopes it found; AuthGuard and ResourceGuard read the same decorators   *)
(* again, request by request, and ask for what should have been            *)
(* registered.                                                             *)
(***************************************************************************)
EXTENDS FiniteSets

CONSTANTS RealmRoles, ClientRoles,  \* the names of roles: realm:name, and name
          Resources, Scopes         \* the names of resources and of scopes

ASSUME DiscoveryAssumption == RealmRoles \cap ClientRoles = {}

Roles == RealmRoles \cup ClientRoles

\* The decorators of a class or a method: @Authorized's alternatives, @Scopes
Target == [authorized: SUBSET SUBSET Roles, scopes: SUBSET Scopes]

\* found: a controller, or a provider whose name ends with Resolver
\* resource: {} without @Resource, {x} with @Resource(x)
Class == [found: BOOLEAN, resource: {{}} \cup {{x} : x \in Resources},
          class: Target, methods: SUBSET Target]

\* The application: its classes, and its options register.roles and .resources
Application == [classes: SUBSET Class, roles: SUBSET Roles,
                resources: SUBSET [name: Resources, scopes: SUBSET Scopes]]

-----------------------------------------------------------------------------
(* What register registers *)

\* providers
Providers(app) == {c \in app.classes : c.found}

\* mutant: the prototype's constructor is not taken for a method
MethodsAlone(c) == c.methods

\* getMethods finds the constructor too, and with it what decorates the class.
Methods(c) == c.methods \cup {c.class}

\* roles: lists and the intersections in them are flattened.
DeclaredRoles(app) ==
    app.roles \cup UNION {UNION t.authorized : t \in UNION {Methods(c) : c \in Providers(app)}}

\* applicationRoles and realmRoles
DeclaredClientRoles(app) == DeclaredRoles(app) \cap ClientRoles
DeclaredRealmRoles(app) == DeclaredRoles(app) \cap RealmRoles

\* resources: a resource has the scopes of all the classes that name it.
DeclaredResources(app) ==
    (UNION {c.resource : c \in Providers(app)}) \cup {r.name : r \in app.resources}

DeclaredScopes(app, x) ==
    (UNION {r.scopes : r \in {r \in app.resources : r.name = x}})
    \cup UNION {t.scopes : t \in UNION {Methods(c) : c \in {c \in Providers(app) : x \in c.resource}}}

-----------------------------------------------------------------------------
(* What the guards ask for on a handler m of class c *)

\* AuthGuard.getRoles: a user needs all the roles of one alternative.
AskedRoles(c, m) == m.authorized \cup c.class.authorized

\* ResourceGuard.getScopes, as permissions
AskedPermissions(c, m) == c.resource \X (m.scopes \cup c.class.scopes)

=============================================================================
