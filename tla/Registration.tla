----------------------------- MODULE Registration -----------------------------
(***************************************************************************)
(* KeycloakRegisterService.register, run by every replica of an            *)
(* application when it boots, against one Keycloak.                        *)
(*                                                                         *)
(* Each admin call is a step of its own, and the calls of a Promise.all    *)
(* are answered in any order.  A replica lists what exists and creates     *)
(* what its list did not show, so what it acts on may be stale.  A call    *)
(* that fails rejects register, which aborts the boot but not a replica    *)
(* that serves already; the calls that were on their way still reach       *)
(* Keycloak.  The orchestrator restarts a replica that died.  Replicas may *)
(* run different releases of the application; what a release declares is   *)
(* Discovery's subject.                                                    *)
(***************************************************************************)
EXTENDS Naturals, Discovery

CONSTANTS Replicas,
          Deployments,              \* the releases replicas may run
          HealthEndpoint,           \* does Keycloak serve /health/live?
          MaxOutages,               \* bound: Keycloak going down
          MaxCrashes,               \* bound: replicas killed
          MaxForced                 \* bound: calls of register(true)

ASSUME RegistrationAssumption ==
    /\ Deployments \subseteq [Replicas -> Application]
    /\ HealthEndpoint \in BOOLEAN
    /\ MaxOutages \in Nat /\ MaxCrashes \in Nat /\ MaxForced \in Nat

VARIABLES release,   \* the application each replica runs
          up,        \* does Keycloak answer?
          public,    \* is the Keycloak client a public one?
          roles,     \* the realm and client roles that exist
          authz,     \* authorizationServicesEnabled of the client
          scopes,    \* the authorization scopes that exist
          resources, \* the resources that exist
          attached,  \* the scopes attached to each resource
          proc,      \* what each replica is doing
          outages, crashes, forced

keycloakVars == <<roles, authz, scopes, resources, attached>>
envVars == <<release, up, public, outages, crashes, forced>>
vars == <<keycloakVars, envVars, proc>>

-----------------------------------------------------------------------------
(* Types *)

Stage == {"boot", "health", "wellKnown", "client", "listRealmRoles", "realmRoles",
          "enable", "listClientRoles", "clientRoles", "listResources", "resources",
          "running"}

\* The work on one resource: find its scopes, create the others, attach them
Task == [at: {"find", "create", "attach", "done"}, todo: SUBSET Scopes]

\* sawAuthz, known: what getClient and getResources returned
\* rejected: register has failed; floating: updates nobody waits for
Process == [at: Stage, todo: SUBSET Roles, sawAuthz: BOOLEAN,
            known: SUBSET Resources, task: [Resources -> Task], rejected: BOOLEAN,
            registered: BOOLEAN, floating: SUBSET Resources]

NoTasks == [x \in Resources |-> [at |-> "done", todo |-> {}]]

Boot == [at |-> "boot", todo |-> {}, sawAuthz |-> FALSE, known |-> {}, task |-> NoTasks,
         rejected |-> FALSE, registered |-> FALSE, floating |-> {}]

\* Keycloak may hold what an admin, or an earlier release, has put there.
Init ==
    /\ release \in Deployments
    /\ up = FALSE
    /\ public \in BOOLEAN
    /\ roles \in SUBSET Roles
    /\ authz \in BOOLEAN
    /\ scopes \in IF authz THEN SUBSET Scopes ELSE {{}}
    /\ resources \in IF authz THEN SUBSET Resources ELSE {{}}
    /\ attached \in [Resources -> SUBSET scopes]
    /\ \A x \in Resources \ resources : attached[x] = {}
    /\ proc = [r \in Replicas |-> Boot]
    /\ outages = 0 /\ crashes = 0 /\ forced = 0

-----------------------------------------------------------------------------
(* register *)

\* The register call of r is at this stage and has not failed.
At(r, stage) == proc[r].at = stage /\ ~proc[r].rejected

Becomes(r, p) == proc' = [proc EXCEPT ![r] = p]
GoTo(r, stage) == Becomes(r, [proc[r] EXCEPT !.at = stage])

\* The first rejection of a Promise.all is the one register throws.
Reject(r) == Becomes(r, [proc[r] EXCEPT !.rejected = TRUE])

\* canRegister.  The options register, adminUsername and adminPassword are taken
\* to be set: a replica without them never registers.
CanRegister(r) == ~proc[r].registered

Register(r) ==
    /\ At(r, "boot")
    /\ CanRegister(r)
    /\ GoTo(r, "health")
    /\ UNCHANGED <<keycloakVars, envVars>>

\* register(true), in a replica whose last registration has succeeded
ForceRegister(r) ==
    /\ At(r, "running")
    /\ forced < MaxForced
    /\ forced' = forced + 1
    /\ GoTo(r, "health")
    /\ UNCHANGED <<keycloakVars, release, up, public, outages, crashes>>

\* waitForReady: a poll that fails is repeated, a 404 means there is no health
\* endpoint.  (A poll that is repeated changes nothing.)
PollHealth(r) ==
    /\ At(r, "health")
    /\ up
    /\ GoTo(r, IF HealthEndpoint THEN "client" ELSE "wellKnown")
    /\ UNCHANGED <<keycloakVars, envVars>>

PollWellKnown(r) ==
    /\ At(r, "wellKnown")
    /\ up
    /\ GoTo(r, "client")
    /\ UNCHANGED <<keycloakVars, envVars>>

\* initializeKeycloakAdmin and getClient
GetClient(r) ==
    /\ At(r, "client")
    /\ up
    /\ Becomes(r, [proc[r] EXCEPT !.at = "listRealmRoles", !.sawAuthz = authz])
    /\ UNCHANGED <<keycloakVars, envVars>>

\* mutants: the realm: prefix is kept in the name; the list is ignored
ListRolesPrefixed(r, from, to, declared) ==
    /\ At(r, from)
    /\ up
    /\ Becomes(r, [proc[r] EXCEPT !.at = to,
                     !.todo = {<<from, role>> : role \in declared \ roles}])
    /\ UNCHANGED <<keycloakVars, envVars>>

ListRolesIgnored(r, from, to, declared) ==
    /\ At(r, from)
    /\ up
    /\ Becomes(r, [proc[r] EXCEPT !.at = to, !.todo = declared])
    /\ UNCHANGED <<keycloakVars, envVars>>

\* createRealmRoles and createApplicationRoles: list, then create the others
ListRoles(r, from, to, declared) ==
    /\ At(r, from)
    /\ up
    /\ Becomes(r, [proc[r] EXCEPT !.at = to, !.todo = declared \ roles])
    /\ UNCHANGED <<keycloakVars, envVars>>

ListRealmRoles(r) == ListRoles(r, "listRealmRoles", "realmRoles", DeclaredRealmRoles(release[r]))
ListClientRoles(r) == ListRoles(r, "listClientRoles", "clientRoles", DeclaredClientRoles(release[r]))

\* Keycloak refuses to create a role that exists.
CreateRole(r) ==
    /\ proc[r].at \in {"realmRoles", "clientRoles"}
    /\ up
    /\ \E role \in proc[r].todo :
        /\ roles' = roles \cup {role}
        /\ Becomes(r, [proc[r] EXCEPT !.todo = @ \ {role},
                                      !.rejected = @ \/ role \in roles])
    /\ UNCHANGED <<authz, scopes, resources, attached, envVars>>

\* mutant: the creations are not awaited
RealmRolesUnawaited(r) ==
    /\ At(r, "realmRoles")
    /\ IF public
       THEN Becomes(r, [proc[r] EXCEPT !.at = "running", !.registered = TRUE])
       ELSE GoTo(r, "enable")
    /\ UNCHANGED <<keycloakVars, envVars>>

\* A public client has no authorization: register is done.
RealmRolesDone(r) ==
    /\ At(r, "realmRoles")
    /\ proc[r].todo = {}
    /\ IF public
       THEN Becomes(r, [proc[r] EXCEPT !.at = "running", !.registered = TRUE])
       ELSE GoTo(r, "enable")
    /\ UNCHANGED <<keycloakVars, envVars>>

EnableAuthorization(r) ==
    /\ At(r, "enable")
    /\ up
    /\ authz' = (authz \/ ~proc[r].sawAuthz)
    /\ GoTo(r, "listClientRoles")
    /\ UNCHANGED <<roles, scopes, resources, attached, envVars>>

ClientRolesDone(r) ==
    /\ At(r, "clientRoles")
    /\ proc[r].todo = {}
    /\ GoTo(r, "listResources")
    /\ UNCHANGED <<keycloakVars, envVars>>

-----------------------------------------------------------------------------
(* createScopedResources: one task per declared resource, in parallel *)

ListResources(r) ==
    /\ At(r, "listResources")
    /\ up
    /\ Becomes(r, [proc[r] EXCEPT !.at = "resources", !.known = resources,
                     !.task = [x \in Resources |->
                       [at |-> IF x \in DeclaredResources(release[r]) THEN "find" ELSE "done",
                        todo |-> {}]]])
    /\ UNCHANGED <<keycloakVars, envVars>>

TaskAt(r, x, at) == proc[r].at = "resources" /\ proc[r].task[x].at = at

Advance(r, x, task) == Becomes(r, [proc[r] EXCEPT !.task[x] = task])

\* getScopes: those of a known resource, or all of them for a new one
FindScopes(r, x) ==
    LET existing == IF x \in proc[r].known THEN attached[x] ELSE scopes IN
    /\ TaskAt(r, x, "find")
    /\ up
    /\ Advance(r, x, [at |-> "create", todo |-> DeclaredScopes(release[r], x) \ existing])
    /\ UNCHANGED <<keycloakVars, envVars>>

\* Creating a scope that exists leaves it as it is: that Keycloak looks for it
\* and creates it is taken to be one step.
CreateScope(r, x) ==
    /\ TaskAt(r, x, "create")
    /\ up
    /\ \E scope \in proc[r].task[x].todo :
        /\ scopes' = scopes \cup {scope}
        /\ Advance(r, x, [at |-> "create", todo |-> proc[r].task[x].todo \ {scope}])
    /\ UNCHANGED <<roles, authz, resources, attached, envVars>>

ScopesCreated(r, x) ==
    /\ TaskAt(r, x, "create")
    /\ proc[r].task[x].todo = {}
    /\ Advance(r, x, [at |-> "attach", todo |-> {}])
    /\ UNCHANGED <<keycloakVars, envVars>>

\* updateResource is not awaited: the task is done and the update floats.
UpdateResource(r, x) ==
    /\ TaskAt(r, x, "attach")
    /\ x \in proc[r].known
    /\ Becomes(r, [proc[r] EXCEPT !.task[x].at = "done",
                                  !.floating = @ \cup {x}])
    /\ UNCHANGED <<keycloakVars, envVars>>

\* mutant: only the scopes that had to be created are sent
UpdateArrivesPartly(r, x) ==
    /\ x \in proc[r].floating
    /\ up
    /\ attached' = [attached EXCEPT ![x] = DeclaredScopes(release[r], x) \ @]
    /\ Becomes(r, [proc[r] EXCEPT !.floating = @ \ {x}])
    /\ UNCHANGED <<roles, authz, scopes, resources, envVars>>

\* The floating update arrives: it replaces the scopes of the resource.
UpdateArrives(r, x) ==
    /\ x \in proc[r].floating
    /\ up
    /\ attached' = [attached EXCEPT ![x] = DeclaredScopes(release[r], x)]
    /\ Becomes(r, [proc[r] EXCEPT !.floating = @ \ {x}])
    /\ UNCHANGED <<roles, authz, scopes, resources, envVars>>

\* Keycloak refuses to create a resource that exists.
CreateResource(r, x) ==
    /\ TaskAt(r, x, "attach")
    /\ x \notin proc[r].known
    /\ up
    /\ IF x \in resources
       THEN Reject(r) /\ UNCHANGED <<resources, attached>>
       ELSE /\ resources' = resources \cup {x}
            /\ attached' = [attached EXCEPT ![x] = DeclaredScopes(release[r], x)]
            /\ Advance(r, x, [at |-> "done", todo |-> {}])
    /\ UNCHANGED <<roles, authz, scopes, envVars>>

ResourcesDone(r) ==
    /\ At(r, "resources")
    /\ \A x \in Resources : proc[r].task[x].at = "done"
    /\ Becomes(r, [proc[r] EXCEPT !.at = "running", !.registered = TRUE])
    /\ UNCHANGED <<keycloakVars, envVars>>

-----------------------------------------------------------------------------
(* Failures *)

\* An awaited call finds Keycloak down.
CallFails(r) ==
    /\ ~up
    /\ ~proc[r].rejected
    /\ proc[r].at \notin {"boot", "health", "wellKnown", "running"}
    /\ Reject(r)
    /\ UNCHANGED <<keycloakVars, envVars>>

\* mutant: the rejection is swallowed
UpdateFailsUnnoticed(r) ==
    /\ ~up
    /\ proc[r].floating # {}
    /\ Becomes(r, [proc[r] EXCEPT !.floating = {}])
    /\ UNCHANGED <<keycloakVars, envVars>>

\* Nothing handles the rejection of a floating update: Node ends the process.
UpdateFails(r) ==
    /\ ~up
    /\ proc[r].floating # {}
    /\ Becomes(r, Boot)
    /\ UNCHANGED <<keycloakVars, envVars>>

\* A boot that failed ends the process, and the orchestrator starts another.
\* When register(true) fails its caller is told, and the replica goes on.
Restart(r) ==
    /\ proc[r].rejected
    /\ ~proc[r].registered
    /\ Becomes(r, Boot)
    /\ UNCHANGED <<keycloakVars, envVars>>

\* A replica is killed.
Crash(r) ==
    /\ crashes < MaxCrashes
    /\ crashes' = crashes + 1
    /\ Becomes(r, Boot)
    /\ UNCHANGED <<keycloakVars, release, up, public, outages, forced>>

ComeUp == ~up /\ up' = TRUE /\ UNCHANGED <<keycloakVars, release, proc, public, outages, crashes, forced>>

GoDown ==
    /\ up
    /\ outages < MaxOutages
    /\ up' = FALSE
    /\ outages' = outages + 1
    /\ UNCHANGED <<keycloakVars, release, proc, public, crashes, forced>>

\* The steps the event loop of a live replica takes by itself
Run(r) ==
    \/ Register(r) \/ PollHealth(r) \/ PollWellKnown(r) \/ GetClient(r)
    \/ ListRealmRoles(r) \/ ListClientRoles(r) \/ CreateRole(r) \/ RealmRolesDone(r)
    \/ EnableAuthorization(r) \/ ClientRolesDone(r) \/ ListResources(r) \/ ResourcesDone(r)
    \/ \E x \in Resources :
         \/ FindScopes(r, x) \/ CreateScope(r, x) \/ ScopesCreated(r, x)
         \/ UpdateResource(r, x) \/ CreateResource(r, x)

Settle(r) == \E x \in Resources : UpdateArrives(r, x)

\* All replicas serve; they may go on doing so for ever.
Serve ==
    /\ \A r \in Replicas : proc[r].registered /\ proc[r].floating = {}
    /\ UNCHANGED vars

Next ==
    \/ \E r \in Replicas : \/ Run(r) \/ Settle(r) \/ ForceRegister(r)
                           \/ CallFails(r) \/ UpdateFails(r) \/ Restart(r) \/ Crash(r)
    \/ ComeUp \/ GoDown \/ Serve

Spec == Init /\ [][Next]_vars

\* Replicas keep running, what died is restarted, calls are answered or fail,
\* and Keycloak comes back.
FairSpec ==
    /\ Spec
    /\ WF_vars(ComeUp)
    /\ \A r \in Replicas :
         /\ WF_vars(Run(r)) /\ WF_vars(Settle(r)) /\ WF_vars(Restart(r))

-----------------------------------------------------------------------------
(* Properties *)

TypeOK ==
    /\ release \in Deployments
    /\ up \in BOOLEAN
    /\ public \in BOOLEAN
    /\ roles \subseteq Roles
    /\ authz \in BOOLEAN
    /\ scopes \subseteq Scopes
    /\ resources \subseteq Resources
    /\ attached \in [Resources -> SUBSET Scopes]
    /\ proc \in [Replicas -> Process]
    /\ outages \in 0..MaxOutages
    /\ crashes \in 0..MaxCrashes
    /\ forced \in 0..MaxForced

\* What replica r has to create; a public client has realm roles only.
OwnRoles(r) == IF public THEN DeclaredRealmRoles(release[r]) ELSE DeclaredRoles(release[r])
OwnResources(r) == IF public THEN {} ELSE DeclaredResources(release[r])

RolesCreated(r) == OwnRoles(r) \subseteq roles /\ OwnResources(r) \subseteq resources

ScopesAttached(r) ==
    \A x \in OwnResources(r) : DeclaredScopes(release[r], x) \subseteq attached[x]

\* A Keycloak that has all this; a confidential client is authorized by it.
Complete ==
    /\ public \/ authz
    /\ \A r \in Replicas : RolesCreated(r) /\ ScopesAttached(r)

\* A replica that counts as registered has its roles and resources in
\* Keycloak, whatever the other replicas, crashes and outages did meanwhile.
RegisteredHasRoles == \A r \in Replicas : proc[r].registered => RolesCreated(r)

\* "Automatic registration of roles, resources and scopes": the scopes too.
RegisteredHasScopes == \A r \in Replicas : proc[r].registered => ScopesAttached(r)

\* Whatever the guards of a registered replica ask for can be granted: the
\* roles of every alternative exist, and every permission is of a resource that
\* has the scope, once the updates that nobody awaits have arrived.
GuardsSatisfiable ==
    \A r \in Replicas : (proc[r].registered /\ proc[r].floating = {} /\ ~public) =>
        \A c \in Providers(release[r]) : \A m \in c.methods :
            /\ UNION AskedRoles(c, m) \subseteq roles
            /\ \A p \in AskedPermissions(c, m) :
                 p[1] \in resources /\ p[2] \in attached[p[1]]

\* "Makes registration idempotent": against a complete Keycloak, registering
\* again, from any replica and after any crash, changes nothing declared.
Idempotent ==
    [][Complete => UNCHANGED <<roles, authz, scopes, resources>> /\ Complete']_vars

\* With Keycloak up throughout, a single replica never fails a boot: what an
\* interrupted run has left behind does not stand in the way of the next.
NoBootFails == (outages = 0 /\ up) => \A r \in Replicas : ~proc[r].rejected

\* Once crashes and outages end, every replica is registered for good and the
\* Keycloak it registered with is complete, though losers of a race died.
EventuallyComplete ==
    <>[](Complete /\ \A r \in Replicas : proc[r].registered)

=============================================================================
