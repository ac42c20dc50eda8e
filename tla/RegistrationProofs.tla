--------------------------- MODULE RegistrationProofs ---------------------------
(***************************************************************************)
(* Proofs about Registration, for every set of replicas, every deployment  *)
(* and any number of crashes, outages and forced registrations.            *)
(*                                                                         *)
(* RegisteredHasRoles is not inductive: a replica becomes registered from  *)
(* lists it took long ago.  The invariant follows each replica: at every   *)
(* stage, what it has still to create and what exists together cover what  *)
(* its release declares.  As roles, scopes and resources only grow,        *)
(* whatever the others do cannot undo that.                                *)
(***************************************************************************)
EXTENDS Registration, TLAPS

-----------------------------------------------------------------------------
(* What is declared has the types of Keycloak's state. *)

LEMMA DeclaredTypes ==
    ASSUME NEW app \in Application
    PROVE  /\ DeclaredRoles(app) \subseteq Roles
           /\ DeclaredRealmRoles(app) \subseteq RealmRoles
           /\ DeclaredClientRoles(app) \subseteq ClientRoles
           /\ DeclaredRoles(app) = DeclaredRealmRoles(app) \cup DeclaredClientRoles(app)
           /\ DeclaredResources(app) \subseteq Resources
           /\ \A x : DeclaredScopes(app, x) \subseteq Scopes
  <1>1. /\ app.roles \subseteq Roles
        /\ app.resources \subseteq [name: Resources, scopes: SUBSET Scopes]
        /\ Providers(app) \subseteq Class
    BY DEF Application, Providers
  <1>2. ASSUME NEW c \in Class
        PROVE  Methods(c) \subseteq Target /\ c.resource \subseteq Resources
    BY DEF Class, Methods
  <1>3. ASSUME NEW t \in Target
        PROVE  UNION t.authorized \subseteq Roles /\ t.scopes \subseteq Scopes
    BY DEF Target
  <1>4. DeclaredRoles(app) \subseteq Roles
    BY <1>1, <1>2, <1>3 DEF DeclaredRoles
  <1>5. DeclaredResources(app) \subseteq Resources
    BY <1>1, <1>2 DEF DeclaredResources
  <1>6. \A x : DeclaredScopes(app, x) \subseteq Scopes
    BY <1>1, <1>2, <1>3 DEF DeclaredScopes
  <1> QED
    BY <1>4, <1>5, <1>6 DEF DeclaredRealmRoles, DeclaredClientRoles, Roles

-----------------------------------------------------------------------------
(* The invariant *)

\* What a replica in state p, of release app, has done and has still to do
\* about roles, where these exist.
RolesProgress(existing, p, app) ==
    /\ p.at = "realmRoles" =>
         /\ p.todo \subseteq DeclaredRealmRoles(app)
         /\ DeclaredRealmRoles(app) \subseteq existing \cup p.todo
    /\ p.at \in {"enable", "listClientRoles", "clientRoles", "listResources", "resources"} =>
         DeclaredRealmRoles(app) \subseteq existing
    /\ p.at = "clientRoles" =>
         /\ p.todo \subseteq DeclaredClientRoles(app)
         /\ DeclaredClientRoles(app) \subseteq existing \cup p.todo
    /\ p.at \in {"listResources", "resources"} => DeclaredClientRoles(app) \subseteq existing

\* The same about the resource x: only declared resources have a task, a task
\* that is done leaves the resource in place, one that attaches scopes has seen
\* to it that they exist, and so has every update that floats.
TaskProgress(existing, known, task, app, x) ==
    /\ known \subseteq existing
    /\ task.at # "done" => x \in DeclaredResources(app)
    /\ task.at = "done" /\ x \in DeclaredResources(app) => x \in existing

ScopesProgress(existing, task, app, x) ==
    /\ task.at = "create" =>
         /\ task.todo \subseteq DeclaredScopes(app, x)
         /\ DeclaredScopes(app, x) \subseteq existing \cup task.todo
    /\ task.at = "attach" => DeclaredScopes(app, x) \subseteq existing

\* A public client stops after the realm roles.
Confidential(p, open) ==
    p.at \in {"enable", "listClientRoles", "clientRoles", "listResources", "resources"} => ~open

Registered(existing, present, p, app, open) ==
    p.registered =>
        /\ DeclaredRealmRoles(app) \subseteq existing
        /\ ~open => /\ DeclaredClientRoles(app) \subseteq existing
                    /\ DeclaredResources(app) \subseteq present

FloatingProgress(existing, p, app) ==
    \A x \in p.floating :
        x \in DeclaredResources(app) /\ DeclaredScopes(app, x) \subseteq existing

Progress(existing, defined, present, open, p, app) ==
    /\ RolesProgress(existing, p, app)
    /\ p.at = "resources" =>
         \A x \in Resources : /\ TaskProgress(present, p.known, p.task[x], app, x)
                              /\ ScopesProgress(defined, p.task[x], app, x)
    /\ Confidential(p, open)
    /\ Registered(existing, present, p, app, open)
    /\ FloatingProgress(defined, p, app)

AttachedExist == \A x \in Resources : attached[x] \subseteq scopes

RegistrationInv ==
    /\ TypeOK
    /\ AttachedExist
    /\ \A r \in Replicas : Progress(roles, scopes, resources, public, proc[r], release[r])

\* Nothing that was created goes away, and nobody changes release.
Grows ==
    /\ roles \subseteq roles'
    /\ scopes \subseteq scopes'
    /\ resources \subseteq resources'
    /\ UNCHANGED <<release, public>>

\* What TypeOK says of everything but the replicas
RestTyped ==
    /\ release \in Deployments
    /\ up \in BOOLEAN
    /\ public \in BOOLEAN
    /\ roles \subseteq Roles
    /\ authz \in BOOLEAN
    /\ scopes \subseteq Scopes
    /\ resources \subseteq Resources
    /\ attached \in [Resources -> SUBSET Scopes]
    /\ outages \in 0..MaxOutages
    /\ crashes \in 0..MaxCrashes
    /\ forced \in 0..MaxForced

-----------------------------------------------------------------------------
(* A step of one replica *)

LEMMA ReleaseType ==
    ASSUME TypeOK, NEW r \in Replicas
    PROVE  release[r] \in Application /\ proc[r] \in Process
  BY RegistrationAssumption DEF TypeOK

LEMMA BootType == Boot \in Process
  BY DEF Boot, Process, Stage, NoTasks, Task

LEMMA BootProgress ==
    ASSUME NEW existing, NEW defined, NEW present, NEW open, NEW app
    PROVE  Progress(existing, defined, present, open, Boot, app)
  BY DEF Boot, Progress, RolesProgress, Confidential, Registered, FloatingProgress

\* Whatever is created meanwhile, progress is not lost.
LEMMA ProgressGrows ==
    ASSUME NEW existing, NEW defined, NEW present, NEW open, NEW p, NEW app,
           NEW existing2, NEW defined2, NEW present2,
           Progress(existing, defined, present, open, p, app),
           existing \subseteq existing2, defined \subseteq defined2, present \subseteq present2
    PROVE  Progress(existing2, defined2, present2, open, p, app)
  <1>1. RolesProgress(existing2, p, app)
    BY DEF Progress, RolesProgress
  <1>2. ASSUME p.at = "resources", NEW x \in Resources
        PROVE  /\ TaskProgress(present2, p.known, p.task[x], app, x)
               /\ ScopesProgress(defined2, p.task[x], app, x)
    BY <1>2 DEF Progress, TaskProgress, ScopesProgress
  <1>3. Confidential(p, open) /\ Registered(existing2, present2, p, app, open)
    BY DEF Progress, Registered
  <1>4. FloatingProgress(defined2, p, app)
    BY DEF Progress, FloatingProgress
  <1> QED
    BY <1>1, <1>2, <1>3, <1>4 DEF Progress

LEMMA OwnStep ==
    ASSUME RegistrationInv, NEW r \in Replicas, NEW p \in Process, Becomes(r, p),
           Grows, RestTyped', AttachedExist',
           Progress(roles', scopes', resources', public, p, release[r])
    PROVE  RegistrationInv'
  <1>1. proc' \in [Replicas -> Process] /\ proc'[r] = p
    BY DEF RegistrationInv, TypeOK, Becomes
  <1>2. TypeOK'
    BY <1>1 DEF TypeOK, RestTyped
  <1>3. ASSUME NEW s \in Replicas
        PROVE  Progress(roles', scopes', resources', public', proc'[s], release'[s])
    <2>1. CASE s = r
      BY <1>1, <2>1 DEF Grows
    <2>2. CASE s # r
      <3>1. proc'[s] = proc[s] /\ release'[s] = release[s] /\ public' = public
        BY <2>2 DEF RegistrationInv, TypeOK, Becomes, Grows
      <3>2. Progress(roles, scopes, resources, public, proc[s], release[s])
        BY DEF RegistrationInv
      <3>3. roles \subseteq roles' /\ scopes \subseteq scopes' /\ resources \subseteq resources'
        BY DEF Grows
      <3>4. Progress(roles', scopes', resources', public, proc[s], release[s])
        BY <3>2, <3>3, ProgressGrows
      <3> QED
        BY <3>1, <3>4
    <2> QED
      BY <2>1, <2>2
  <1> QED
    BY <1>2, <1>3 DEF RegistrationInv

\* A step that only one replica notices
LEMMA QuietStep ==
    ASSUME RegistrationInv, NEW r \in Replicas, NEW p \in Process, Becomes(r, p),
           UNCHANGED <<keycloakVars, release, up, public, outages, crashes>>,
           forced' \in 0..MaxForced,
           Progress(roles, scopes, resources, public, p, release[r])
    PROVE  RegistrationInv'
  <1>1. Grows /\ RestTyped' /\ AttachedExist'
    BY DEF RegistrationInv, TypeOK, RestTyped, Grows, AttachedExist, keycloakVars
  <1>2. Progress(roles', scopes', resources', public, p, release[r])
    BY DEF keycloakVars
  <1> QED
    BY <1>1, <1>2, OwnStep

-----------------------------------------------------------------------------
(* The actions *)

\* A replica that moves to another stage keeps what it has.
LEMMA MoveStep ==
    ASSUME RegistrationInv, NEW r \in Replicas, NEW at \in Stage, GoTo(r, at),
           UNCHANGED <<keycloakVars, release, up, public, outages, crashes>>,
           forced' \in 0..MaxForced,
           RolesProgress(roles, [proc[r] EXCEPT !.at = at], release[r]),
           Confidential([proc[r] EXCEPT !.at = at], public),
           at # "resources"
    PROVE  RegistrationInv'
  <1> DEFINE p == [proc[r] EXCEPT !.at = at]
  <1>1. proc[r] \in Process
    BY ReleaseType DEF RegistrationInv
  <1>2. /\ p \in Process
        /\ p.at = at
        /\ p.registered = proc[r].registered
        /\ p.floating = proc[r].floating
    BY <1>1 DEF Process
  <1>3. Progress(roles, scopes, resources, public, proc[r], release[r])
    BY DEF RegistrationInv
  <1>4. Becomes(r, p)
    BY DEF GoTo
  <1>5. RolesProgress(roles, p, release[r]) /\ Confidential(p, public)
    OBVIOUS
  <1> HIDE DEF p
  <1>6. Progress(roles, scopes, resources, public, p, release[r])
    BY <1>2, <1>3, <1>5 DEF Progress, Registered, FloatingProgress
  <1> QED
    BY <1>2, <1>4, <1>6, QuietStep

LEMMA WaitStep ==
    ASSUME RegistrationInv, NEW r \in Replicas,
           Register(r) \/ ForceRegister(r) \/ PollHealth(r) \/ PollWellKnown(r)
    PROVE  RegistrationInv'
  <1>1. PICK at \in {"health", "wellKnown", "client"} : GoTo(r, at)
    BY DEF Register, ForceRegister, PollHealth, PollWellKnown
  <1>2. UNCHANGED <<keycloakVars, release, up, public, outages, crashes>>
    BY DEF Register, ForceRegister, PollHealth, PollWellKnown, envVars
  <1>3. forced' \in 0..MaxForced
    BY RegistrationAssumption
    DEF Register, ForceRegister, PollHealth, PollWellKnown, envVars, RegistrationInv, TypeOK
  <1>4. [proc[r] EXCEPT !.at = at].at = at
    BY ReleaseType DEF RegistrationInv, Process
  <1>5. /\ RolesProgress(roles, [proc[r] EXCEPT !.at = at], release[r])
        /\ Confidential([proc[r] EXCEPT !.at = at], public)
    BY <1>4 DEF RolesProgress, Confidential
  <1> QED
    BY <1>1, <1>2, <1>3, <1>5, MoveStep DEF Stage

LEMMA GetClientStep ==
    ASSUME RegistrationInv, NEW r \in Replicas, GetClient(r)
    PROVE  RegistrationInv'
  <1> DEFINE p == [proc[r] EXCEPT !.at = "listRealmRoles", !.sawAuthz = authz]
  <1>1. proc[r] \in Process /\ authz \in BOOLEAN
    BY ReleaseType DEF RegistrationInv, TypeOK
  <1>2. /\ p \in Process
        /\ p.at = "listRealmRoles"
        /\ p.registered = proc[r].registered
        /\ p.floating = proc[r].floating
    BY <1>1 DEF Process, Stage
  <1>3. Becomes(r, p) /\ UNCHANGED <<keycloakVars, envVars>>
    BY DEF GetClient
  <1> HIDE DEF p
  <1>4. Progress(roles, scopes, resources, public, p, release[r])
    BY <1>2 DEF RegistrationInv, Progress, RolesProgress, Confidential, Registered, FloatingProgress
  <1> QED
    BY <1>2, <1>3, <1>4, QuietStep DEF envVars, RegistrationInv, TypeOK

\* The list that is looked at, and what is created of it, cover the roles.
LEMMA ListRolesStep ==
    ASSUME RegistrationInv, NEW r \in Replicas, ListRealmRoles(r) \/ ListClientRoles(r)
    PROVE  RegistrationInv'
  <1>1. PICK from \in {"listRealmRoles", "listClientRoles"},
             to \in {"realmRoles", "clientRoles"},
             declared \in {DeclaredRealmRoles(release[r]), DeclaredClientRoles(release[r])} :
          /\ ListRoles(r, from, to, declared)
          /\ \/ /\ from = "listRealmRoles" /\ to = "realmRoles"
                /\ declared = DeclaredRealmRoles(release[r])
             \/ /\ from = "listClientRoles" /\ to = "clientRoles"
                /\ declared = DeclaredClientRoles(release[r])
    BY DEF ListRealmRoles, ListClientRoles
  <1> DEFINE p == [proc[r] EXCEPT !.at = to, !.todo = declared \ roles]
  <1>2. proc[r] \in Process /\ declared \subseteq Roles
    BY ReleaseType DEF RegistrationInv, DeclaredRealmRoles, DeclaredClientRoles, Roles
  <1>3. /\ p \in Process
        /\ p.at = to
        /\ p.todo = declared \ roles
        /\ p.registered = proc[r].registered
        /\ p.floating = proc[r].floating
    BY <1>2 DEF Process, Stage
  <1>4. proc[r].at = from /\ Becomes(r, p) /\ UNCHANGED <<keycloakVars, envVars>>
    BY <1>1 DEF ListRoles, At
  <1> HIDE DEF p
  <1>5. Progress(roles, scopes, resources, public, proc[r], release[r])
    BY DEF RegistrationInv
  <1>6. RolesProgress(roles, p, release[r]) /\ Confidential(p, public)
    BY <1>1, <1>3, <1>4, <1>5 DEF Progress, RolesProgress, Confidential
  <1>7. Progress(roles, scopes, resources, public, p, release[r])
    BY <1>3, <1>5, <1>6 DEF Progress, Registered, FloatingProgress
  <1> QED
    BY <1>3, <1>4, <1>7, QuietStep DEF envVars, RegistrationInv, TypeOK

LEMMA CreateRoleStep ==
    ASSUME RegistrationInv, NEW r \in Replicas, CreateRole(r)
    PROVE  RegistrationInv'
  <1>1. PICK role \in proc[r].todo :
          /\ roles' = roles \cup {role}
          /\ Becomes(r, [proc[r] EXCEPT !.todo = @ \ {role}, !.rejected = @ \/ role \in roles])
    BY DEF CreateRole
  <1> DEFINE p == [proc[r] EXCEPT !.todo = @ \ {role}, !.rejected = @ \/ role \in roles]
  <1>2. proc[r] \in Process
    BY ReleaseType DEF RegistrationInv
  <1>3. /\ p \in Process
        /\ p.at = proc[r].at
        /\ p.todo = proc[r].todo \ {role}
        /\ p.registered = proc[r].registered
        /\ p.floating = proc[r].floating
    BY <1>2 DEF Process
  <1>4. /\ Becomes(r, p)
        /\ proc[r].at \in {"realmRoles", "clientRoles"}
        /\ UNCHANGED <<authz, scopes, resources, attached, envVars>>
    BY <1>1 DEF CreateRole
  <1> HIDE DEF p
  <1>5. role \in Roles
    BY <1>2 DEF Process
  <1>6. Grows /\ RestTyped' /\ AttachedExist'
    BY <1>1, <1>4, <1>5 DEF RegistrationInv, TypeOK, RestTyped, Grows, AttachedExist, envVars
  <1>7. Progress(roles, scopes, resources, public, proc[r], release[r])
    BY DEF RegistrationInv
  <1>8. RolesProgress(roles', p, release[r])
    BY <1>1, <1>3, <1>4, <1>7 DEF Progress, RolesProgress
  <1>9. Confidential(p, public)
    BY <1>3, <1>7 DEF Progress, Confidential
  <1>10. Progress(roles', scopes', resources', public, p, release[r])
    BY <1>1, <1>3, <1>4, <1>7, <1>8, <1>9 DEF Progress, Registered, FloatingProgress
  <1> QED
    BY <1>3, <1>4, <1>6, <1>10, OwnStep

LEMMA RolesDoneStep ==
    ASSUME RegistrationInv, NEW r \in Replicas, RealmRolesDone(r) \/ ClientRolesDone(r)
    PROVE  RegistrationInv'
  <1>1. /\ proc[r] \in Process
        /\ Progress(roles, scopes, resources, public, proc[r], release[r])
        /\ UNCHANGED <<keycloakVars, envVars>>
    BY ReleaseType DEF RegistrationInv, RealmRolesDone, ClientRolesDone
  <1>2. CASE RealmRolesDone(r) /\ public
    <2> DEFINE p == [proc[r] EXCEPT !.at = "running", !.registered = TRUE]
    <2>1. /\ p \in Process
          /\ p.at = "running"
          /\ p.floating = proc[r].floating
      BY <1>1 DEF Process, Stage
    <2>2. Becomes(r, p) /\ DeclaredRealmRoles(release[r]) \subseteq roles
      BY <1>1, <1>2 DEF RealmRolesDone, At, Progress, RolesProgress
    <2> HIDE DEF p
    <2>3. Progress(roles, scopes, resources, public, p, release[r])
      BY <1>1, <1>2, <2>1, <2>2
      DEF Progress, RolesProgress, Confidential, Registered, FloatingProgress
    <2> QED
      BY <1>1, <2>1, <2>2, <2>3, QuietStep DEF envVars, RegistrationInv, TypeOK
  <1>3. CASE RealmRolesDone(r) /\ ~public
    <2>1. GoTo(r, "enable") /\ DeclaredRealmRoles(release[r]) \subseteq roles
      BY <1>1, <1>3 DEF RealmRolesDone, At, Progress, RolesProgress
    <2>2. [proc[r] EXCEPT !.at = "enable"].at = "enable"
      BY <1>1 DEF Process
    <2>3. /\ RolesProgress(roles, [proc[r] EXCEPT !.at = "enable"], release[r])
          /\ Confidential([proc[r] EXCEPT !.at = "enable"], public)
      BY <1>3, <2>1, <2>2 DEF RolesProgress, Confidential
    <2> QED
      BY <1>1, <2>1, <2>3, MoveStep DEF Stage, envVars, RegistrationInv, TypeOK
  <1>4. CASE ClientRolesDone(r)
    <2>1. /\ GoTo(r, "listResources")
          /\ DeclaredRealmRoles(release[r]) \subseteq roles
          /\ DeclaredClientRoles(release[r]) \subseteq roles
          /\ ~public
      BY <1>1, <1>4 DEF ClientRolesDone, At, Progress, RolesProgress, Confidential
    <2>2. [proc[r] EXCEPT !.at = "listResources"].at = "listResources"
      BY <1>1 DEF Process
    <2>3. /\ RolesProgress(roles, [proc[r] EXCEPT !.at = "listResources"], release[r])
          /\ Confidential([proc[r] EXCEPT !.at = "listResources"], public)
      BY <2>1, <2>2 DEF RolesProgress, Confidential
    <2> QED
      BY <1>1, <2>1, <2>3, MoveStep DEF Stage, envVars, RegistrationInv, TypeOK
  <1> QED
    BY <1>2, <1>3, <1>4

LEMMA EnableAuthorizationStep ==
    ASSUME RegistrationInv, NEW r \in Replicas, EnableAuthorization(r)
    PROVE  RegistrationInv'
  <1> DEFINE p == [proc[r] EXCEPT !.at = "listClientRoles"]
  <1>1. /\ proc[r] \in Process
        /\ Progress(roles, scopes, resources, public, proc[r], release[r])
        /\ UNCHANGED <<roles, scopes, resources, attached, envVars>>
        /\ proc[r].at = "enable"
        /\ authz' \in BOOLEAN
    BY ReleaseType DEF RegistrationInv, TypeOK, EnableAuthorization, At, Process
  <1>2. /\ p \in Process
        /\ p.at = "listClientRoles"
        /\ p.registered = proc[r].registered
        /\ p.floating = proc[r].floating
    BY <1>1 DEF Process, Stage
  <1>3. Becomes(r, p)
    BY DEF EnableAuthorization, GoTo
  <1> HIDE DEF p
  <1>4. Progress(roles', scopes', resources', public, p, release[r])
    BY <1>1, <1>2 DEF Progress, RolesProgress, Confidential, Registered, FloatingProgress
  <1>5. Grows /\ RestTyped' /\ AttachedExist'
    BY <1>1 DEF RegistrationInv, TypeOK, RestTyped, Grows, AttachedExist, envVars
  <1> QED
    BY <1>2, <1>3, <1>4, <1>5, OwnStep

\* Every declared resource gets a task, and no other.
LEMMA ListResourcesStep ==
    ASSUME RegistrationInv, NEW r \in Replicas, ListResources(r)
    PROVE  RegistrationInv'
  <1> DEFINE task == [x \in Resources |->
                        [at |-> IF x \in DeclaredResources(release[r]) THEN "find" ELSE "done",
                         todo |-> {}]]
             p    == [proc[r] EXCEPT !.at = "resources", !.known = resources, !.task = task]
  <1>1. /\ proc[r] \in Process
        /\ Progress(roles, scopes, resources, public, proc[r], release[r])
        /\ UNCHANGED <<keycloakVars, envVars>>
        /\ proc[r].at = "listResources"
        /\ resources \subseteq Resources
    BY ReleaseType DEF RegistrationInv, TypeOK, ListResources, At
  <1>2. task \in [Resources -> Task]
    BY DEF Task
  <1>3. \A x \in Resources :
          /\ task[x].at = IF x \in DeclaredResources(release[r]) THEN "find" ELSE "done"
          /\ task[x].todo = {}
    OBVIOUS
  <1>4. Becomes(r, p)
    BY DEF ListResources
  <1> HIDE DEF task
  <1>5. /\ p \in Process
        /\ p.at = "resources"
        /\ p.known = resources
        /\ p.task = task
        /\ p.registered = proc[r].registered
        /\ p.floating = proc[r].floating
    BY <1>1, <1>2 DEF Process, Stage
  <1> HIDE DEF p
  <1>6. ASSUME NEW x \in Resources
        PROVE  /\ TaskProgress(resources, p.known, p.task[x], release[r], x)
               /\ ScopesProgress(scopes, p.task[x], release[r], x)
    BY <1>3, <1>5 DEF TaskProgress, ScopesProgress
  <1>7. Progress(roles, scopes, resources, public, p, release[r])
    BY <1>1, <1>5, <1>6 DEF Progress, RolesProgress, Confidential, Registered, FloatingProgress
  <1> QED
    BY <1>1, <1>4, <1>5, <1>7, QuietStep DEF envVars, RegistrationInv, TypeOK

\* A step of one resource's task; the others keep their progress.
LEMMA TaskStep ==
    ASSUME RegistrationInv, NEW r \in Replicas, NEW x \in Resources, NEW task \in Task,
           proc[r].at = "resources", Advance(r, x, task),
           Grows, RestTyped', AttachedExist',
           TaskProgress(resources', proc[r].known, task, release[r], x),
           ScopesProgress(scopes', task, release[r], x)
    PROVE  RegistrationInv'
  <1> DEFINE p == [proc[r] EXCEPT !.task[x] = task]
  <1>1. /\ proc[r] \in Process
        /\ Progress(roles, scopes, resources, public, proc[r], release[r])
    BY ReleaseType DEF RegistrationInv
  <1>2. Progress(roles', scopes', resources', public, proc[r], release[r])
    BY <1>1, ProgressGrows DEF Grows
  <1>3. /\ p \in Process
        /\ p.at = "resources"
        /\ p.todo = proc[r].todo
        /\ p.known = proc[r].known
        /\ p.registered = proc[r].registered
        /\ p.floating = proc[r].floating
        /\ \A y \in Resources : p.task[y] = IF y = x THEN task ELSE proc[r].task[y]
    BY <1>1 DEF Process
  <1>4. Becomes(r, p)
    BY DEF Advance
  <1> HIDE DEF p
  <1>5. ASSUME NEW y \in Resources
        PROVE  /\ TaskProgress(resources', p.known, p.task[y], release[r], y)
               /\ ScopesProgress(scopes', p.task[y], release[r], y)
    BY <1>2, <1>3 DEF Progress
  <1>6. RolesProgress(roles', p, release[r])
    BY <1>2, <1>3 DEF Progress, RolesProgress
  <1>7. Progress(roles', scopes', resources', public, p, release[r])
    BY <1>2, <1>3, <1>5, <1>6 DEF Progress, Confidential, Registered, FloatingProgress
  <1> QED
    BY <1>3, <1>4, <1>7, OwnStep

LEMMA TaskTypes ==
    ASSUME RegistrationInv, NEW r \in Replicas, NEW x \in Resources, proc[r].at = "resources"
    PROVE  /\ proc[r] \in Process
           /\ proc[r].task[x] \in Task
           /\ TaskProgress(resources, proc[r].known, proc[r].task[x], release[r], x)
           /\ ScopesProgress(scopes, proc[r].task[x], release[r], x)
           /\ DeclaredScopes(release[r], x) \subseteq Scopes
  <1>1. proc[r] \in Process /\ release[r] \in Application
    BY ReleaseType DEF RegistrationInv
  <1>2. proc[r].task[x] \in Task
    BY <1>1 DEF Process
  <1> QED
    BY <1>1, <1>2, DeclaredTypes DEF RegistrationInv, Progress

LEMMA Unchanged ==
    ASSUME RegistrationInv, UNCHANGED <<keycloakVars, envVars>>
    PROVE  Grows /\ RestTyped' /\ AttachedExist'
  BY DEF RegistrationInv, TypeOK, RestTyped, Grows, AttachedExist, keycloakVars, envVars

\* A scope that is listed, for a known resource as attached, exists.
LEMMA FindScopesStep ==
    ASSUME RegistrationInv, NEW r \in Replicas, NEW x \in Resources, FindScopes(r, x)
    PROVE  RegistrationInv'
  <1> DEFINE existing == IF x \in proc[r].known THEN attached[x] ELSE scopes
             task     == [at |-> "create", todo |-> DeclaredScopes(release[r], x) \ existing]
  <1>1. /\ proc[r].at = "resources" /\ proc[r].task[x].at = "find"
        /\ Advance(r, x, task)
        /\ UNCHANGED <<keycloakVars, envVars>>
    BY DEF FindScopes, TaskAt
  <1>2. existing \subseteq scopes
    BY DEF RegistrationInv, AttachedExist
  <1> HIDE DEF existing
  <1>3. task \in Task
    BY <1>1, TaskTypes DEF Task
  <1>4. ScopesProgress(scopes', task, release[r], x)
    BY <1>1, <1>2 DEF ScopesProgress, keycloakVars
  <1>5. TaskProgress(resources', proc[r].known, task, release[r], x)
    BY <1>1, TaskTypes DEF TaskProgress, keycloakVars
  <1> HIDE DEF task
  <1> QED
    BY <1>1, <1>3, <1>4, <1>5, Unchanged, TaskStep

LEMMA CreateScopeStep ==
    ASSUME RegistrationInv, NEW r \in Replicas, NEW x \in Resources, CreateScope(r, x)
    PROVE  RegistrationInv'
  <1>1. PICK scope \in proc[r].task[x].todo :
          /\ scopes' = scopes \cup {scope}
          /\ Advance(r, x, [at |-> "create", todo |-> proc[r].task[x].todo \ {scope}])
    BY DEF CreateScope
  <1> DEFINE task == [at |-> "create", todo |-> proc[r].task[x].todo \ {scope}]
  <1>2. /\ proc[r].at = "resources" /\ proc[r].task[x].at = "create"
        /\ UNCHANGED <<roles, authz, resources, attached, envVars>>
    BY DEF CreateScope, TaskAt
  <1>3. proc[r].task[x].todo \subseteq Scopes
    BY <1>2, TaskTypes DEF Task
  <1>4. Grows /\ RestTyped' /\ AttachedExist'
    BY <1>1, <1>2, <1>3 DEF RegistrationInv, TypeOK, RestTyped, Grows, AttachedExist, envVars
  <1>5. task \in Task
    BY <1>3 DEF Task
  <1>6. TaskProgress(resources', proc[r].known, task, release[r], x)
    BY <1>2, TaskTypes DEF TaskProgress
  <1>7. ScopesProgress(scopes', task, release[r], x)
    BY <1>1, <1>2, TaskTypes DEF ScopesProgress
  <1> QED
    BY <1>1, <1>2, <1>4, <1>5, <1>6, <1>7, TaskStep

LEMMA ScopesCreatedStep ==
    ASSUME RegistrationInv, NEW r \in Replicas, NEW x \in Resources, ScopesCreated(r, x)
    PROVE  RegistrationInv'
  <1> DEFINE task == [at |-> "attach", todo |-> {}]
  <1>1. /\ proc[r].at = "resources" /\ proc[r].task[x].at = "create"
        /\ proc[r].task[x].todo = {}
        /\ Advance(r, x, task)
        /\ UNCHANGED <<keycloakVars, envVars>>
    BY DEF ScopesCreated, TaskAt
  <1>2. task \in Task
    BY DEF Task
  <1>3. TaskProgress(resources', proc[r].known, task, release[r], x)
    BY <1>1, TaskTypes DEF TaskProgress, keycloakVars
  <1>4. ScopesProgress(scopes', task, release[r], x)
    BY <1>1, TaskTypes DEF ScopesProgress, keycloakVars
  <1> QED
    BY <1>1, <1>2, <1>3, <1>4, Unchanged, TaskStep

\* A resource whose update floats was on the list, so it exists.
LEMMA UpdateResourceStep ==
    ASSUME RegistrationInv, NEW r \in Replicas, NEW x \in Resources, UpdateResource(r, x)
    PROVE  RegistrationInv'
  <1> DEFINE p == [proc[r] EXCEPT !.task[x].at = "done", !.floating = @ \cup {x}]
  <1>1. /\ proc[r].at = "resources" /\ proc[r].task[x].at = "attach"
        /\ x \in proc[r].known
        /\ Becomes(r, p)
        /\ UNCHANGED <<keycloakVars, envVars>>
    BY DEF UpdateResource, TaskAt
  <1>2. /\ proc[r] \in Process
        /\ Progress(roles, scopes, resources, public, proc[r], release[r])
    BY ReleaseType DEF RegistrationInv
  <1>3. /\ p \in Process
        /\ p.at = "resources"
        /\ p.todo = proc[r].todo
        /\ p.known = proc[r].known
        /\ p.registered = proc[r].registered
        /\ p.floating = proc[r].floating \cup {x}
        /\ \A y \in Resources : p.task[y].at = IF y = x THEN "done" ELSE proc[r].task[y].at
        /\ \A y \in Resources : p.task[y].todo = proc[r].task[y].todo
    BY <1>1, <1>2 DEF Process, Task
  <1> HIDE DEF p
  <1>4. x \in DeclaredResources(release[r]) /\ DeclaredScopes(release[r], x) \subseteq scopes
    BY <1>1, TaskTypes DEF TaskProgress, ScopesProgress
  <1>5. ASSUME NEW y \in Resources
        PROVE  /\ TaskProgress(resources, p.known, p.task[y], release[r], y)
               /\ ScopesProgress(scopes, p.task[y], release[r], y)
    <2>1. /\ TaskProgress(resources, proc[r].known, proc[r].task[y], release[r], y)
          /\ ScopesProgress(scopes, proc[r].task[y], release[r], y)
      BY <1>1, TaskTypes
    <2> QED
      BY <1>1, <1>3, <2>1 DEF TaskProgress, ScopesProgress
  <1>6. RolesProgress(roles, p, release[r])
    BY <1>1, <1>2, <1>3 DEF Progress, RolesProgress
  <1>7. FloatingProgress(scopes, p, release[r])
    BY <1>2, <1>3, <1>4 DEF Progress, FloatingProgress
  <1>8. Progress(roles, scopes, resources, public, p, release[r])
    BY <1>1, <1>2, <1>3, <1>5, <1>6, <1>7 DEF Progress, Confidential, Registered
  <1> QED
    BY <1>1, <1>3, <1>8, QuietStep DEF envVars, RegistrationInv, TypeOK

LEMMA UpdateArrivesStep ==
    ASSUME RegistrationInv, NEW r \in Replicas, NEW x \in Resources, UpdateArrives(r, x)
    PROVE  RegistrationInv'
  <1> DEFINE p == [proc[r] EXCEPT !.floating = @ \ {x}]
  <1>1. /\ x \in proc[r].floating
        /\ attached' = [attached EXCEPT ![x] = DeclaredScopes(release[r], x)]
        /\ Becomes(r, p)
        /\ UNCHANGED <<roles, authz, scopes, resources, envVars>>
    BY DEF UpdateArrives
  <1>2. /\ proc[r] \in Process
        /\ Progress(roles, scopes, resources, public, proc[r], release[r])
    BY ReleaseType DEF RegistrationInv
  <1>3. /\ p \in Process
        /\ p.at = proc[r].at
        /\ p.todo = proc[r].todo
        /\ p.known = proc[r].known
        /\ p.task = proc[r].task
        /\ p.registered = proc[r].registered
        /\ p.floating = proc[r].floating \ {x}
    BY <1>2 DEF Process
  <1> HIDE DEF p
  <1>4. DeclaredScopes(release[r], x) \subseteq scopes
    BY <1>1, <1>2 DEF Progress, FloatingProgress
  <1>5. Grows /\ RestTyped' /\ AttachedExist'
    BY <1>1, <1>4 DEF RegistrationInv, TypeOK, RestTyped, Grows, AttachedExist, envVars
  <1>6. Progress(roles', scopes', resources', public, p, release[r])
    BY <1>1, <1>2, <1>3
    DEF Progress, RolesProgress, Confidential, Registered, FloatingProgress
  <1> QED
    BY <1>1, <1>3, <1>5, <1>6, OwnStep

\* A call that is rejected leaves the work where it is.
LEMMA RejectStep ==
    ASSUME RegistrationInv, NEW r \in Replicas, Reject(r), UNCHANGED <<keycloakVars, envVars>>
    PROVE  RegistrationInv'
  <1> DEFINE p == [proc[r] EXCEPT !.rejected = TRUE]
  <1>1. /\ proc[r] \in Process
        /\ Progress(roles, scopes, resources, public, proc[r], release[r])
    BY ReleaseType DEF RegistrationInv
  <1>2. /\ p \in Process
        /\ p.at = proc[r].at
        /\ p.todo = proc[r].todo
        /\ p.known = proc[r].known
        /\ p.task = proc[r].task
        /\ p.registered = proc[r].registered
        /\ p.floating = proc[r].floating
    BY <1>1 DEF Process
  <1>3. Becomes(r, p)
    BY DEF Reject
  <1> HIDE DEF p
  <1>4. Progress(roles, scopes, resources, public, p, release[r])
    BY <1>1, <1>2 DEF Progress, RolesProgress, Confidential, Registered, FloatingProgress
  <1> QED
    BY <1>2, <1>3, <1>4, QuietStep DEF envVars, RegistrationInv, TypeOK

LEMMA CreateResourceStep ==
    ASSUME RegistrationInv, NEW r \in Replicas, NEW x \in Resources, CreateResource(r, x)
    PROVE  RegistrationInv'
  <1> DEFINE task == [at |-> "done", todo |-> {}]
  <1>1. /\ proc[r].at = "resources" /\ proc[r].task[x].at = "attach"
        /\ UNCHANGED <<roles, authz, scopes, envVars>>
    BY DEF CreateResource, TaskAt
  <1>2. CASE x \in resources
    <2>1. Reject(r) /\ UNCHANGED <<keycloakVars, envVars>>
      BY <1>1, <1>2 DEF CreateResource, keycloakVars
    <2> QED
      BY <2>1, RejectStep
  <1>3. CASE x \notin resources
    <2>1. /\ resources' = resources \cup {x}
          /\ attached' = [attached EXCEPT ![x] = DeclaredScopes(release[r], x)]
          /\ Advance(r, x, task)
      BY <1>3 DEF CreateResource
    <2>2. DeclaredScopes(release[r], x) \subseteq scopes
      BY <1>1, TaskTypes DEF ScopesProgress
    <2>3. Grows /\ RestTyped' /\ AttachedExist'
      BY <1>1, <2>1, <2>2 DEF RegistrationInv, TypeOK, RestTyped, Grows, AttachedExist, envVars
    <2>4. TaskProgress(resources', proc[r].known, task, release[r], x)
      BY <1>1, <2>1, TaskTypes DEF TaskProgress
    <2>5. task \in Task /\ ScopesProgress(scopes', task, release[r], x)
      BY DEF Task, ScopesProgress
    <2> QED
      BY <1>1, <2>1, <2>3, <2>4, <2>5, TaskStep
  <1> QED
    BY <1>2, <1>3

\* All tasks are done, so all declared resources exist.
LEMMA ResourcesDoneStep ==
    ASSUME RegistrationInv, NEW r \in Replicas, ResourcesDone(r)
    PROVE  RegistrationInv'
  <1> DEFINE p == [proc[r] EXCEPT !.at = "running", !.registered = TRUE]
  <1>1. /\ proc[r] \in Process
        /\ release[r] \in Application
        /\ Progress(roles, scopes, resources, public, proc[r], release[r])
    BY ReleaseType DEF RegistrationInv
  <1>2. /\ proc[r].at = "resources"
        /\ \A x \in Resources : proc[r].task[x].at = "done"
        /\ Becomes(r, p)
        /\ UNCHANGED <<keycloakVars, envVars>>
    BY DEF ResourcesDone, At
  <1>3. p \in Process /\ p.at = "running" /\ p.floating = proc[r].floating
    BY <1>1 DEF Process, Stage
  <1> HIDE DEF p
  <1>4. ASSUME NEW x \in DeclaredResources(release[r])
        PROVE  x \in resources
    <2>1. x \in Resources
      BY <1>1, DeclaredTypes
    <2> QED
      BY <1>1, <1>2, <2>1 DEF Progress, TaskProgress
  <1>5. Progress(roles, scopes, resources, public, p, release[r])
    BY <1>1, <1>2, <1>3, <1>4
    DEF Progress, RolesProgress, Confidential, Registered, FloatingProgress
  <1> QED
    BY <1>2, <1>3, <1>5, QuietStep DEF envVars, RegistrationInv, TypeOK

LEMMA DieStep ==
    ASSUME RegistrationInv, NEW r \in Replicas, UpdateFails(r) \/ Restart(r) \/ Crash(r)
    PROVE  RegistrationInv'
  <1>1. Becomes(r, Boot) /\ Grows
    BY DEF UpdateFails, Restart, Crash, keycloakVars, envVars, Grows
  <1>2. RestTyped' /\ AttachedExist'
    BY RegistrationAssumption
    DEF UpdateFails, Restart, Crash, keycloakVars, envVars, RegistrationInv, TypeOK, RestTyped,
        AttachedExist
  <1> QED
    BY <1>1, <1>2, BootType, BootProgress, OwnStep

LEMMA KeycloakStep ==
    ASSUME RegistrationInv, ComeUp \/ GoDown \/ UNCHANGED vars
    PROVE  RegistrationInv'
  <1>1. UNCHANGED <<roles, scopes, resources, attached, proc, release, public>>
    BY DEF ComeUp, GoDown, vars, keycloakVars, envVars
  <1>2. up' \in BOOLEAN
    BY Zenon DEF ComeUp, GoDown, vars, envVars, RegistrationInv, TypeOK
  <1>3. UNCHANGED <<authz, crashes, forced>> /\ outages' \in 0..MaxOutages
    BY RegistrationAssumption
    DEF ComeUp, GoDown, vars, keycloakVars, envVars, RegistrationInv, TypeOK
  <1>4. TypeOK'
    BY <1>1, <1>2, <1>3 DEF RegistrationInv, TypeOK
  <1> QED
    BY <1>1, <1>4 DEF RegistrationInv, AttachedExist

-----------------------------------------------------------------------------
(* The invariant, and what it gives *)

LEMMA RegistrationInvInit == Init => RegistrationInv
  <1> SUFFICES ASSUME Init
               PROVE  RegistrationInv
    OBVIOUS
  <1>1. TypeOK
    <2>1. up \in BOOLEAN
      BY Zenon DEF Init
    <2>2. /\ scopes \subseteq Scopes
          /\ resources \subseteq Resources
          /\ attached \in [Resources -> SUBSET Scopes]
      BY DEF Init
    <2>3. proc \in [Replicas -> Process]
      BY BootType DEF Init
    <2> QED
      BY <2>1, <2>2, <2>3, RegistrationAssumption DEF Init, TypeOK
  <1>2. AttachedExist
    BY DEF Init, AttachedExist
  <1>3. \A r \in Replicas : Progress(roles, scopes, resources, public, proc[r], release[r])
    BY BootProgress DEF Init
  <1> QED
    BY <1>1, <1>2, <1>3 DEF RegistrationInv

LEMMA RegistrationInvStep == RegistrationInv /\ [Next]_vars => RegistrationInv'
  <1> SUFFICES ASSUME RegistrationInv, [Next]_vars
               PROVE  RegistrationInv'
    OBVIOUS
  <1>1. ASSUME NEW r \in Replicas, Run(r)
        PROVE  RegistrationInv'
    BY <1>1, WaitStep, GetClientStep, ListRolesStep, CreateRoleStep, RolesDoneStep,
       EnableAuthorizationStep, ListResourcesStep, ResourcesDoneStep, FindScopesStep,
       CreateScopeStep, ScopesCreatedStep, UpdateResourceStep, CreateResourceStep
    DEF Run
  <1>2. ASSUME NEW r \in Replicas, Settle(r)
        PROVE  RegistrationInv'
    BY <1>2, UpdateArrivesStep DEF Settle
  <1>3. ASSUME NEW r \in Replicas, CallFails(r)
        PROVE  RegistrationInv'
    BY <1>3, RejectStep DEF CallFails
  <1> QED
    BY <1>1, <1>2, <1>3, WaitStep, DieStep, KeycloakStep DEF Next, Serve

\* Keycloak has what every stage of every replica's register has put there, and
\* what is still missing is what calls are yet to bring, for any interleaving.
THEOREM RegistrationInvariant == Spec => []RegistrationInv
  BY RegistrationInvInit, RegistrationInvStep, PTL DEF Spec

\* Registration keeps to its types, for any replicas, releases and bounds.
THEOREM RegistrationTypeCorrect == Spec => []TypeOK
  <1>1. RegistrationInv => TypeOK
    BY DEF RegistrationInv
  <1> QED
    BY <1>1, RegistrationInvariant, PTL

\* A replica that counts as registered has its roles and resources in Keycloak,
\* whatever other replicas of whatever releases, crashes and outages did.
THEOREM RegisteredReplicasHaveRoles == Spec => []RegisteredHasRoles
  <1>1. RegistrationInv => RegisteredHasRoles
    <2> SUFFICES ASSUME RegistrationInv, NEW r \in Replicas, proc[r].registered
                 PROVE  RolesCreated(r)
      BY DEF RegisteredHasRoles
    <2>1. Registered(roles, resources, proc[r], release[r], public)
      BY DEF RegistrationInv, Progress
    <2>2. DeclaredRoles(release[r])
            = DeclaredRealmRoles(release[r]) \cup DeclaredClientRoles(release[r])
      BY ReleaseType, DeclaredTypes DEF RegistrationInv
    <2> QED
      BY <2>1, <2>2 DEF Registered, RolesCreated, OwnRoles, OwnResources
  <1> QED
    BY <1>1, RegistrationInvariant, PTL

-----------------------------------------------------------------------------
(* Releases that agree on the scopes of the resources they share.  Without  *)
(* that, each release replaces the scopes of the other.                     *)

ReleasesAgree ==
    \A d \in Deployments : \A r, s \in Replicas :
        \A x \in DeclaredResources(d[r]) \cap DeclaredResources(d[s]) :
            DeclaredScopes(d[r], x) = DeclaredScopes(d[s], x)

\* A resource whose task is done, and so every resource of a registered
\* replica, has its scopes, or the update that brings them is on its way.
Attached(p, app, x, scopesOfX, open) ==
    (\/ p.registered /\ ~open
     \/ p.at = "resources" /\ p.task[x].at = "done")
    => x \in p.floating \/ DeclaredScopes(app, x) \subseteq scopesOfX

AttachedInv ==
    /\ RegistrationInv
    /\ \A r \in Replicas : \A x \in DeclaredResources(release[r]) :
          Attached(proc[r], release[r], x, attached[x], public)

\* What one replica does to the scopes of a resource suits all the others.
LEMMA AttachedOwnStep ==
    ASSUME ReleasesAgree, AttachedInv, RegistrationInv', NEW r \in Replicas,
           NEW p, Becomes(r, p), UNCHANGED <<release, public>>,
           \A x \in Resources :
              \/ attached'[x] = attached[x]
              \/ /\ x \in DeclaredResources(release[r])
                 /\ attached'[x] = DeclaredScopes(release[r], x),
           \A x \in DeclaredResources(release[r]) :
              Attached(p, release[r], x, attached'[x], public)
    PROVE  AttachedInv'
  <1> SUFFICES ASSUME NEW s \in Replicas, NEW x \in DeclaredResources(release[s])
               PROVE  Attached(proc'[s], release[s], x, attached'[x], public)
    BY DEF AttachedInv
  <1>1. proc' = [proc EXCEPT ![r] = p] /\ proc \in [Replicas -> Process]
    BY DEF Becomes, AttachedInv, RegistrationInv, TypeOK
  <1>2. CASE s = r
    BY <1>1, <1>2
  <1>3. CASE s # r
    <2>1. proc'[s] = proc[s] /\ Attached(proc[s], release[s], x, attached[x], public)
      BY <1>1, <1>3 DEF AttachedInv
    <2>2. x \in Resources
      BY ReleaseType, DeclaredTypes DEF AttachedInv, RegistrationInv
    <2>3. CASE attached'[x] = attached[x]
      BY <2>1, <2>3
    <2>4. CASE x \in DeclaredResources(release[r]) /\ attached'[x] = DeclaredScopes(release[r], x)
      <3>1. DeclaredScopes(release[r], x) = DeclaredScopes(release[s], x)
        BY <2>4 DEF ReleasesAgree, AttachedInv, RegistrationInv, TypeOK
      <3> QED
        BY <2>1, <2>4, <3>1 DEF Attached
    <2> QED
      BY <2>2, <2>3, <2>4
  <1> QED
    BY <1>2, <1>3

\* Steps that lead to no resource and register nobody for one
LEMMA AttachedQuietStep ==
    ASSUME ReleasesAgree, AttachedInv, RegistrationInv', NEW r \in Replicas,
           NEW p, Becomes(r, p), UNCHANGED <<release, public, attached>>,
           p.registered /\ ~public => proc[r].registered,
           p.floating = proc[r].floating,
           p.at = "resources" => proc[r].at = "resources" /\ p.task = proc[r].task
    PROVE  AttachedInv'
  <1>1. \A x \in DeclaredResources(release[r]) :
           Attached(p, release[r], x, attached'[x], public)
    BY DEF AttachedInv, Attached
  <1> QED
    BY <1>1, AttachedOwnStep

LEMMA AttachedMoveStep ==
    ASSUME ReleasesAgree, AttachedInv, RegistrationInv', NEW r \in Replicas,
           \/ Register(r) \/ ForceRegister(r) \/ PollHealth(r) \/ PollWellKnown(r)
           \/ GetClient(r) \/ ListRealmRoles(r) \/ ListClientRoles(r) \/ CreateRole(r)
           \/ RealmRolesDone(r) \/ EnableAuthorization(r) \/ ClientRolesDone(r)
           \/ CallFails(r)
    PROVE  AttachedInv'
  <1>1. proc[r] \in Process
    BY ReleaseType DEF AttachedInv, RegistrationInv
  <1>2. UNCHANGED <<release, public, attached>>
    BY DEF Register, ForceRegister, PollHealth, PollWellKnown, GetClient, ListRealmRoles,
           ListClientRoles, ListRoles, CreateRole, RealmRolesDone, EnableAuthorization,
           ClientRolesDone, CallFails, keycloakVars, envVars
  <1>3. CASE \/ Register(r) \/ ForceRegister(r) \/ PollHealth(r) \/ PollWellKnown(r)
             \/ EnableAuthorization(r) \/ ClientRolesDone(r)
             \/ RealmRolesDone(r) /\ ~public
    <2>1. PICK at \in Stage \ {"resources"} : GoTo(r, at)
      BY <1>3 DEF Register, ForceRegister, PollHealth, PollWellKnown, EnableAuthorization,
                  ClientRolesDone, RealmRolesDone, Stage
    <2> DEFINE p == [proc[r] EXCEPT !.at = at]
    <2>2. p.registered = proc[r].registered /\ p.floating = proc[r].floating /\ p.at = at
      BY <1>1 DEF Process
    <2>3. Becomes(r, p)
      BY <2>1 DEF GoTo
    <2> HIDE DEF p
    <2> QED
      BY <1>2, <2>2, <2>3, AttachedQuietStep
  <1>4. CASE RealmRolesDone(r) /\ public
    <2> DEFINE p == [proc[r] EXCEPT !.at = "running", !.registered = TRUE]
    <2>1. p.floating = proc[r].floating /\ p.at = "running"
      BY <1>1 DEF Process
    <2>2. Becomes(r, p)
      BY <1>4 DEF RealmRolesDone
    <2> HIDE DEF p
    <2> QED
      BY <1>2, <1>4, <2>1, <2>2, AttachedQuietStep
  <1>5. CASE GetClient(r)
    <2> DEFINE p == [proc[r] EXCEPT !.at = "listRealmRoles", !.sawAuthz = authz]
    <2>1. /\ p.registered = proc[r].registered
          /\ p.floating = proc[r].floating
          /\ p.at = "listRealmRoles"
      BY <1>1 DEF Process
    <2>2. Becomes(r, p)
      BY <1>5 DEF GetClient
    <2> HIDE DEF p
    <2> QED
      BY <1>2, <2>1, <2>2, AttachedQuietStep
  <1>6. CASE ListRealmRoles(r) \/ ListClientRoles(r)
    <2>1. PICK from \in {"listRealmRoles", "listClientRoles"},
               to \in {"realmRoles", "clientRoles"},
               declared \in {DeclaredRealmRoles(release[r]), DeclaredClientRoles(release[r])} :
             ListRoles(r, from, to, declared)
      BY <1>6 DEF ListRealmRoles, ListClientRoles
    <2> DEFINE p == [proc[r] EXCEPT !.at = to, !.todo = declared \ roles]
    <2>2. p.registered = proc[r].registered /\ p.floating = proc[r].floating /\ p.at = to
      BY <1>1 DEF Process
    <2>3. Becomes(r, p)
      BY <2>1 DEF ListRoles
    <2> HIDE DEF p
    <2> QED
      BY <1>2, <2>1, <2>2, <2>3, AttachedQuietStep
  <1>7. CASE CreateRole(r)
    <2>1. PICK role \in proc[r].todo :
             Becomes(r, [proc[r] EXCEPT !.todo = @ \ {role}, !.rejected = @ \/ role \in roles])
      BY <1>7 DEF CreateRole
    <2> DEFINE p == [proc[r] EXCEPT !.todo = @ \ {role}, !.rejected = @ \/ role \in roles]
    <2>2. /\ p.registered = proc[r].registered
          /\ p.floating = proc[r].floating
          /\ p.at = proc[r].at
          /\ p.task = proc[r].task
      BY <1>1 DEF Process
    <2>3. Becomes(r, p)
      BY <2>1
    <2> HIDE DEF p
    <2> QED
      BY <1>2, <2>2, <2>3, AttachedQuietStep
  <1>8. CASE CallFails(r)
    <2> DEFINE p == [proc[r] EXCEPT !.rejected = TRUE]
    <2>1. /\ p.registered = proc[r].registered
          /\ p.floating = proc[r].floating
          /\ p.at = proc[r].at
          /\ p.task = proc[r].task
      BY <1>1 DEF Process
    <2>2. Becomes(r, p)
      BY <1>8 DEF CallFails, Reject
    <2> HIDE DEF p
    <2> QED
      BY <1>2, <2>1, <2>2, AttachedQuietStep
  <1> QED
    BY <1>3, <1>4, <1>5, <1>6, <1>7, <1>8

LEMMA AttachedTaskStep ==
    ASSUME ReleasesAgree, AttachedInv, RegistrationInv', NEW r \in Replicas,
           NEW x \in Resources,
           FindScopes(r, x) \/ CreateScope(r, x) \/ ScopesCreated(r, x) \/ CreateResource(r, x)
    PROVE  AttachedInv'
  <1>1. proc[r] \in Process /\ proc[r].at = "resources"
    BY ReleaseType
    DEF AttachedInv, RegistrationInv, FindScopes, CreateScope, ScopesCreated, CreateResource, TaskAt
  <1>2. UNCHANGED <<release, public>>
    BY DEF FindScopes, CreateScope, ScopesCreated, CreateResource, envVars
  <1>3. CASE CreateResource(r, x) /\ x \in resources
    <2> DEFINE p == [proc[r] EXCEPT !.rejected = TRUE]
    <2>1. /\ p.registered = proc[r].registered
          /\ p.floating = proc[r].floating
          /\ p.at = proc[r].at
          /\ p.task = proc[r].task
      BY <1>1 DEF Process
    <2>2. Becomes(r, p) /\ UNCHANGED attached
      BY <1>3 DEF CreateResource, Reject
    <2> HIDE DEF p
    <2> QED
      BY <1>2, <2>1, <2>2, AttachedQuietStep
  <1>4. ASSUME NEW task \in Task, Advance(r, x, task),
               \/ task.at # "done" /\ UNCHANGED attached
               \/ /\ x \in DeclaredResources(release[r])
                  /\ attached' = [attached EXCEPT ![x] = DeclaredScopes(release[r], x)]
        PROVE  AttachedInv'
    <2> DEFINE p == [proc[r] EXCEPT !.task[x] = task]
    <2>1. /\ p.registered = proc[r].registered
          /\ p.floating = proc[r].floating
          /\ p.at = "resources"
          /\ \A y \in Resources : p.task[y] = IF y = x THEN task ELSE proc[r].task[y]
      BY <1>1 DEF Process
    <2>2. Becomes(r, p)
      BY <1>4 DEF Advance
    <2> HIDE DEF p
    <2>3. attached \in [Resources -> SUBSET Scopes]
      BY DEF AttachedInv, RegistrationInv, TypeOK
    <2>4. \A y \in Resources :
             \/ attached'[y] = attached[y]
             \/ /\ y \in DeclaredResources(release[r])
                /\ attached'[y] = DeclaredScopes(release[r], y)
      BY <1>4, <2>3
    <2>5. ASSUME NEW y \in DeclaredResources(release[r])
          PROVE  Attached(p, release[r], y, attached'[y], public)
      <3>1. y \in Resources /\ Attached(proc[r], release[r], y, attached[y], public)
        BY ReleaseType, DeclaredTypes DEF AttachedInv, RegistrationInv
      <3> QED
        BY <1>1, <1>4, <2>1, <2>3, <3>1 DEF Attached
    <2> QED
      BY <1>2, <2>2, <2>4, <2>5, AttachedOwnStep
  <1>5. proc[r].task[x] \in Task /\ DeclaredScopes(release[r], x) \subseteq Scopes
    BY <1>1, TaskTypes DEF AttachedInv
  <1>6. CASE FindScopes(r, x)
    <2> DEFINE existing == IF x \in proc[r].known THEN attached[x] ELSE scopes
               task     == [at |-> "create", todo |-> DeclaredScopes(release[r], x) \ existing]
    <2>1. task \in Task /\ task.at # "done"
      BY <1>5 DEF Task
    <2>2. Advance(r, x, task) /\ UNCHANGED attached
      BY <1>6 DEF FindScopes, keycloakVars
    <2> QED
      BY <1>4, <2>1, <2>2
  <1>7. CASE CreateScope(r, x)
    <2>1. PICK scope \in proc[r].task[x].todo :
             Advance(r, x, [at |-> "create", todo |-> proc[r].task[x].todo \ {scope}])
      BY <1>7 DEF CreateScope
    <2> DEFINE task == [at |-> "create", todo |-> proc[r].task[x].todo \ {scope}]
    <2>2. task \in Task /\ task.at # "done" /\ UNCHANGED attached
      BY <1>5, <1>7 DEF Task, CreateScope
    <2> QED
      BY <1>4, <2>1, <2>2
  <1>8. CASE ScopesCreated(r, x)
    <2>1. Advance(r, x, [at |-> "attach", todo |-> {}]) /\ UNCHANGED attached
      BY <1>8 DEF ScopesCreated, keycloakVars
    <2>2. [at |-> "attach", todo |-> {}] \in Task /\ [at |-> "attach", todo |-> {}].at # "done"
      BY DEF Task
    <2> QED
      BY <1>4, <2>1, <2>2
  <1>9. CASE CreateResource(r, x) /\ x \notin resources
    <2>1. /\ Advance(r, x, [at |-> "done", todo |-> {}])
          /\ attached' = [attached EXCEPT ![x] = DeclaredScopes(release[r], x)]
      BY <1>9 DEF CreateResource
    <2>2. [at |-> "done", todo |-> {}] \in Task
      BY DEF Task
    <2>3. x \in DeclaredResources(release[r])
      BY <1>1, <1>9, TaskTypes DEF AttachedInv, CreateResource, TaskAt, TaskProgress
    <2> QED
      BY <1>4, <2>1, <2>2, <2>3
  <1> QED
    BY <1>3, <1>6, <1>7, <1>8, <1>9

LEMMA AttachedResourcesStep ==
    ASSUME ReleasesAgree, AttachedInv, RegistrationInv', NEW r \in Replicas,
           ListResources(r) \/ ResourcesDone(r)
    PROVE  AttachedInv'
  <1>1. /\ proc[r] \in Process
        /\ DeclaredResources(release[r]) \subseteq Resources
    BY ReleaseType, DeclaredTypes DEF AttachedInv, RegistrationInv
  <1>2. UNCHANGED <<release, public, attached>>
    BY DEF ListResources, ResourcesDone, keycloakVars, envVars
  <1>3. CASE ListResources(r)
    <2> DEFINE task == [x \in Resources |->
                          [at |-> IF x \in DeclaredResources(release[r]) THEN "find" ELSE "done",
                           todo |-> {}]]
               p    == [proc[r] EXCEPT !.at = "resources", !.known = resources, !.task = task]
    <2>1. \A x \in DeclaredResources(release[r]) : task[x].at = "find"
      BY <1>1
    <2>2. Becomes(r, p)
      BY <1>3 DEF ListResources
    <2> HIDE DEF task
    <2>3. /\ p.registered = proc[r].registered
          /\ p.floating = proc[r].floating
          /\ p.task = task
      BY <1>1 DEF Process
    <2> HIDE DEF p
    <2>4. \A x \in DeclaredResources(release[r]) :
             Attached(p, release[r], x, attached'[x], public)
      BY <1>2, <2>1, <2>3 DEF AttachedInv, Attached
    <2> QED
      BY <1>2, <2>2, <2>4, AttachedOwnStep
  <1>4. CASE ResourcesDone(r)
    <2> DEFINE p == [proc[r] EXCEPT !.at = "running", !.registered = TRUE]
    <2>1. p.floating = proc[r].floating
      BY <1>1 DEF Process
    <2>2. /\ Becomes(r, p)
          /\ proc[r].at = "resources"
          /\ \A x \in Resources : proc[r].task[x].at = "done"
      BY <1>4 DEF ResourcesDone, At
    <2> HIDE DEF p
    <2>3. \A x \in DeclaredResources(release[r]) :
             Attached(p, release[r], x, attached'[x], public)
      BY <1>1, <1>2, <2>1, <2>2 DEF AttachedInv, Attached
    <2> QED
      BY <1>2, <2>2, <2>3, AttachedOwnStep
  <1> QED
    BY <1>3, <1>4

LEMMA AttachedUpdateStep ==
    ASSUME ReleasesAgree, AttachedInv, RegistrationInv', NEW r \in Replicas,
           NEW x \in Resources, UpdateResource(r, x) \/ UpdateArrives(r, x)
    PROVE  AttachedInv'
  <1>1. /\ proc[r] \in Process
        /\ DeclaredResources(release[r]) \subseteq Resources
        /\ attached \in [Resources -> SUBSET Scopes]
    BY ReleaseType, DeclaredTypes DEF AttachedInv, RegistrationInv, TypeOK
  <1>2. UNCHANGED <<release, public>>
    BY DEF UpdateResource, UpdateArrives, envVars
  <1>3. CASE UpdateResource(r, x)
    <2> DEFINE p == [proc[r] EXCEPT !.task[x].at = "done", !.floating = @ \cup {x}]
    <2>1. /\ p.registered = proc[r].registered
          /\ p.floating = proc[r].floating \cup {x}
          /\ p.at = proc[r].at
          /\ \A y \in Resources \ {x} : p.task[y] = proc[r].task[y]
      BY <1>1 DEF Process
    <2>2. Becomes(r, p) /\ UNCHANGED attached
      BY <1>3 DEF UpdateResource, keycloakVars
    <2> HIDE DEF p
    <2>3. \A y \in DeclaredResources(release[r]) :
             Attached(p, release[r], y, attached'[y], public)
      BY <1>1, <2>1, <2>2 DEF AttachedInv, Attached
    <2> QED
      BY <1>2, <2>2, <2>3, AttachedOwnStep
  <1>4. CASE UpdateArrives(r, x)
    <2> DEFINE p == [proc[r] EXCEPT !.floating = @ \ {x}]
    <2>1. /\ p.registered = proc[r].registered
          /\ p.floating = proc[r].floating \ {x}
          /\ p.at = proc[r].at
          /\ p.task = proc[r].task
      BY <1>1 DEF Process
    <2>2. /\ Becomes(r, p)
          /\ x \in proc[r].floating
          /\ attached' = [attached EXCEPT ![x] = DeclaredScopes(release[r], x)]
      BY <1>4 DEF UpdateArrives
    <2> HIDE DEF p
    <2>3. x \in DeclaredResources(release[r])
      BY <2>2 DEF AttachedInv, RegistrationInv, Progress, FloatingProgress
    <2>4. \A y \in DeclaredResources(release[r]) :
             Attached(p, release[r], y, attached'[y], public)
      BY <1>1, <2>1, <2>2 DEF AttachedInv, Attached
    <2>5. \A y \in Resources :
             \/ attached'[y] = attached[y]
             \/ /\ y \in DeclaredResources(release[r])
                /\ attached'[y] = DeclaredScopes(release[r], y)
      BY <1>1, <2>2, <2>3
    <2> QED
      BY <1>2, <2>2, <2>4, <2>5, AttachedOwnStep
  <1> QED
    BY <1>3, <1>4

\* Steps that end replicas, or are none of theirs
LEMMA AttachedEndStep ==
    ASSUME ReleasesAgree, AttachedInv, RegistrationInv',
           \/ \E r \in Replicas : UpdateFails(r) \/ Restart(r) \/ Crash(r)
           \/ ComeUp \/ GoDown \/ UNCHANGED vars
    PROVE  AttachedInv'
  <1>1. UNCHANGED <<release, public, attached>>
    BY DEF UpdateFails, Restart, Crash, ComeUp, GoDown, vars, keycloakVars, envVars
  <1>2. ASSUME NEW r \in Replicas, UpdateFails(r) \/ Restart(r) \/ Crash(r)
        PROVE  AttachedInv'
    <2>1. Becomes(r, Boot)
      BY <1>2 DEF UpdateFails, Restart, Crash
    <2>2. \A x \in DeclaredResources(release[r]) :
             Attached(Boot, release[r], x, attached'[x], public)
      BY DEF Boot, Attached
    <2> QED
      BY <1>1, <2>1, <2>2, AttachedOwnStep
  <1>3. CASE ComeUp \/ GoDown \/ UNCHANGED vars
    <2>1. UNCHANGED proc
      BY <1>3 DEF ComeUp, GoDown, vars
    <2> QED
      BY <1>1, <2>1 DEF AttachedInv
  <1> QED
    BY <1>2, <1>3

LEMMA AttachedInvStep ==
    ASSUME ReleasesAgree
    PROVE  AttachedInv /\ [Next]_vars => AttachedInv'
  <1> SUFFICES ASSUME AttachedInv, [Next]_vars
               PROVE  AttachedInv'
    OBVIOUS
  <1>1. RegistrationInv'
    BY RegistrationInvStep DEF AttachedInv
  <1>2. ASSUME NEW r \in Replicas, Run(r)
        PROVE  AttachedInv'
    BY <1>1, <1>2, AttachedMoveStep, AttachedTaskStep, AttachedResourcesStep, AttachedUpdateStep
    DEF Run
  <1>3. ASSUME NEW r \in Replicas, Settle(r)
        PROVE  AttachedInv'
    BY <1>1, <1>3, AttachedUpdateStep DEF Settle
  <1> QED
    BY <1>1, <1>2, <1>3, AttachedMoveStep, AttachedEndStep DEF Next, Serve

LEMMA AttachedInvInit == Init => AttachedInv
  BY RegistrationInvInit DEF Init, AttachedInv, Attached, Boot

\* What guards ask for at a handler is what its class declares to register.
LEMMA AskedIsDeclared ==
    ASSUME NEW app \in Application, NEW c \in Providers(app), NEW m \in c.methods
    PROVE  /\ UNION AskedRoles(c, m) \subseteq DeclaredRoles(app)
           /\ \A p \in AskedPermissions(c, m) :
                 p[1] \in DeclaredResources(app) /\ p[2] \in DeclaredScopes(app, p[1])
  <1>1. m \in Methods(c) /\ c.class \in Methods(c)
    BY DEF Methods
  <1>2. UNION AskedRoles(c, m) \subseteq DeclaredRoles(app)
    BY <1>1 DEF AskedRoles, DeclaredRoles
  <1>3. ASSUME NEW x \in c.resource, NEW scope \in m.scopes \cup c.class.scopes
        PROVE  x \in DeclaredResources(app) /\ scope \in DeclaredScopes(app, x)
    BY <1>1 DEF DeclaredResources, DeclaredScopes
  <1> QED
    BY <1>2, <1>3 DEF AskedPermissions

\* Whatever the guards of a registered replica ask for can be granted, once the
\* updates that nobody awaits have arrived: for any replicas whose releases
\* agree on the scopes of the resources they share, a single one for instance.
THEOREM RegisteredGuardsSatisfiable ==
    ASSUME ReleasesAgree
    PROVE  Spec => []GuardsSatisfiable
  <1>1. AttachedInv => GuardsSatisfiable
    <2> SUFFICES ASSUME AttachedInv, NEW r \in Replicas,
                        proc[r].registered, proc[r].floating = {}, ~public,
                        NEW c \in Providers(release[r]), NEW m \in c.methods
                 PROVE  /\ UNION AskedRoles(c, m) \subseteq roles
                        /\ \A p \in AskedPermissions(c, m) :
                              p[1] \in resources /\ p[2] \in attached[p[1]]
      BY DEF GuardsSatisfiable
    <2>1. release[r] \in Application
      BY ReleaseType DEF AttachedInv, RegistrationInv
    <2>2. Registered(roles, resources, proc[r], release[r], public)
      BY DEF AttachedInv, RegistrationInv, Progress
    <2>3. DeclaredRoles(release[r]) \subseteq roles /\ DeclaredResources(release[r]) \subseteq resources
      BY <2>1, <2>2, DeclaredTypes DEF Registered
    <2>4. \A x \in DeclaredResources(release[r]) : DeclaredScopes(release[r], x) \subseteq attached[x]
      BY DEF AttachedInv, Attached
    <2> QED
      BY <2>1, <2>3, <2>4, AskedIsDeclared
  <1>2. Spec => []AttachedInv
    BY AttachedInvInit, AttachedInvStep, PTL DEF Spec
  <1> QED
    BY <1>1, <1>2, PTL

-----------------------------------------------------------------------------
(* Registering again *)

\* In a complete Keycloak there is nothing left to create.
LEMMA NothingToCreate ==
    ASSUME RegistrationInv, Complete, NEW r \in Replicas
    PROVE  /\ proc[r].at \in {"realmRoles", "clientRoles"} => proc[r].todo \subseteq roles
           /\ proc[r].at = "enable" => authz
           /\ \A x \in Resources :
                proc[r].at = "resources" /\ proc[r].task[x].at # "done" =>
                   /\ x \in resources
                   /\ DeclaredScopes(release[r], x) \subseteq scopes
                   /\ proc[r].task[x].at = "create" => proc[r].task[x].todo \subseteq scopes
  <1>1. Progress(roles, scopes, resources, public, proc[r], release[r])
    BY DEF RegistrationInv
  <1>2. /\ DeclaredRoles(release[r])
             = DeclaredRealmRoles(release[r]) \cup DeclaredClientRoles(release[r])
        /\ DeclaredResources(release[r]) \subseteq Resources
    BY ReleaseType, DeclaredTypes DEF RegistrationInv
  <1>3. OwnRoles(r) \subseteq roles /\ OwnResources(r) \subseteq resources
    BY DEF Complete, RolesCreated
  <1>4. proc[r].at = "enable" => authz
    BY <1>1 DEF Progress, Confidential, Complete
  <1>5. proc[r].at \in {"realmRoles", "clientRoles"} => proc[r].todo \subseteq roles
    BY <1>1, <1>2, <1>3 DEF Progress, RolesProgress, Confidential, OwnRoles
  <1>6. ASSUME NEW x \in Resources, proc[r].at = "resources", proc[r].task[x].at # "done"
        PROVE  /\ x \in resources
               /\ DeclaredScopes(release[r], x) \subseteq scopes
               /\ proc[r].task[x].at = "create" => proc[r].task[x].todo \subseteq scopes
    <2>1. x \in OwnResources(r)
      BY <1>1, <1>6 DEF Progress, Confidential, TaskProgress, OwnResources
    <2>2. DeclaredScopes(release[r], x) \subseteq scopes
      BY <2>1, <1>6 DEF Complete, ScopesAttached, RegistrationInv, AttachedExist
    <2> QED
      BY <1>1, <1>3, <1>6, <2>1, <2>2 DEF Progress, ScopesProgress
  <1> QED
    BY <1>4, <1>5, <1>6

LEMMA StaysComplete ==
    ASSUME Complete, UNCHANGED <<roles, authz, scopes, resources, attached, release, public>>
    PROVE  UNCHANGED <<roles, authz, scopes, resources>> /\ Complete'
  BY DEF Complete, RolesCreated, ScopesAttached, OwnRoles, OwnResources

\* An update that arrives brings the scopes that all the replicas agree on.
LEMMA UpdateStaysComplete ==
    ASSUME ReleasesAgree, RegistrationInv, Complete, NEW r \in Replicas, NEW x \in Resources,
           UpdateArrives(r, x)
    PROVE  UNCHANGED <<roles, authz, scopes, resources>> /\ Complete'
  <1>1. /\ UNCHANGED <<roles, authz, scopes, resources, release, public>>
        /\ attached' = [attached EXCEPT ![x] = DeclaredScopes(release[r], x)]
        /\ attached \in [Resources -> SUBSET Scopes]
    BY DEF UpdateArrives, envVars, RegistrationInv, TypeOK
  <1>2. x \in DeclaredResources(release[r])
    BY DEF UpdateArrives, RegistrationInv, Progress, FloatingProgress
  <1>3. ASSUME NEW s \in Replicas, NEW y \in OwnResources(s)
        PROVE  DeclaredScopes(release[s], y) \subseteq attached'[y]
    <2>1. y \in DeclaredResources(release[s]) /\ y \in Resources
      BY <1>3, ReleaseType, DeclaredTypes DEF RegistrationInv, OwnResources
    <2>2. DeclaredScopes(release[s], y) \subseteq attached[y]
      BY DEF Complete, ScopesAttached
    <2>3. y = x => DeclaredScopes(release[s], y) = DeclaredScopes(release[r], x)
      BY <1>2, <2>1 DEF ReleasesAgree, RegistrationInv, TypeOK
    <2> QED
      BY <1>1, <2>1, <2>2, <2>3
  <1> QED
    BY <1>1, <1>3 DEF Complete, RolesCreated, ScopesAttached, OwnRoles, OwnResources

LEMMA CompleteStep ==
    ASSUME ReleasesAgree, RegistrationInv, Complete, [Next]_vars
    PROVE  UNCHANGED <<roles, authz, scopes, resources>> /\ Complete'
  <1> DEFINE Kept == UNCHANGED <<roles, authz, scopes, resources, attached, release, public>>
  <1>1. ASSUME NEW r \in Replicas, Run(r)
        PROVE  Kept
    <2>1. CASE CreateRole(r)
      BY <2>1, NothingToCreate DEF CreateRole, envVars
    <2>2. CASE EnableAuthorization(r)
      <3>1. authz /\ UNCHANGED <<roles, scopes, resources, attached, release, public>>
        BY <2>2, NothingToCreate DEF EnableAuthorization, At, envVars
      <3>2. authz' = (authz \/ ~proc[r].sawAuthz) /\ authz \in BOOLEAN
        BY <2>2 DEF EnableAuthorization, RegistrationInv, TypeOK
      <3>3. authz' = authz
        BY <3>1, <3>2, Zenon
      <3> QED
        BY <3>1, <3>3
    <2>3. ASSUME NEW x \in Resources, CreateScope(r, x)
          PROVE  Kept
      BY <2>3, NothingToCreate DEF CreateScope, TaskAt, envVars
    <2>4. ASSUME NEW x \in Resources, CreateResource(r, x)
          PROVE  Kept
      BY <2>4, NothingToCreate DEF CreateResource, TaskAt, envVars
    <2> QED
      BY <1>1, <2>1, <2>2, <2>3, <2>4
      DEF Run, Register, PollHealth, PollWellKnown, GetClient, ListRealmRoles, ListClientRoles,
          ListRoles, RealmRolesDone, ClientRolesDone, ListResources, ResourcesDone, FindScopes,
          ScopesCreated, UpdateResource, keycloakVars, envVars
  <1>2. ASSUME NEW r \in Replicas,
               ForceRegister(r) \/ CallFails(r) \/ UpdateFails(r) \/ Restart(r) \/ Crash(r)
        PROVE  Kept
    BY <1>2 DEF ForceRegister, CallFails, UpdateFails, Restart, Crash, keycloakVars, envVars
  <1>3. ASSUME ComeUp \/ GoDown \/ UNCHANGED vars
        PROVE  Kept
    BY <1>3 DEF ComeUp, GoDown, vars, keycloakVars, envVars
  <1>4. ASSUME NEW r \in Replicas, Settle(r)
        PROVE  UNCHANGED <<roles, authz, scopes, resources>> /\ Complete'
    BY <1>4, UpdateStaysComplete DEF Settle
  <1> QED
    BY <1>1, <1>2, <1>3, <1>4, StaysComplete DEF Next, Serve

\* Registering again, from any replica and after any crash or outage, changes
\* nothing declared, if the releases agree on the scopes of what they share.
THEOREM RegisteringIsIdempotent ==
    ASSUME ReleasesAgree
    PROVE  Spec => Idempotent
  <1>1. RegistrationInv /\ [Next]_vars =>
           [Complete => UNCHANGED <<roles, authz, scopes, resources>> /\ Complete']_vars
    BY CompleteStep
  <1> QED
    BY <1>1, RegistrationInvariant, PTL DEF Spec, Idempotent

-----------------------------------------------------------------------------
(* A single replica *)

\* With Keycloak up throughout nothing was rejected, and only a replica that
\* waits for Keycloak has seen it down.
Unfailed(p) ==
    outages = 0 => ~p.rejected /\ (~up => p.at \in {"boot", "health"})

\* What the only replica has still to create does not exist.
Missing(p) ==
    /\ p.at \in {"realmRoles", "clientRoles"} => p.todo \cap roles = {}
    /\ p.at = "resources" =>
         \A x \in Resources \ p.known : p.task[x].at # "done" => x \notin resources

SoloInv(r) == RegistrationInv /\ Unfailed(proc[r]) /\ Missing(proc[r])

LEMMA SoloMoveStep ==
    ASSUME NEW r \in Replicas, SoloInv(r), RegistrationInv',
           \/ Register(r) \/ ForceRegister(r) \/ PollHealth(r) \/ PollWellKnown(r)
           \/ GetClient(r) \/ RealmRolesDone(r) \/ EnableAuthorization(r) \/ ClientRolesDone(r)
           \/ ListResources(r) \/ ResourcesDone(r)
    PROVE  SoloInv(r)'
  <1>1. /\ proc[r] \in Process
        /\ proc \in [Replicas -> Process]
    BY ReleaseType DEF SoloInv, RegistrationInv, TypeOK
  <1>2. UNCHANGED <<up, roles, resources, outages>>
    BY DEF Register, ForceRegister, PollHealth, PollWellKnown, GetClient, RealmRolesDone,
           EnableAuthorization, ClientRolesDone, ListResources, ResourcesDone, keycloakVars, envVars
  <1>3. /\ proc'[r].rejected = proc[r].rejected
        /\ proc'[r].at \notin {"realmRoles", "clientRoles"}
        /\ proc'[r].at = "resources" => proc'[r].known = resources
        /\ ~up => proc'[r].at \in {"boot", "health"} \/ proc[r].at \notin {"boot", "health"}
    <2>1. CASE ListResources(r)
      <3> DEFINE task == [x \in Resources |->
                            [at |-> IF x \in DeclaredResources(release[r]) THEN "find" ELSE "done",
                             todo |-> {}]]
      <3>1. /\ Becomes(r, [proc[r] EXCEPT !.at = "resources", !.known = resources, !.task = task])
            /\ up
        BY <2>1 DEF ListResources
      <3> HIDE DEF task
      <3> QED
        BY <1>1, <3>1 DEF Becomes, Process
    <2>2. CASE GetClient(r)
      BY <1>1, <2>2 DEF GetClient, Becomes, Process
    <2>3. CASE RealmRolesDone(r)
      <3>1. /\ proc[r].at = "realmRoles"
            /\ \/ Becomes(r, [proc[r] EXCEPT !.at = "running", !.registered = TRUE])
               \/ Becomes(r, [proc[r] EXCEPT !.at = "enable"])
        BY <2>3 DEF RealmRolesDone, GoTo, At
      <3>2. ASSUME NEW at \in {"running", "enable"},
                   NEW p, Becomes(r, p), p.at = at, p.rejected = proc[r].rejected
            PROVE  /\ proc'[r].rejected = proc[r].rejected
                   /\ proc'[r].at = at
        BY <1>1, <3>2 DEF Becomes
      <3>3. CASE Becomes(r, [proc[r] EXCEPT !.at = "running", !.registered = TRUE])
        BY <1>1, <3>1, <3>2, <3>3 DEF Process
      <3>4. CASE Becomes(r, [proc[r] EXCEPT !.at = "enable"])
        BY <1>1, <3>1, <3>2, <3>4 DEF Process
      <3> QED
        BY <3>1, <3>3, <3>4
    <2>4. CASE ResourcesDone(r)
      BY <1>1, <2>4 DEF ResourcesDone, Becomes, At, Process
    <2>5. CASE PollHealth(r) \/ PollWellKnown(r)
      BY <1>1, <2>5 DEF PollHealth, PollWellKnown, GoTo, Becomes, Process
    <2>6. CASE Register(r) \/ ForceRegister(r) \/ EnableAuthorization(r) \/ ClientRolesDone(r)
      BY <1>1, <2>6
      DEF Register, ForceRegister, EnableAuthorization, ClientRolesDone, GoTo, Becomes, At, Process
    <2> QED
      BY <2>1, <2>2, <2>3, <2>4, <2>5, <2>6
  <1> QED
    BY <1>2, <1>3 DEF SoloInv, Unfailed, Missing

LEMMA SoloRolesStep ==
    ASSUME NEW r \in Replicas, SoloInv(r), RegistrationInv',
           ListRealmRoles(r) \/ ListClientRoles(r) \/ CreateRole(r)
    PROVE  SoloInv(r)'
  <1>1. proc[r] \in Process /\ proc \in [Replicas -> Process]
    BY ReleaseType DEF SoloInv, RegistrationInv, TypeOK
  <1>2. CASE ListRealmRoles(r) \/ ListClientRoles(r)
    <2>1. PICK from \in {"listRealmRoles", "listClientRoles"},
               to \in {"realmRoles", "clientRoles"},
               declared \in {DeclaredRealmRoles(release[r]), DeclaredClientRoles(release[r])} :
             ListRoles(r, from, to, declared)
      BY <1>2 DEF ListRealmRoles, ListClientRoles
    <2> DEFINE p == [proc[r] EXCEPT !.at = to, !.todo = declared \ roles]
    <2>2. p.at = to /\ p.todo = declared \ roles /\ p.rejected = proc[r].rejected
      BY <1>1 DEF Process
    <2>3. Becomes(r, p) /\ up /\ UNCHANGED <<up, roles, outages>>
      BY <2>1 DEF ListRoles, keycloakVars, envVars
    <2> HIDE DEF p
    <2>4. proc'[r] = p
      BY <1>1, <2>3 DEF Becomes
    <2> QED
      BY <2>1, <2>2, <2>3, <2>4 DEF SoloInv, Unfailed, Missing
  <1>3. CASE CreateRole(r)
    <2>1. PICK role \in proc[r].todo :
             /\ roles' = roles \cup {role}
             /\ Becomes(r, [proc[r] EXCEPT !.todo = @ \ {role}, !.rejected = @ \/ role \in roles])
      BY <1>3 DEF CreateRole
    <2>2. /\ proc[r].at \in {"realmRoles", "clientRoles"}
          /\ up /\ UNCHANGED <<up, outages>>
      BY <1>3 DEF CreateRole, envVars
    <2>3. role \notin roles
      BY <2>2 DEF SoloInv, Missing
    <2>4. /\ proc'[r].at = proc[r].at
          /\ proc'[r].todo = proc[r].todo \ {role}
          /\ proc'[r].rejected = (proc[r].rejected \/ role \in roles)
      BY <1>1, <2>1 DEF Becomes, Process
    <2>5. proc[r].rejected \in BOOLEAN
      BY <1>1 DEF Process
    <2>6. proc'[r].rejected = proc[r].rejected
      BY <2>3, <2>4, <2>5, Zenon
    <2> QED
      BY <2>1, <2>2, <2>4, <2>6 DEF SoloInv, Unfailed, Missing
  <1> QED
    BY <1>2, <1>3

LEMMA SoloTaskStep ==
    ASSUME NEW r \in Replicas, SoloInv(r), RegistrationInv', NEW x \in Resources,
           \/ FindScopes(r, x) \/ CreateScope(r, x) \/ ScopesCreated(r, x)
           \/ UpdateResource(r, x) \/ CreateResource(r, x)
    PROVE  SoloInv(r)'
  <1>1. /\ proc[r] \in Process /\ proc \in [Replicas -> Process]
        /\ proc[r].at = "resources"
        /\ proc[r].task[x].at # "done"
    BY ReleaseType
    DEF SoloInv, RegistrationInv, TypeOK, FindScopes, CreateScope, ScopesCreated, UpdateResource,
        CreateResource, TaskAt
  <1>2. UNCHANGED <<up, roles, outages>>
    BY DEF FindScopes, CreateScope, ScopesCreated, UpdateResource, CreateResource, keycloakVars,
           envVars
  <1>3. CASE UpdateResource(r, x)
    <2>1. /\ UNCHANGED resources
          /\ proc'[r].at = proc[r].at
          /\ proc'[r].rejected = proc[r].rejected
          /\ proc'[r].known = proc[r].known
          /\ \A y \in Resources : proc'[r].task[y].at # "done" => proc[r].task[y].at # "done"
      BY <1>1, <1>3 DEF UpdateResource, Becomes, Process, Task, keycloakVars
    <2> QED
      BY <1>1, <1>2, <2>1 DEF SoloInv, Unfailed, Missing
  <1>4. ASSUME NEW task, Advance(r, x, task),
               \/ UNCHANGED resources
               \/ task.at = "done" /\ resources' = resources \cup {x}
        PROVE  SoloInv(r)'
    <2>1. /\ proc'[r].at = proc[r].at
          /\ proc'[r].rejected = proc[r].rejected
          /\ proc'[r].known = proc[r].known
          /\ \A y \in Resources : proc'[r].task[y] = IF y = x THEN task ELSE proc[r].task[y]
      BY <1>1, <1>4 DEF Advance, Becomes, Process
    <2> QED
      BY <1>1, <1>2, <1>4, <2>1 DEF SoloInv, Unfailed, Missing
  <1>5. CASE CreateResource(r, x)
    <2>1. x \notin resources
      BY <1>1, <1>5 DEF SoloInv, Missing, CreateResource
    <2>2. /\ Advance(r, x, [at |-> "done", todo |-> {}])
          /\ resources' = resources \cup {x}
      BY <1>5, <2>1 DEF CreateResource
    <2> QED
      BY <1>4, <2>2
  <1>6. CASE FindScopes(r, x) \/ CreateScope(r, x) \/ ScopesCreated(r, x)
    <2>1. PICK task : Advance(r, x, task) /\ UNCHANGED resources
      BY <1>6 DEF FindScopes, CreateScope, ScopesCreated, keycloakVars
    <2> QED
      BY <1>4, <2>1
  <1> QED
    BY <1>3, <1>5, <1>6

\* Nothing is rejected as long as Keycloak is up, and it comes back by itself.
LEMMA SoloOtherStep ==
    ASSUME NEW r \in Replicas, SoloInv(r), RegistrationInv',
           \/ Settle(r) \/ CallFails(r) \/ UpdateFails(r) \/ Restart(r) \/ Crash(r)
           \/ ComeUp \/ GoDown \/ UNCHANGED vars
    PROVE  SoloInv(r)'
  <1>1. /\ proc[r] \in Process /\ proc \in [Replicas -> Process]
        /\ outages \in Nat
    BY ReleaseType, RegistrationAssumption DEF SoloInv, RegistrationInv, TypeOK
  <1>2. UNCHANGED <<roles, resources>>
    BY DEF Settle, UpdateArrives, CallFails, UpdateFails, Restart, Crash, ComeUp, GoDown, vars,
           keycloakVars, envVars
  <1>3. CASE Settle(r)
    <2>1. /\ UNCHANGED <<up, outages>>
          /\ proc'[r].at = proc[r].at
          /\ proc'[r].todo = proc[r].todo
          /\ proc'[r].known = proc[r].known
          /\ proc'[r].task = proc[r].task
          /\ proc'[r].rejected = proc[r].rejected
      BY <1>1, <1>3 DEF Settle, UpdateArrives, Becomes, Process, envVars
    <2> QED
      BY <1>2, <2>1 DEF SoloInv, Unfailed, Missing
  <1>4. CASE CallFails(r)
    <2>1. outages # 0
      BY <1>4 DEF CallFails, SoloInv, Unfailed
    <2>2. /\ UNCHANGED outages
          /\ proc'[r].at = proc[r].at
          /\ proc'[r].todo = proc[r].todo
          /\ proc'[r].known = proc[r].known
          /\ proc'[r].task = proc[r].task
      BY <1>1, <1>4 DEF CallFails, Reject, Becomes, Process, envVars
    <2> QED
      BY <1>2, <2>1, <2>2 DEF SoloInv, Unfailed, Missing
  <1>5. CASE UpdateFails(r) \/ Restart(r) \/ Crash(r)
    <2>1. proc'[r] = Boot
      BY <1>1, <1>5 DEF UpdateFails, Restart, Crash, Becomes
    <2> QED
      BY <2>1 DEF SoloInv, Unfailed, Missing, Boot
  <1>6. CASE ComeUp \/ GoDown \/ UNCHANGED vars
    <2>1. UNCHANGED proc
      BY <1>6 DEF ComeUp, GoDown, vars
    <2>2. \/ up' /\ outages' = outages
          \/ outages' # 0
          \/ UNCHANGED <<up, outages>>
      BY <1>1, <1>6 DEF ComeUp, GoDown, vars, envVars
    <2> QED
      BY <1>2, <2>1, <2>2 DEF SoloInv, Unfailed, Missing
  <1> QED
    BY <1>3, <1>4, <1>5, <1>6

\* With Keycloak up throughout, a replica that is alone never fails a boot:
\* what interrupted runs have left behind does not stand in its way.
THEOREM SoloNeverFailsToBoot ==
    ASSUME NEW r, Replicas = {r}
    PROVE  Spec => []NoBootFails
  <1>1. Init => SoloInv(r)
    <2> SUFFICES ASSUME Init
                 PROVE  SoloInv(r)
      OBVIOUS
    <2>1. proc[r] = Boot
      BY DEF Init
    <2> QED
      BY <2>1, RegistrationInvInit DEF SoloInv, Unfailed, Missing, Boot
  <1>2. SoloInv(r) /\ [Next]_vars => SoloInv(r)'
    <2> SUFFICES ASSUME SoloInv(r), [Next]_vars
                 PROVE  SoloInv(r)'
      OBVIOUS
    <2>1. RegistrationInv'
      BY RegistrationInvStep DEF SoloInv
    <2>2. CASE Run(r)
      BY <2>1, <2>2, SoloMoveStep, SoloRolesStep, SoloTaskStep DEF Run
    <2> QED
      BY <2>1, <2>2, SoloMoveStep, SoloOtherStep DEF Next, Serve
  <1>3. SoloInv(r) => NoBootFails
    BY DEF SoloInv, Unfailed, NoBootFails
  <1> QED
    BY <1>1, <1>2, <1>3, PTL DEF Spec

=============================================================================
