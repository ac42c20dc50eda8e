------------------------------ MODULE PageVisit ------------------------------
(***************************************************************************)
(* The tabs of one browser visit pages whose routes carry @Authorized,     *)
(* @Public, @Resource, @Scopes, @OnlyOwner and @Render.  A request passes  *)
(* KeycloakMiddleware, AuthGuard, ResourceGuard and the owner check, which *)
(* look at the grant again and again while it may expire; an exception     *)
(* ends in UnauthorizedFilter, which may send the browser to Keycloak;     *)
(* AuthorizationCallbackInterceptor sends it back to the page, with a      *)
(* redirect_from cookie, so that it is not sent away again.  The tabs      *)
(* share the cookies.  What the login itself verifies is LoginFlow's       *)
(* subject.                                                                *)
(***************************************************************************)
EXTENDS Naturals, FiniteSets, ReturnUrl

CONSTANTS Tabs,
          Roles,         \* the roles a token may carry
          Scopes,        \* the scopes of the one resource
          Applications,  \* what is visited: callbacks, and routes by tab
          MaxExpiries    \* bound: how often the credentials expire

\* A decorator that is absent is {}, one with argument a is {a}.
Alternatives == SUBSET Roles
Metadata == {{}} \cup {{alternatives} : alternatives \in SUBSET Alternatives}

\* @OnlyOwner: who skips it, and whether grantSubPath leads to the user's id
OwnerMetadata == [skip: SUBSET Alternatives, path: BOOLEAN]

\* redirect: @RedirectUnauthorized with a url, with false, or absent
Route == [public: BOOLEAN, class: Metadata, handler: Metadata,
          resource: BOOLEAN, classScopes: SUBSET Scopes, handlerScopes: SUBSET Scopes,
          owner: {{}} \cup {{x} : x \in OwnerMetadata},
          render: BOOLEAN, redirect: {"url", "off", "none"},
          originalUrl: Seq([char: Char, encoded: 0..1])]

ASSUME PageVisitAssumption ==
    /\ \A application \in Applications :
          /\ application.callbacks \in Seq(AuthorizationCallback)
          /\ DOMAIN application.routes \subseteq Tabs
          /\ \A t \in DOMAIN application.routes : application.routes[t] \in Route
    /\ MaxExpiries \in Nat

VARIABLES route,      \* the route of each tab's page
          callbacks,  \* the callbacks the application declares
          held,       \* the roles of the user's tokens
          named,      \* do the tokens carry a preferred_username?
          permitted,  \* the scopes Keycloak's policies permit the user
          owns,       \* is what the pages show the user's own?
          calm,       \* do validations not fail, grants not expire and the
                      \* page's own code not throw?
          credential, \* what the browser's requests carry
          cookie,     \* does the browser have a redirect_from cookie?
          visit,      \* the visit of each tab
          expiries

userVars == <<route, callbacks, held, named, permitted, owns, calm>>
vars == <<userVars, credential, cookie, visit, expiries>>

Open == DOMAIN route

\* where: what handles the visit; the ends are how it ends
Ends == {"shown", "refused", "redirected", "left", "elsewhere"}
Where == Ends \cup {"middleware", "authGuard", "resourceGuard", "enforce", "handler",
                    "owner", "filter", "keycloak", "callback", "returning"}

\* brings: the credential in the request's copy of the session
\* grant: does the request's KeycloakService have one?  sentCookie: did the
\* request bring redirect_from?  login: the logins of this visit (2: several)
Credential == {"valid", "expired", "absent"}
Visit == [where: Where, brings: Credential, grant: BOOLEAN, sentCookie: BOOLEAN,
          clears: BOOLEAN, render: BOOLEAN, redirect: {"url", "off", "none"}, login: 0..2]

Request(logins) ==
    [where |-> "middleware", brings |-> credential, grant |-> FALSE, sentCookie |-> cookie,
     clears |-> FALSE, render |-> FALSE, redirect |-> "none", login |-> logins]

\* Permissions and owners differ only where a page asks for them.
Init ==
    /\ \E application \in Applications :
          route = application.routes /\ callbacks = application.callbacks
    /\ held \in SUBSET Roles
    /\ named \in BOOLEAN
    /\ permitted \in IF \E t \in Open : route[t].resource THEN SUBSET Scopes ELSE {{}}
    /\ owns \in IF \E t \in Open : route[t].owner # {} THEN BOOLEAN ELSE {FALSE}
    /\ calm \in BOOLEAN
    /\ credential \in Credential
    /\ cookie = FALSE
    /\ visit = [t \in Open |-> Request(0)]
    /\ expiries = 0

At(t, where) == visit[t].where = where
Becomes(t, v) == visit' = [visit EXCEPT ![t] = v]
Goes(t, where) == Becomes(t, [visit[t] EXCEPT !.where = where])

\* mutant: the cookie is not cleared
RepliesWithCookie(t, where) ==
    /\ Goes(t, where)
    /\ cookie' = cookie

\* A reply ends the visit; AuthGuard may have told it to clear the cookie.
Replies(t, where) ==
    /\ Goes(t, where)
    /\ cookie' = (cookie /\ ~visit[t].clears)

\* What getGrant may come back with when nothing is cached
Resolved(t) ==
    IF visit[t].brings = "valid" THEN {TRUE} \cup (IF calm THEN {} ELSE {FALSE}) ELSE {FALSE}

-----------------------------------------------------------------------------
(* KeycloakMiddleware.use: a failure leaves the request anonymous. *)

Middleware(t) ==
    /\ At(t, "middleware")
    /\ \E grant \in Resolved(t) :
         Becomes(t, [visit[t] EXCEPT !.where = "authGuard", !.grant = grant])
    /\ UNCHANGED <<userVars, credential, cookie, expiries>>

-----------------------------------------------------------------------------
(* AuthGuard.canActivate *)

\* getRoles: class and handler decorators are merged; {} when there is neither
RequiredRoles(r) ==
    IF r.class \cup r.handler = {} THEN {} ELSE {UNION (r.class \cup r.handler)}

\* isAuthorizedByRoles: a role is an alternative of one
IsAuthorizedByRoles(alternatives) ==
    alternatives = {} \/ \E roles \in alternatives : roles # {} /\ roles \subseteq held

GuardSkips(t) ==
    /\ At(t, "authGuard")
    /\ route[t].public \/ RequiredRoles(route[t]) = {}
    /\ Goes(t, "resourceGuard")
    /\ UNCHANGED <<userVars, credential, cookie, expiries>>

\* mutant: the flags are set whether or not the browser just logged in
DeferredAlways(t) ==
    [visit[t] EXCEPT !.render = route[t].render, !.redirect = route[t].redirect, !.clears = TRUE]

\* mutant: a redirect that is switched off is kept as the text of its value
DeferredText(t) ==
    [visit[t] EXCEPT !.render = route[t].render, !.clears = TRUE,
                  !.redirect = IF route[t].redirect = "off" THEN "false" ELSE route[t].redirect]

\* The flags for UnauthorizedFilter, unless the browser returns from a login
Deferred(t) ==
    IF visit[t].sentCookie THEN [visit[t] EXCEPT !.clears = TRUE]
    ELSE [visit[t] EXCEPT !.render = route[t].render, !.redirect = route[t].redirect,
                          !.clears = TRUE]

\* A grant the middleware has got is cached, and what follows reads it.
GuardDecides(t) ==
    /\ At(t, "authGuard")
    /\ ~route[t].public
    /\ \E alternatives \in RequiredRoles(route[t]) :
         \E grant \in IF visit[t].grant THEN {TRUE} ELSE Resolved(t) :
            Becomes(t, [Deferred(t) EXCEPT
              !.grant = grant,
              !.where = IF grant /\ named /\ IsAuthorizedByRoles(alternatives)
                        THEN "resourceGuard" ELSE "filter"])
    /\ UNCHANGED <<userVars, credential, cookie, expiries>>

-----------------------------------------------------------------------------
(* ResourceGuard.canActivate *)

RequiredScopes(r) == IF r.resource THEN r.classScopes \cup r.handlerScopes ELSE {}

ResourceUnprotected(t) ==
    /\ At(t, "resourceGuard")
    /\ RequiredScopes(route[t]) = {}
    /\ Goes(t, "handler")
    /\ UNCHANGED <<userVars, credential, cookie, expiries>>

\* A service of its own: the grant is validated once more.
ResourceUser(t) ==
    /\ At(t, "resourceGuard")
    /\ RequiredScopes(route[t]) # {}
    /\ \E grant \in Resolved(t) : Goes(t, IF grant /\ named THEN "enforce" ELSE "filter")
    /\ UNCHANGED <<userVars, credential, cookie, expiries>>

\* Keycloak grants all the permissions it is asked for, or none.
Enforced(scopes) == scopes \subseteq permitted

\* A failure to ask denies.
Enforce(t) ==
    /\ At(t, "enforce")
    /\ \/ Enforced(RequiredScopes(route[t])) /\ Goes(t, "handler")
       \/ ~Enforced(RequiredScopes(route[t])) /\ Goes(t, "filter")
       \/ ~calm /\ Goes(t, "filter")
    /\ UNCHANGED <<userVars, credential, cookie, expiries>>

-----------------------------------------------------------------------------
(* The handler, OnlyOwnerCallbackInterceptor and UnauthorizedFilter.catch *)

Show(t) ==
    /\ At(t, "handler")
    /\ route[t].owner = {}
    /\ Replies(t, "shown")
    /\ UNCHANGED <<userVars, credential, expiries>>

\* The filter catches any HttpException of the handler.
HandlerFails(t) ==
    /\ At(t, "handler")
    /\ ~calm
    /\ Goes(t, "filter")
    /\ UNCHANGED <<userVars, credential, cookie, expiries>>

\* The owner is looked for in what the handler has returned.
HandlerReturns(t) ==
    /\ At(t, "handler")
    /\ route[t].owner # {}
    /\ \E grant \in IF visit[t].grant THEN {TRUE} ELSE Resolved(t) :
         Becomes(t, [visit[t] EXCEPT !.where = "owner", !.grant = grant])
    /\ UNCHANGED <<userVars, credential, cookie, expiries>>

\* mutant: who has a grant may skip the check
IsOwnerAnyway(t, x) == visit[t].grant

\* isOwner; an empty list of skipRoles lets everybody skip it.
IsOwner(t, x) ==
    \/ x.skip = {}
    \/ visit[t].grant /\ (IsAuthorizedByRoles(x.skip) \/ (x.path /\ owns))

\* With a credential that was not validated getGrant has thrown, and no filter
\* of this application handles that.
CheckOwner(t) ==
    /\ At(t, "owner")
    /\ \E x \in route[t].owner :
         IF visit[t].grant \/ visit[t].brings = "absent"
         THEN IF IsOwner(t, x) THEN Replies(t, "shown")
              ELSE Goes(t, "filter") /\ UNCHANGED cookie
         ELSE Replies(t, "refused")
    /\ UNCHANGED <<userVars, credential, expiries>>

\* @Authorized puts the filter on the class or the handler it decorates.
HasFilter(t) == route[t].class \cup route[t].handler # {}

RedirectElsewhere(t) ==
    /\ At(t, "filter")
    /\ HasFilter(t) /\ visit[t].redirect = "url"
    /\ Replies(t, "redirected")
    /\ UNCHANGED <<userVars, credential, expiries>>

\* A login needs a callback to come back to, and a page to come back for.
StartsLogin(t) ==
    /\ HasFilter(t) /\ visit[t].render /\ visit[t].redirect = "none"
    /\ DefaultAuthorizationCallback(callbacks) # {}
    /\ IsSafeRedirect(PageUri(route[t].originalUrl))

RedirectToLogin(t) ==
    /\ At(t, "filter")
    /\ StartsLogin(t)
    /\ Becomes(t, [visit[t] EXCEPT !.where = "keycloak", !.login = IF @ = 0 THEN 1 ELSE 2])
    /\ cookie' = (cookie /\ ~visit[t].clears)
    /\ UNCHANGED <<userVars, credential, expiries>>

Refuse(t) ==
    /\ At(t, "filter")
    /\ ~StartsLogin(t)
    /\ ~HasFilter(t) \/ visit[t].redirect # "url"
    /\ Replies(t, "refused")
    /\ UNCHANGED <<userVars, credential, expiries>>

-----------------------------------------------------------------------------
(* Keycloak and AuthorizationCallbackInterceptor *)

\* A user with a Keycloak session is not even asked.
LogIn(t) ==
    /\ At(t, "keycloak")
    /\ Goes(t, "callback")
    /\ UNCHANGED <<userVars, credential, cookie, expiries>>

Leave(t) ==
    /\ At(t, "keycloak")
    /\ Goes(t, "left")
    /\ UNCHANGED <<userVars, credential, cookie, expiries>>

\* Keycloak redeems the code for the very redirect_uri the login was sent with.
CodeRedeemable(t) ==
    LET sent == RedirectUri(route[t].originalUrl) IN RebuiltRedirectUri(sent) = sent

\* resolveDestinationUri: the page, another one, or a refusal
Destination(t, callback) ==
    LET uri      == DestinationFromQuery(RedirectUri(route[t].originalUrl))
        fallback == IF callback.destinationUri THEN "elsewhere" ELSE "refused"
    IN  IF ~callback.destinationUriFromQuery \/ ~IsSafeRedirect(uri) THEN fallback
        ELSE IF uri = PageUri(route[t].originalUrl) THEN "returning" ELSE "elsewhere"

\* The tokens are in the session, whatever becomes of the destination.
CallbackRedeems(t) ==
    /\ At(t, "callback")
    /\ CodeRedeemable(t)
    /\ \E callback \in DefaultAuthorizationCallback(callbacks) :
         /\ Goes(t, Destination(t, callback))
         /\ credential' = IF callback.persistSession THEN "valid" ELSE credential
         /\ cookie' = (cookie \/ Destination(t, callback) # "refused")
    /\ UNCHANGED <<userVars, expiries>>

\* Keycloak refuses the code, or handleAuthorizationCallback fails before.
CallbackThrows(t) ==
    /\ At(t, "callback")
    /\ ~CodeRedeemable(t) \/ ~calm
    /\ Goes(t, "refused")
    /\ UNCHANGED <<userVars, credential, cookie, expiries>>

-----------------------------------------------------------------------------
(* The browser *)

\* It follows the redirect, with the cookies of all its tabs.
Follow(t) ==
    /\ At(t, "returning")
    /\ Becomes(t, Request(visit[t].login))
    /\ UNCHANGED <<userVars, credential, cookie, expiries>>

VisitAgain(t) ==
    /\ visit[t].where \in Ends
    /\ Becomes(t, Request(0))
    /\ UNCHANGED <<userVars, credential, cookie, expiries>>

Expire ==
    /\ ~calm
    /\ credential = "valid"
    /\ expiries < MaxExpiries
    /\ credential' = "expired"
    /\ expiries' = expiries + 1
    /\ visit' = [t \in Open |-> [visit[t] EXCEPT !.brings = IF @ = "valid" THEN "expired" ELSE @]]
    /\ UNCHANGED <<userVars, cookie>>

Handle(t) ==
    \/ Middleware(t) \/ GuardSkips(t) \/ GuardDecides(t)
    \/ ResourceUnprotected(t) \/ ResourceUser(t) \/ Enforce(t)
    \/ Show(t) \/ HandlerFails(t) \/ HandlerReturns(t) \/ CheckOwner(t)
    \/ RedirectElsewhere(t) \/ RedirectToLogin(t) \/ Refuse(t)
    \/ CallbackRedeems(t) \/ CallbackThrows(t) \/ Follow(t)

Next ==
    \/ \E t \in Open : Handle(t) \/ LogIn(t) \/ Leave(t) \/ VisitAgain(t)
    \/ Expire

Spec == Init /\ [][Next]_vars

\* The server answers, and the user logs in or gives up.
FairSpec ==
    /\ Spec
    /\ \A t \in Tabs : /\ WF_vars(t \in Open /\ Handle(t))
                      /\ WF_vars(t \in Open /\ (LogIn(t) \/ Leave(t)))

-----------------------------------------------------------------------------
(* Properties *)

TypeOK ==
    /\ callbacks \in Seq(AuthorizationCallback)
    /\ Open \subseteq Tabs
    /\ \A t \in Open : route[t] \in Route
    /\ held \subseteq Roles
    /\ named \in BOOLEAN
    /\ permitted \subseteq Scopes
    /\ owns \in BOOLEAN
    /\ calm \in BOOLEAN
    /\ credential \in Credential
    /\ cookie \in BOOLEAN
    /\ visit \in [Open -> Visit]
    /\ expiries \in 0..MaxExpiries

\* What README.md says of @Authorized: a list is a union, an array in it an
\* intersection, class and handler lists are merged, and no list is no guard.
RolesGranted(r) ==
    LET lists == UNION (r.class \cup r.handler) IN
    \/ r.class = {} /\ r.handler = {}
    \/ r.public
    \/ lists = {}
    \/ \E roles \in lists \ {{}} : \A role \in roles : role \in held

ScopesGranted(r) ==
    r.resource => \A scope \in r.classScopes \cup r.handlerScopes : scope \in permitted

OwnerGranted(r) ==
    \A x \in r.owner :
        \/ owns /\ x.path
        \/ x.skip = {}
        \/ \E roles \in x.skip \ {{}} : \A role \in roles : role \in held

\* Is a user needed at all?
NeedsUser(r) ==
    \/ ~r.public /\ r.class \cup r.handler # {}
    \/ r.resource /\ r.classScopes \cup r.handlerScopes # {}

Entitled(r) == RolesGranted(r) /\ ScopesGranted(r) /\ OwnerGranted(r) /\ named

\* The url of the page has no symbol that is encoded or that encoders treat
\* differently (for these see RedirectUriKept), and none that a redirect may
\* not have.
Ordinary(r) ==
    \A i \in DOMAIN r.originalUrl :
        /\ r.originalUrl[i].encoded = 0
        /\ r.originalUrl[i].char \notin {"mark", "space", "backslash"}

Alone(t) == Open = {t}

\* The page is shown to nobody who lacks a role or a permission it demands, or
\* does not own what it shows, however the grant came and went between the
\* guards, and whatever other tabs did.
ShownToEntitled ==
    \A t \in Open : At(t, "shown") =>
        /\ RolesGranted(route[t]) /\ ScopesGranted(route[t]) /\ OwnerGranted(route[t])
        /\ NeedsUser(route[t]) => named

\* As long as nothing fails, who is entitled to a page and brings a valid grant
\* is neither refused nor sent to log in; and a login that began at the page
\* ends there, whichever callbacks the application declares, and whatever the
\* other tabs do to the cookies.
EntitledIsServed ==
    \A t \in Open :
        (\/ At(t, "filter") /\ visit[t].brings = "valid"
         \/ visit[t].where \in {"refused", "elsewhere"} /\ visit[t].login > 0)
        => ~(calm /\ Ordinary(route[t]) /\ Entitled(route[t]))

\* Who comes from an ordinary page that offers a login is not refused before
\* being sent to Keycloak, whatever credential the browser brings: a cookie left
\* by an earlier login does not stand in the way.  Another tab that is logging in
\* may take the offer away, but then the user is logged in when it is refused.
LoginOffered ==
    \A t \in Open :
        (/\ At(t, "refused") /\ visit[t].login = 0
         /\ Ordinary(route[t]) /\ HasFilter(t) /\ ~route[t].public
         /\ route[t].render /\ route[t].redirect = "none"
         /\ DefaultAuthorizationCallback(callbacks) # {})
        => ~Alone(t) /\ (calm => credential = "valid")

\* A visit sends the browser to Keycloak once: who comes back and is still
\* refused is told so.  Only another tab can make it twice, by taking the
\* cookie, and not for a user who is entitled to the page.
OneLoginPerVisit ==
    \A t \in Open : visit[t].login = 2 => ~Alone(t) /\ ~(calm /\ Entitled(route[t]))

\* "The redirect_uri sent to the token endpoint must match the one sent to the
\* authorization endpoint byte for byte."
RedirectUriKept == \A t \in Open : At(t, "callback") => CodeRedeemable(t)

\* Every visit comes to an end, unless the other tabs never come to rest.
VisitEnds ==
    \A t \in Tabs :
        (<>[](\A u \in Open \ {t} : visit[u].where \in Ends))
        => []<>(t \in Open => visit[t].where \in Ends)

=============================================================================
