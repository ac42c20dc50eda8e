# A verification of nestjs-keycloak

TLA+ modules that model the stateful parts of this library, TLC configurations
that check them on small instances, and proofs that TLAPS checks for every
instance. Paths below are relative to the repository; its package is in `src/`,
its sources in `src/src/`.

## The system

nestjs-keycloak guards the routes of a NestJS application with Keycloak. Its
parts, the state each keeps, and how they meet:

| Part | State | Operations |
| --- | --- | --- |
| Pending OAuth states, `authState.ts` | `req.session.kauth.authStates`, or one signed cookie | `createAuthState`, `consumeAuthState`, `clearAuthState` |
| Login redirect, `decorators/authorized.decorator.ts` | flags on the request | `UnauthorizedFilter.catch` |
| Callback, `decorators/authorizationCallback.decorator.ts` | the `redirect_from` cookie | `handleAuthorizationCallback`, the interceptor |
| `KeycloakService` | cached tokens, grant and user info of one request; `req.kauth`, `req.user.roles`; the tokens in the session | `getGrant` and the getters on it, `getUserInfo`, four grants, `logout`, `enforce`, `isAuthorizedByRoles` |
| Middleware and guards | none of their own | `KeycloakMiddleware.use`, `AuthGuard.canActivate`, `ResourceGuard.canActivate` |
| Registration, `keycloakRegister.service.ts` | a flag of the process; roles, scopes and resources in Keycloak | `register`, once per boot |
| Owner check, `decorators/onlyOwner.decorator.ts` | none | `isOwner` |
| Redirect safety, `security.ts` | none | `getBaseUrl`, `isSafeRedirect`, redaction |
| Parameter and metadata decorators, providers, types, utilities | none | pick values, set metadata, configure libraries |

Outside the repository, and modelled from how the code uses them: Keycloak,
keycloak-connect, express-session, the browser, the orchestrator.

What makes it hard:

- express-session gives each request its own copy of the session record and
  writes a changed copy back whole. Two requests of one browser overwrite each
  other's changes, and there is no transaction around "verify, then burn".
- Every handler awaits Keycloak. Between two awaits a token expires, a parallel
  resolver fails and clears the shared grant, a logout runs.
- A login is a conversation of four parties, in which replies get lost, callback
  urls are opened twice or in another browser, and states expire.
- Several replicas register at once against one Keycloak, from lists that are
  stale when they are used, and may be killed at any await.
- A refused page sends the browser to Keycloak, which may send it straight back,
  to another tab's page or to an address that was encoded once too often.

## Modules

| Module | What it is |
| --- | --- |
| `AuthState` | the list of pending states as pure operators |
| `LoginFlow` | browsers, requests, session copies, codes and the handlers of the login; extends `AuthState` |
| `LoginTickets` | what the state parameter promises: a ticket, held by one browser, used once in time |
| `LoginFlowProofs` | theorems about `LoginFlow`: types, whose tokens a session holds, verified codes |
| `PendingProofs` | theorems about its pending states, for any number of tabs; extends `LoginFlowProofs` |
| `SerialProofs` | theorems about it when requests of a browser come one after the other; extends `PendingProofs` |
| `TicketProofs` | the step simulation of `LoginTickets`; extends `SerialProofs` |
| `Discovery` | what an application declares by its decorators, as `register` collects it and as the guards ask for it; pure operators |
| `Registration` | `register`, run by every replica against one Keycloak; extends `Discovery` |
| `RegistrationProofs` | the theorems about `Registration` |
| `GrantService` | `KeycloakService`: caches, grants, renewal and logout, over the requests of one session |
| `GrantServiceProofs` | the theorems about `GrantService` |
| `ReturnUrl` | the urls of a login and their encodings, `isSafeRedirect`, the choice of the default callback; pure operators |
| `PageVisit` | middleware, guards, owner check, filter and callback seen from the visits of several tabs; extends `ReturnUrl` |
| `PageVisitProofs` | the theorems about `PageVisit` |
| `MC*` | small instances, one module for each of the four |

### AuthState and LoginFlow

A state is the number of its login: it is unique, like 256 random bits, and the
list, to which entries are only appended, is the set of its entries. `Newest` is
`slice(-MAX_PENDING_STATES)`, `Unexpired` the filter before it, `Verdict` the
answers of `consumeAuthState` in their order. The HMAC of the cookie is the
assumption that nobody makes up an entry.

In `LoginFlow` each tab has at most one request, whose `phase` says at which
await its handler stands. `req[b][t].sess` is the request's copy of the session,
`dirty` whether it was changed, `link` what became of the record it was loaded
from. `Respond` is express-session at the end of a response: it saves a changed
copy, and a new session becomes the browser's only if the reply arrives. The
handlers: `StartLogin` (the filter and `createAuthState`), `VerifyState` (the
callback up to its first await), `RedeemCode`, `RefuseCode`, `PersistGrant` and
`RejectGrant` (`authorizationCodeGrant`), `RevokeSession`, `ClearSession` and
`FailToClearSession` (`logout`), `ClearPending` (`clearAuthState`).
`logins[s].uses` and `loggedOut` are history.

`LoginTickets` has no requests, copies, cookies or store. With one tab,
`LoginFlow` implements it (`ImplementsTickets`), where a browser holds what its
request's copy holds, or the store between requests.

### Discovery and Registration

`Discovery` has the two readings of the decorators. `DeclaredRoles`,
`DeclaredResources` and `DeclaredScopes` are the getters of
`KeycloakRegisterService`, over the classes Nest finds (`Providers`), their
methods (`getMethods` also returns the constructor, which carries what decorates
the class) and the options; `AskedRoles` and `AskedPermissions` are what the two
guards will ask for. `GuardsSatisfiable` relates them through Keycloak.

In `Registration` each replica runs a `release`, an application of `Discovery`.
`proc[r].at` is the await at which `register` of replica `r` stands. The calls of
a `Promise.all` are the members of `todo`, and one task per resource, answered in
any order; the first rejection sets `rejected`, while calls already made still
arrive. A rejection ends a boot, and `Restart` starts another; `register(true)`
that fails only tells its caller, and the replica serves on. `floating` holds the
updates that nobody awaits. Keycloak refuses a role or resource that exists;
creating a scope that exists leaves it alone, and Keycloak's look for the scope and
its creation are one step, so two tasks that create a shared scope do not collide
here. The id of the client, which the code caches, is taken not to change; `register`,
`adminUsername` and `adminPassword` are taken to be configured, since `canRegister`
is false without them and nothing happens. An application calls `register(true)`
only when its last registration has succeeded.

### GrantService

A grant is renewed in place and shared by `_grant`, `req.kauth.grant` and other
services, so grants live in a `heap`. `call[c].phase` is the await of a call:
`resolve` after `setOptions`, `refresh` and `validate` in keycloak-connect up to
its look at the expiry, `verify` from there to the adoption in `afterGrant`,
`roles` in `afterGrant`, `finish` before `return this._grant`, `fetch` in
`getUserInfo`, `exchange` at the token endpoint, `build` from its answer to the
adoption, `revoke`, `clear` and `destroy` in `logout`. While a call waits in
`verify`, its grant may expire or another call may renew it in place; `verified` is
the history of the access tokens that were found valid in this request. The grants
share one shape: `Exchanged` (Keycloak has answered), then `Built` (validated,
persisted, adopted) or `BuildFails` (lost or not accepted, with what it spent or
started at Keycloak); whose they are is chosen, and `clientCredentials` brings no
refresh token.

At Keycloak a session is named by the first token pair issued in it (`login`), and
`alive` is the set of those that live. A login starts a session or joins one of the
same user (`Joins`: single sign-on gives a code of the browser's session, a password
starts another), a refresh stays in its own, and `Revoked` ends the one session its
token belongs to. So a login over a session leaves the first Keycloak session alive
behind the new tokens, as in the code. `logins` of a call is the session its logout
is for, `ended` the history of those that logouts ended. A refresh token stops
working by being spent (with rotation), by the end of its session or by its expiry
(`ExpireRefresh`), of which keycloak-connect knows the last by itself. Access tokens
expire before refresh tokens do. keycloak-connect is taken to validate renewed
tokens before it puts them into the grant, and its `validateGrant` to change nothing
in the grant.

`InjectGrant`, `InjectAccessToken` and `InjectUserId` are what the
parameter decorators hand to a handler: they read `req.kauth`, not the service,
and the coherence properties compare the two. `Conditions` says whether Keycloak
rotates refresh tokens, whether calls may fail and whether express-session is
installed, chosen once per behaviour. If it is, a request without a record has an
empty session (`Opened`), which a login then fills. `_bearerToken` is the header
itself, since a header does not change. `req.kauth.userInfo` and `req.session.kauth.userInfo`,
which `getUserInfo` reads, are written by nothing in the repository and left out.
Requests follow one another here: what overlapping copies lose is `LoginFlow`'s
subject.

### ReturnUrl and PageVisit

A url is a sequence of symbols, each with the number of times it is
percent-encoded; symbols that all encoders treat alike share a class. `Encode`
with the set of symbols it spares is `encodeURIComponent` or the form encoding of
`URLSearchParams`; `Decode` takes one encoding off. The redirect_uri is its
`destination_uri`, since the rest of it comes and goes unchanged.
`RedirectUri` is what the filter sends, `RebuiltRedirectUri` what the callback
redeems the code with, `DestinationFromQuery` what `resolveDestinationUri` reads.

In `PageVisit`, `visit[t].where` names what handles the request of tab `t`.
`Middleware`, `GuardSkips`, `GuardDecides`, `ResourceUnprotected`, `ResourceUser`,
`Enforce`, `HandlerReturns` and `CheckOwner` are the pipeline, in which the grant
is looked at up to four times; `RedirectElsewhere`, `RedirectToLogin` and `Refuse`
are the branches of the filter; `CallbackRedeems` and `CallbackThrows` are the
callback, which sets the cookie that ends the loop; `Follow` is the browser going
where it was sent. `cookie` and `credential` belong to the browser, so tabs see
each other's; `visit[t].brings` and `.sentCookie` are what a request took along.
An absent decorator is `{}`, a role a one-element intersection. Which routes and
callbacks an application has, what roles and permissions the user holds, and
whether anything may fail (`calm`) is chosen once per behaviour. The application
is taken to have express-session, a cookie parser and, for the login, state
verification that succeeds: what it verifies is `LoginFlow`'s subject.

## What the runs check

| Run | Question | Bounds |
| --- | --- | --- |
| `login_serial` | Is a login bound to its browser, spent once, verified before the code is spent, gone after a logout? | 2 browsers with 1 tab, 2 codes, 2 logins, 2 ticks |
| `login_pending` | Is the list bounded, is a pending login lost only for a reason, does the flow implement the tickets, is every request answered? | 1 browser, 3 logins over a cap of 2, a lifetime of 2 in 3 ticks, state verification optional |
| `login_cookie` | Does the cookie fallback keep a state single use and with its browser? | 2 browsers, 2 logins, no session store, no lost replies |
| `reg_replicas` | Do racing, crashing replicas, of one release or of two, leave Keycloak complete, and is registering again harmless? | 2 replicas, 2 roles, 1 resource with 1 scope, 1 outage, 1 crash, 1 forced call |
| `reg_single` | Can an interrupted registration stand in the way of the next? Does what the guards ask for exist afterwards? | 1 replica, 4 applications over 2 roles, 2 resources, 2 scopes, 2 crashes, 1 forced call |
| `grant_serial` | Are user info and roles those of the grant handlers get, and does a logout leave its Keycloak session dead and its tokens out of the store, through all methods? | 1 call, 3 token pairs, faults, rotation, with and without express-session |
| `grant_parallel` | Do the caches agree, was what is adopted found valid in this request, does failure clear, does logout end, does the session's refresh token keep a user signed in while it lasts? | 2 calls, 2 token pairs, with faults and rotation or with neither |
| `page_visits` | Who sees a page, who is sent to log in, who comes back to the page, and does every visit end? | one tab: all role lists over 2 roles, all other decorators, 8 owner checks on 2 routes, 5 kinds of url with 3 lists of callbacks; two tabs: a page with a login beside 3 others; 1 expiry |

The bounds are the least at which the interesting case happens: two browsers for
a stolen callback, a third login to overflow a cap of two, two replicas for a
race, two resources for a shared scope, two tabs for a shared cookie, three
callbacks for one that must be passed over.
Every counter that would grow for ever has a named bound (`MaxLogins`,
`MaxClock`, `MaxTokens`, `MaxOutages`, `MaxCrashes`, `MaxForced`, `MaxExpiries`);
reaching it stops an action of the environment, never a handler, except
`MaxTokens`, which also keeps Keycloak from answering and is why no liveness is
stated of `GrantService`. Three token pairs are a session's, a bearer's or an earlier
login's, and one more to replace it; with two calls in flight two suffice, since one
renewal is what the other call can trip over. Where `faults` is off, a token does
not expire between keycloak-connect's decision not to renew it and its look at the
expiry. Refresh tokens expire only where `faults` is off: with faults any renewal may
be refused anyway, which leaves the same state. The login runs switch the deadlock check off: when
the logins are used up and the browsers quiet, they stop.

Each property has a mutant in `PROJECT.json`: a definition with a plausible bug
that makes the run fail.

### Where code and documents differ

Four runs show a disagreement and are expected to fail:

- `login_replayed`: `SingleUse`. Two tabs that open a callback url at once both
  find the state in their own copy of the session. "Genuinely single use"
  (`src/README.md:207`) holds only for requests one after the other.
- `reg_unawaited`: `RegisteredHasScopes`. `createScopedResources` does not await
  `updateResource` (`keycloakRegister.service.ts:344`): the application serves
  before its scopes are attached, and a failure is unhandled.
- `grant_swapped`: `BearerDecides`. An expired bearer token is renewed with the
  refresh token of the session that came along, and the request is then the
  session user's instead of anonymous (`keycloak.middleware.ts:41`).
- `page_bytes`: `RedirectUriKept`. The redirect_uri "must match the one sent to
  the authorization endpoint byte for byte"
  (`decorators/authorizationCallback.decorator.ts:153`), but it is written by
  `encodeURIComponent` (`authorized.decorator.ts:82`) and written again by
  `URLSearchParams` (`:163`), which also encodes `! ' ( ) ~`. From a page such as
  `/wiki/Foo_(bar)` nobody can log in. The same line appends a `?` when there is
  no query left, as with the login request of `src/README.md:189-199`.

The same modules show more, with other constants, which is left to the reader to
run: `LogoutIsFinal` fails with two tabs (a request in flight saves its copy of
the destroyed session back); `LoginsKept` fails with two tabs (the copy saved
last drops the other tab's login); `SessionAnswered` fails without `~rotation` and
without `Lasting`, since a renewed grant is not written to the session
(`keycloak.service.ts:161-174` never reaches `sessionSetTokens`): where Keycloak
revokes a refresh token once it is used the next renewal presents a revoked one, and
elsewhere the stored one expires while renewals keep the Keycloak session alive;
`EntitledIsServed` without its condition `Ordinary` fails
(`resolveDestinationUri` decodes what was decoded: a page with an encoded space ends
in a 400, one with an encoded slash at another page). A cached grant that expires
during the request is returned as it is, against `src/README.md:153`: `GrantsVerified`
says that its token was valid when this request looked, not that it still is. A user
who logs in twice in a session has two sessions at Keycloak, of which a logout ends
the second only; a failed revocation is swallowed by design. `LogoutEnds` claims
neither.

### Fairness

- `LoginFlow`: weak fairness of the handlers of each tab. Node runs a handler on
  whenever its await is settled, and each await is settled, with an answer or an
  error. Browsers owe nothing.
- `Registration`: weak fairness of each replica's steps, of the arrival of
  floating updates, of the restart of a replica that died, and of Keycloak's
  return. A running replica is not promised to avoid failures, and crashes and
  outages are bounded: the property says what holds once they end.
- `PageVisit`: weak fairness of the server for each tab, and of the user, who logs
  in or leaves. `VisitEnds` is conditional for two tabs: a tab that takes the
  cookie of every login of the other can keep it going, and no document says not.

## What is proved

Every theorem holds for all values of the constants that the named assumptions of
the modules allow: switches are Booleans, bounds are naturals, caps are positive,
services, calls, deployments and options have the types the code gives them. A
theorem that needs more states it as a hypothesis, given below with the reason.
All follow one pattern: an invariant that is inductive, a lemma for each action
(for the conjuncts the action can disturb), and temporal steps at the end. Each
inductive invariant was checked by TLC on a run before it was proved.

### LoginFlow

`LoginFlowProofs`, for all browsers, tabs and codes: `TypeCorrect`, `LoginBound`
(`LoginBinding`), `CodesSpentVerified` (`VerifiedBeforeSpent`), from
`LoginInvariant`. `LoginBinding` alone is not inductive: a step that saves a
session copy can only be trusted if the copy is. `LoginInv` adds what the stored
records, the copies of requests and the cookies hold (`RequestsFit`, `StoreFits`:
every pending value is a login of that browser, every token belongs to one), that
a redirect is of a login that exists (`RedirectsKnown`), that a code is bound to a
delivered one (`CodesKnown`), and that a code past verification was accepted
(`SpentVerified`). Logins are never forgotten or given to another browser (lemma
`Grows`), so what was true of a copy when it was made is true when it is saved.

`PendingProofs`, for any number of tabs: `ListsAreBounded` (`PendingBounded`) and
`StatesAcceptedFromOwner` (`AcceptedFromOwner`), from `PendingInvariant`.
`PendingInv` adds that every entry, wherever a copy of it lies, has the number and
the expiry of a login that was minted (`Recorded`). The cap needs this: a bound on
the list says something only if its entries are distinct (`NewestBounded`), and two
copies written back in any order hold the same entry for the same login.

`SerialProofs`, for browsers with one tab (`OneTab`): `AcceptedOnce`
(`SingleUse`), `LogoutsAreFinal` (`LogoutIsFinal`), `PendingLoginsKept`
(`LoginsKept`), `SessionTokensKept` (`TokensKept`). The hypothesis is needed:
with two tabs each of them fails, `SingleUse` in the run `login_replayed`. What
they rest on is `SerialInv`: an unchanged copy mirrors the record it was loaded
from (`Attached`), a changed one lacks an entry only for a reason (`Justified`),
with a session there is no cookie (`Cookieless`). `UsesInv` adds that nobody was
let in with a state that is still pending (`Unspent`), in the record as long as the
request has burned nothing; `TokensInv` that the tokens in reach of a browser are
redeemed, not logged out, and no other browser's. `AcceptedOnce` also assumes
`BurnsArrive`: without a session the state is burned by a cookie in the reply, and
a reply that is lost burns nothing.

`TicketProofs`: `FlowImplementsTickets` (`ImplementsTickets`), for one tab and with
express-session. The refinement mapping lets a browser hold the values in its
request's copy, or in the record between requests. `StartLogin` is `Issue` (which
may evict at the cap and drop what has expired), a `VerifyState` that succeeds is
`Accept`, the tick of the clock is the tick, what clears or refuses is `Lose` or a
stutter, and a reply is a stutter, because the copy it saves is what the browser
held already (`SerialInv`).

### Registration

`RegistrationProofs`, for any replicas, releases, crashes, outages and forced calls:

- `RegistrationTypeCorrect`, `RegisteredReplicasHaveRoles`
  (`RegisteredHasRoles`), from `RegistrationInvariant`. A replica becomes registered
  from lists it took long ago. `RegistrationInv` follows each replica: at every stage
  what exists and what it still has to create together cover what its release
  declares (`RolesProgress`, `TaskProgress`, `ScopesProgress`), and floating updates
  attach only scopes that exist (`FloatingProgress`). Roles, scopes and resources
  only grow, so no other replica can undo that (`ProgressGrows`).
- `RegisteredGuardsSatisfiable` (`GuardsSatisfiable`) and `RegisteringIsIdempotent`
  (`Idempotent`), if releases agree on the scopes of the resources they share
  (`ReleasesAgree`): each release replaces the scopes of a resource by its own, so
  two that differ undo each other's. A deployment of one release satisfies this.
  `AttachedInv` adds that a resource whose task is done has its scopes, or floating
  is the update that brings them.
- `SoloNeverFailsToBoot` (`NoBootFails`), for one replica, forced registrations
  included: of two that create the same role one is refused, and fails. `SoloInv`
  adds that what a replica has still to create does not exist.

### GrantService

`GrantServiceProofs`, for any services, calls in flight, methods and number of
tokens, with or without faults, rotation, bearers and sessions. `GrantInvariant` is
behind all of them: `BaseInv` says that no reference to a token or a grant dangles
(`Typed`, `Filled`) although grants are made, renewed in place and cleared by calls
that do not know of each other, and that the phase a call waits in tells its method
and what it has at hand (`Staged`, `Equipped`). A grant that is made takes the place
of none that is held (`NewGrantIsNew`, by counting).

- `GrantTypeCorrect`, `FailedGrantsClear` (`FailureClears`): without hypotheses.
- `AdoptedGrantsAreVerified` (`GrantsVerified`), without hypotheses, from
  `VerifiedInv`: also a call that waits to adopt a grant, or to set the roles, has one
  whose access token was found valid in this request. The await between the look and
  the adoption does no harm for a reason that is not local: what another call puts
  into the grant in the meantime was validated too, and what a new grant is made of
  is in nobody's hands (`NewGrantIsNew`).
- `CacheIsCoherent` (`CacheCoherent`), from `CacheInv`: the service's grant is the
  request's, and its cached access token is the grant's unless the grant was renewed
  in place and the call that renewed it is yet to validate it, after which it adopts
  or clears it.
- `IdentityIsCoherent` (`IdentityCoherent`), from `IdentityInv`: with one call at a
  time user info and roles are about the token handlers get, except from a renewal
  to the end of its call, when the roles are yet to be asked for.
- `LogoutsEndSessions` (`LogoutEnds`), without hypotheses, from `LogoutInv`: once
  Keycloak has answered a logout, the session it is for is dead (`Ending`), and nobody
  revives it, since a refresh needs a session that lives and a new login gets a name
  that no token had; a logout that waits for the store has detached the request's
  session, so a login that ends meanwhile writes its tokens to nothing; what the store
  and the request hold is of no session that has ended at a logout (`NotEnded`).
- `SessionsAreAnswered` (`SessionAnswered`), if `ensureFreshness` is set, from
  `RenewedInv`: without rotation no refresh token is spent, and without faults a
  grant that could be renewed is fresh when its validation is due. Without
  `ensureFreshness` nothing renews. The property is about the time while no Keycloak
  session has ended and no refresh token has expired (`Lasting`).

### PageVisit and ReturnUrl

`PageVisitProofs`, for any tabs, roles, scopes, decorators, urls, callbacks and
expiries: `PageVisitTypeCorrect`, `OnlyEntitledSeePages` (`ShownToEntitled`),
`EntitledAreServed` (`EntitledIsServed`), `LoginIsOffered` (`LoginOffered`),
`OneLogin` (`OneLoginPerVisit`), from `VisitInvariant`. What a visit ends with says
nothing of how it got there; `VisitInv` says what each stage may rely on: which
guards are passed (`Passed`), which flags the filter will find (`Deferring`), that a
login starts at a page with something to come back to (`LoggingIn`), why a page that
offers a login refused (`Offered`), that where nothing fails a login makes the
credential valid for good (`Calm`), and whose login the cookie is of when no other
tab is open (`Single`). `OrdinaryUrl` is about the encodings, for urls of any
length: from a page whose symbols all encoders treat alike (`Ordinary`: no marks,
spaces or backslashes, nothing encoded), the callback rebuilds the redirect_uri it
was sent with, and reads the page's own, safe, address from it.

### Only model-checked

- Liveness (`EveryRequestAnswered`, `EventuallyComplete`, `VisitEnds`), which is out
  of the prover's reach, as is anything about `ENABLED`.
- The four disagreements, which are counterexamples.

Every invariant and every action property of a passing run is stated by a theorem,
under the hypotheses above.

## What is not modelled

- `getBaseUrl` and redaction: functions of one request's headers, or of a log line.
- `getUser`, `getClientFromServiceAccountUsername` (one call to the admin API
  each), `buildLogoutUrl`, the providers and the types: no state, no control.
- The handlers of manual callbacks and what they do with the result of
  `handleAuthorizationCallback`; callbacks with the option `redirectUri`, which
  `handleAuthorizationCallback` uses as it is.
- Malformed percent signs, of which `decodeURIComponent` throws.
- Calls to Keycloak that never settle: `HttpModule` is given no timeout, and
  `EveryRequestAnswered` assumes that each call is answered or fails.
- Keycloak's answer to two creations of one scope that overlap.
- Two modules in one process, several `enforce` calls in one request
  (`resourceDenied` is never reset), releases that differ in scopes: hazards in
  `PROJECT.json`, each with a note, like those that need two tabs and fail there.
- Browser caches of the 301 that `@RedirectUnauthorized` sends by default.

## Plan

1. Done: the models `AuthState`, `LoginFlow`, `LoginTickets`, `Discovery`,
   `Registration`, `GrantService`, `ReturnUrl`, `PageVisit`; the theorems above.
2. Left: an abstract specification of what `GrantService` promises a handler (whose
   request it is, until which step) and its refinement; the hazards without a
   property, first `resourceDenied`, which several `enforce` calls of one request
   share; what is left of two overlapping creations of a scope.
