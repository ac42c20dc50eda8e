------------------------------ MODULE GrantService ------------------------------
(***************************************************************************)
(* KeycloakService: how the requests of one browser session get, renew,    *)
(* use and lose a grant.                                                   *)
(*                                                                         *)
(* A request may have several services (ResourceGuard makes its own), and  *)
(* parallel resolvers may have several calls in flight on one service; all *)
(* of them share the request's kauth and session.  A call is cut at its    *)
(* awaits.  A grant is an object that is renewed in place, so grants live  *)
(* in a heap.  Every login starts or joins a session at Keycloak, which    *)
(* its tokens belong to, and a renewal stays in it.  What a session of the *)
(* application loses when its copies are written back is LoginFlow's       *)
(* subject: here requests come one after the other.                        *)
(***************************************************************************)
EXTENDS Naturals, Sequences, FiniteSets

CONSTANTS Services,         \* the KeycloakService instances of a request
          Calls,            \* the calls that may be in flight
          Ops,              \* the methods that are called
          SessionUser,      \* whose tokens the session holds at first
          BearerUser,       \* whose token a bearer header holds
          Bearers,          \* may requests carry a bearer header?
          EnsureFreshness,  \* the option ensureFreshness
          Conditions,       \* what <<rotation, faults, installed>> may be
          MaxTokens         \* bound: tokens issued

ASSUME GrantServiceAssumption ==
    /\ Ops \subseteq {"getGrant", "forceGrant", "getUserInfo", "forceUserInfo",
                      "login", "loginUnsaved", "clientCredentials",
                      "refreshTokenGrant", "logout"}
    /\ IsFiniteSet(Services) /\ IsFiniteSet(Calls)
    /\ Bearers \in BOOLEAN /\ EnsureFreshness \in BOOLEAN
    /\ Conditions \subseteq BOOLEAN \X BOOLEAN \X BOOLEAN
    /\ MaxTokens \in Nat /\ MaxTokens >= 2

VARIABLES rotation, \* does Keycloak revoke a refresh token once it is used?
          faults,   \* may calls to Keycloak and the store fail, and tokens
                    \* expire between two looks at them?
          installed, \* is express-session installed?
          tokens,   \* the token pairs issued: whose, of which Keycloak session,
                    \* whether the access token and the refresh token have not
                    \* expired, whether the refresh token was used
          alive,    \* the Keycloak sessions that live
          stored,   \* the session record: its access and refresh token
          session,  \* req.session
          header,   \* the access token of the authorization header
          kauth,    \* req.kauth.grant
          roles,    \* the token req.user.roles come from
          service,  \* the cached fields of each service
          heap,     \* the grants
          call,     \* the calls in flight
          verified, \* history: the access tokens found valid in this request
          ended     \* history: the Keycloak sessions a logout has ended

requestVars == <<session, header, kauth, roles, service, heap>>
given == <<rotation, faults, installed>>
histories == <<verified, ended>>
vars == <<given, tokens, alive, stored, requestVars, call, histories>>

-----------------------------------------------------------------------------
(* Types *)

None == 0
Users == {SessionUser, BearerUser}
Tokens == 1..MaxTokens
Grants == 1..(Cardinality(Services) + Cardinality(Calls) + 1)

\* A Keycloak session is named by the first token pair issued in it.
Issued == [user: Users, login: Tokens, fresh: BOOLEAN, renewable: BOOLEAN, spent: BOOLEAN]
Grant == [access: Tokens \cup {None}, refresh: Tokens \cup {None}]
NoGrant == [access |-> None, refresh |-> None]

Session == [exists: BOOLEAN, access: Tokens \cup {None}, refresh: Tokens \cup {None}]
NoSession == [exists |-> FALSE, access |-> None, refresh |-> None]
EmptySession == [NoSession EXCEPT !.exists = TRUE]

\* express-session gives a request without a record an empty session.
Opened(record) == IF installed /\ ~record.exists THEN EmptySession ELSE record

Service == [grant: Grants \cup {None}, access: Tokens \cup {None},
            refresh: Tokens \cup {None}, userInfo: SUBSET Users]
NewService == [grant |-> None, access |-> None, refresh |-> None, userInfo |-> {}]

\* token: the one a reply will be about, or the one the call returned
\* logins: the Keycloak sessions a logout is for
Call == [phase: {"settled", "failed", "resolve", "refresh", "validate", "verify", "roles",
                 "finish", "fetch", "exchange", "build", "revoke", "clear", "destroy"},
         service: Services, op: Ops \cup {"none"}, looked: BOOLEAN,
         grant: Grants \cup {None}, token: Tokens \cup {None}, logins: SUBSET Tokens]
Settled(s, t) == [phase |-> "settled", service |-> s, op |-> "none", looked |-> FALSE,
                  grant |-> None, token |-> t, logins |-> {}]
Failed(s) == [Settled(s, None) EXCEPT !.phase = "failed"]

Pair(user, login, fresh) ==
    [user |-> user, login |-> login, fresh |-> fresh, renewable |-> TRUE, spent |-> FALSE]

InFlight(c) == call[c].phase \notin {"settled", "failed"}

\* The session of an earlier login may be there; a bearer belongs to no session.
Init ==
    /\ \E condition \in Conditions :
         rotation = condition[1] /\ faults = condition[2] /\ installed = condition[3]
    /\ \E freshOfSession, freshOfBearer \in BOOLEAN :
         tokens = IF Bearers
                  THEN <<Pair(SessionUser, 1, freshOfSession), Pair(BearerUser, 2, freshOfBearer)>>
                  ELSE <<Pair(SessionUser, 1, freshOfSession)>>
    /\ alive = DOMAIN tokens
    /\ stored \in {NoSession} \cup
                 (IF installed THEN {[exists |-> TRUE, access |-> 1, refresh |-> 1]} ELSE {})
    /\ session = Opened(stored)
    /\ header \in IF Bearers THEN {None, 2} ELSE {None}
    /\ kauth = None
    /\ roles = None
    /\ service = [s \in Services |-> NewService]
    /\ heap = [g \in Grants |-> NoGrant]
    /\ call \in [Calls -> {Settled(s, None) : s \in Services}]
    /\ verified = {}
    /\ ended = {}

-----------------------------------------------------------------------------
(* Keycloak *)

Fresh(t) == tokens[t].fresh
Alive(t) == tokens[t].login \in alive
Usable(refresh) == Alive(refresh) /\ tokens[refresh].renewable /\ ~tokens[refresh].spent

\* Using a refresh token spends it, with rotation.
Spent(with) ==
    [t \in DOMAIN tokens |->
       IF t = with /\ rotation THEN [tokens[t] EXCEPT !.spent = TRUE] ELSE tokens[t]]

\* A token pair of this user and session, got with this refresh token or none
Issue(user, login, with) ==
    /\ Len(tokens) < MaxTokens
    /\ tokens' = Append(Spent(with), Pair(user, login, TRUE))

NewToken == Len(tokens) + 1

-----------------------------------------------------------------------------
(* Fields and getters of the service *)

Referenced == {service[s].grant : s \in Services} \cup {kauth}
              \cup {call[c].grant : c \in Calls}
NewGrant == CHOOSE g \in Grants : g \notin Referenced

\* get accessToken, where req.kauth has no grant
AccessToken(s) ==
    IF service[s].access # None THEN service[s].access
    ELSE IF header # None THEN header ELSE session.access

\* get refreshToken
RefreshToken(s) ==
    IF service[s].refresh # None THEN service[s].refresh ELSE session.refresh

Goes(c, next) == call' = [call EXCEPT ![c] = next]
Enters(c, phase) == Goes(c, [call[c] EXCEPT !.phase = phase])

ClearGrant(s) ==
    /\ service' = [service EXCEPT ![s] = NewService]
    /\ kauth' = None
    /\ roles' = None

\* mutants: the user info stays; the access token stays
AfterGrantKeepsUserInfo(s, g, grant) ==
    /\ service' = [service EXCEPT ![s] =
         [@ EXCEPT !.grant = g, !.access = grant.access,
                   !.refresh = IF grant.refresh # None THEN grant.refresh ELSE @]]
    /\ kauth' = g

AfterGrantKeepsToken(s, g, grant) ==
    /\ service' = [service EXCEPT ![s] =
         [@ EXCEPT !.grant = g, !.userInfo = {},
                   !.access = IF @ # None THEN @ ELSE grant.access,
                   !.refresh = IF grant.refresh # None THEN grant.refresh ELSE @]]
    /\ kauth' = g

\* afterGrant, up to its await
AfterGrant(s, g, grant) ==
    /\ service' = [service EXCEPT ![s] =
         [grant |-> g, access |-> grant.access, userInfo |-> {},
          refresh |-> IF grant.refresh # None THEN grant.refresh ELSE @.refresh]]
    /\ kauth' = g

-----------------------------------------------------------------------------
(* getGrant.  getUserInfo calls it twice: before it looks at what is cached, *)
(* and (looked) for the token to ask Keycloak with.                          *)

LoginOps == {"login", "loginUnsaved", "clientCredentials"}
InfoOps == {"getUserInfo", "forceUserInfo"}

\* The cached grant, unless the call is forced; else await setOptions.
StartGrant(c, s, op, looked) ==
    LET cached == service[s].grant # None /\ op # "forceGrant"
        begun  == [Settled(s, None) EXCEPT !.op = op, !.looked = looked]
    IN  Goes(c, [begun EXCEPT !.phase = IF cached THEN "finish" ELSE "resolve"])

CallGetGrant(c, s) ==
    /\ \E op \in Ops \cap {"getGrant", "forceGrant", "getUserInfo", "forceUserInfo"} :
         StartGrant(c, s, op, FALSE)
    /\ UNCHANGED <<given, tokens, alive, stored, requestVars, histories>>

\* mutant: an expired grant that could be renewed is validated as it is
RenewalNeverDue(grant) == "validate"

\* isGrantRefreshable and ensureFreshness, up to the request to Keycloak
RenewalDue(grant) ==
    IF EnsureFreshness /\ grant.refresh # None /\ ~Fresh(grant.access)
    THEN "refresh" ELSE "validate"

\* validateGrant of the request's grant
ResolveShared(c) ==
    /\ call[c].phase = "resolve"
    /\ kauth # None
    /\ Goes(c, [call[c] EXCEPT !.phase = RenewalDue(heap[kauth]), !.grant = kauth,
                               !.token = heap[kauth].refresh])
    /\ UNCHANGED <<given, tokens, alive, stored, requestVars, histories>>

\* createGrant from the tokens of the header or the session
ResolveTokens(c) ==
    LET s     == call[c].service
        grant == [access  |-> AccessToken(s),
                  refresh |-> IF EnsureFreshness THEN RefreshToken(s) ELSE None]
    IN  /\ call[c].phase = "resolve"
        /\ kauth = None
        /\ AccessToken(s) # None
        /\ heap' = [heap EXCEPT ![NewGrant] = grant]
        /\ service' = [service EXCEPT ![s] = [@ EXCEPT !.access = AccessToken(s),
                                                       !.refresh = RefreshToken(s)]]
        /\ Goes(c, [call[c] EXCEPT !.phase = RenewalDue(grant), !.grant = NewGrant,
                                   !.token = grant.refresh])
        /\ UNCHANGED <<given, tokens, alive, stored, session, header, kauth, roles, histories>>

\* getGrant returns nothing; getUserInfo then asks for the token all the same.
GetsNothing(c) ==
    /\ ClearGrant(call[c].service)
    /\ Goes(c, IF call[c].op \in InfoOps /\ ~call[c].looked
               THEN [call[c] EXCEPT !.phase = "resolve", !.looked = TRUE, !.grant = None]
               ELSE Settled(call[c].service, None))

\* There is no token: the request is anonymous.
ResolveNothing(c) ==
    /\ call[c].phase = "resolve"
    /\ kauth = None
    /\ AccessToken(call[c].service) = None
    /\ GetsNothing(c)
    /\ UNCHANGED <<given, tokens, alive, stored, session, header, heap, histories>>

\* Keycloak renews the grant, which everyone who shares it gets to see.  Its
\* new tokens are validated before they replace the old ones.
Refreshed(c) ==
    /\ call[c].phase = "refresh"
    /\ Usable(call[c].token)
    /\ Issue(tokens[call[c].token].user, tokens[call[c].token].login, call[c].token)
    /\ heap' = [heap EXCEPT ![call[c].grant] = [access |-> NewToken, refresh |-> NewToken]]
    /\ verified' = verified \cup {NewToken}
    /\ Enters(c, "validate")
    /\ UNCHANGED <<given, alive, stored, session, header, kauth, roles, service, ended>>

\* mutant: a failed getGrant keeps what the service has cached
FailsCached(c) ==
    /\ Goes(c, Failed(call[c].service))
    /\ UNCHANGED <<kauth, roles, service>>

\* The catch blocks of getGrant
Fails(c) ==
    /\ ClearGrant(call[c].service)
    /\ Goes(c, Failed(call[c].service))

\* Keycloak refuses, or ensureFreshness finds the refresh token expired.
RefreshRefused(c) ==
    /\ call[c].phase = "refresh"
    /\ ~Usable(call[c].token) \/ faults
    /\ Fails(c)
    /\ UNCHANGED <<given, tokens, alive, stored, session, header, heap, histories>>

\* Keycloak has renewed the grant, but the answer is lost or not accepted.
RefreshLost(c) ==
    /\ call[c].phase = "refresh"
    /\ Usable(call[c].token)
    /\ faults
    /\ tokens' = Spent(call[c].token)
    /\ Fails(c)
    /\ UNCHANGED <<given, alive, stored, session, header, heap, histories>>

\* mutant: keycloak-connect's verdict is ignored
ValidAnyway(c) == TRUE

Valid(c) == Fresh(heap[call[c].grant].access)

\* keycloak-connect looks at the expiry, then may have to wait for Keycloak's
\* keys to verify the signature.
LookedValid(c) ==
    /\ call[c].phase = "validate"
    /\ Valid(c)
    /\ verified' = verified \cup {t \in {heap[call[c].grant].access} : Fresh(t)}
    /\ Enters(c, "verify")
    /\ UNCHANGED <<given, tokens, alive, stored, requestVars, ended>>

\* afterGrant asks for the roles, and finds the grant it has just cached.  What
\* the grant holds by now may have expired, or been renewed by another call.
Validated(c) ==
    /\ call[c].phase = "verify"
    /\ AfterGrant(call[c].service, call[c].grant, heap[call[c].grant])
    /\ Enters(c, "roles")
    /\ UNCHANGED <<given, tokens, alive, stored, session, header, roles, heap, histories>>

Invalid(c) ==
    /\ call[c].phase \in {"validate", "verify"}
    /\ (call[c].phase = "validate" /\ ~Valid(c)) \/ faults
    /\ Fails(c)
    /\ UNCHANGED <<given, tokens, alive, stored, session, header, heap, histories>>

SetRoles(c) ==
    /\ call[c].phase = "roles"
    /\ roles' = heap[call[c].grant].access
    /\ IF call[c].op \in LoginOps \cup {"refreshTokenGrant"}
       THEN Goes(c, Settled(call[c].service, heap[call[c].grant].access))
       ELSE Enters(c, "finish")
    /\ UNCHANGED <<given, tokens, alive, stored, session, header, kauth, service, heap, histories>>

-----------------------------------------------------------------------------
(* What getGrant returns, and getUserInfo *)

\* Another call has cleared the grant in the meantime.
FinishCleared(c) ==
    /\ call[c].phase = "finish"
    /\ service[call[c].service].grant = None
    /\ GetsNothing(c)
    /\ UNCHANGED <<given, tokens, alive, stored, session, header, heap, histories>>

FinishGrant(c) ==
    LET s     == call[c].service
        token == heap[service[s].grant].access
    IN  /\ call[c].phase = "finish"
        /\ service[s].grant # None
        /\ \/ call[c].op \notin InfoOps /\ Goes(c, Settled(s, token))
           \/ /\ call[c].op \in InfoOps /\ call[c].looked
              /\ Goes(c, IF Fresh(token)
                         THEN [call[c] EXCEPT !.phase = "fetch", !.grant = None, !.token = token]
                         ELSE Settled(s, None))
           \/ /\ call[c].op \in InfoOps /\ ~call[c].looked
              /\ IF service[s].userInfo # {} /\ call[c].op = "getUserInfo"
                 THEN Goes(c, Settled(s, token))
                 ELSE StartGrant(c, s, call[c].op, TRUE)
        /\ UNCHANGED <<given, tokens, alive, stored, requestVars, histories>>

\* mutant: the answer is kept for the token, not for its user
UserInfoRaw(token) == {token}

UserInfo(token) == {tokens[token].user}

FetchedUserInfo(c) ==
    LET s == call[c].service IN
    /\ call[c].phase = "fetch"
    /\ service' = [service EXCEPT ![s] = [@ EXCEPT !.userInfo = UserInfo(call[c].token)]]
    /\ Goes(c, Settled(s, call[c].token))
    /\ UNCHANGED <<given, tokens, alive, stored, session, header, kauth, roles, heap, histories>>

NoUserInfo(c) ==
    /\ call[c].phase = "fetch"
    /\ faults \/ ~Alive(call[c].token)
    /\ Goes(c, Failed(call[c].service))
    /\ UNCHANGED <<given, tokens, alive, stored, requestVars, histories>>

-----------------------------------------------------------------------------
(* The parameter decorators: what a handler of the request is given *)

InjectGrant == kauth
InjectAccessToken == IF kauth = None THEN None ELSE heap[kauth].access

\* The owner of the access token: its sub, its roles, its scopes are his.
InjectUserId == IF InjectAccessToken = None THEN {} ELSE {tokens[InjectAccessToken].user}

-----------------------------------------------------------------------------
(* The grants of a login: directGrant, clientCredentialsGrant,              *)
(* authorizationCodeGrant and refreshTokenGrant                              *)

CallLogin(c, s) ==
    /\ \E op \in Ops \cap LoginOps :
         Goes(c, [Settled(s, None) EXCEPT !.op = op, !.phase = "exchange"])
    /\ UNCHANGED <<given, tokens, alive, stored, requestVars, histories>>

\* The caller passes the refresh token that this request would use.
CallRefreshTokenGrant(c, s) ==
    /\ "refreshTokenGrant" \in Ops
    /\ RefreshToken(s) # None
    /\ Goes(c, [Settled(s, None) EXCEPT !.op = "refreshTokenGrant", !.phase = "exchange",
                  !.token = RefreshToken(s)])
    /\ UNCHANGED <<given, tokens, alive, stored, requestVars, histories>>

\* The Keycloak session of the new tokens: a refresh stays in that of its token,
\* a client's own credentials start one, and so does a user who logs in, unless
\* a session of his that his browser is signed in with gave the code.
Joins(r, user, login) ==
    /\ login \in alive => tokens[login].user = user
    /\ r.op = "refreshTokenGrant" => login = tokens[r.token].login
    /\ r.op = "clientCredentials" => login = NewToken

\* The token endpoint has answered postToken.
Exchanged(c) ==
    /\ call[c].phase = "exchange"
    /\ call[c].op = "refreshTokenGrant" => Usable(call[c].token)
    /\ \E user \in Users, login \in alive \cup {NewToken} :
         /\ Joins(call[c], user, login)
         /\ Issue(user, login, call[c].token)
         /\ alive' = alive \cup {login}
    /\ Goes(c, [call[c] EXCEPT !.phase = "build", !.token = NewToken])
    /\ UNCHANGED <<given, stored, requestVars, histories>>

\* postToken throws, and the service keeps what it had.
ExchangeRefused(c) ==
    /\ call[c].phase = "exchange"
    /\ Goes(c, Failed(call[c].service))
    /\ UNCHANGED <<given, tokens, alive, stored, requestVars, histories>>

\* A client's own credentials bring no refresh token.
Granted(op, token) == [access  |-> token,
                       refresh |-> IF op = "clientCredentials" THEN None ELSE token]

\* sessionSetTokens; a refresh token that is not replaced stays
SessionSetTokens(op, grant) ==
    session' = IF session.exists /\ op # "loginUnsaved"
               THEN [session EXCEPT !.access = grant.access,
                                    !.refresh = IF grant.refresh # None THEN grant.refresh ELSE @]
               ELSE session

\* createGrant has validated the tokens: they are kept, then adopted.
Built(c) ==
    LET r     == call[c]
        grant == Granted(r.op, r.token)
    IN  /\ r.phase = "build"
        /\ SessionSetTokens(r.op, grant)
        /\ heap' = [heap EXCEPT ![NewGrant] = grant]
        /\ AfterGrant(r.service, NewGrant, grant)
        /\ verified' = verified \cup {r.token}
        /\ Goes(c, [r EXCEPT !.phase = "roles", !.grant = NewGrant])
        /\ UNCHANGED <<given, tokens, alive, stored, header, roles, ended>>

\* The answer is lost or not accepted: Keycloak has a session, or has spent a
\* refresh token, for tokens that nobody has.
BuildFails(c) ==
    /\ call[c].phase = "build"
    /\ faults
    /\ Goes(c, Failed(call[c].service))
    /\ UNCHANGED <<given, tokens, alive, stored, requestVars, histories>>

-----------------------------------------------------------------------------
(* logout *)

\* Which Keycloak session it is to end: the one the session's tokens belong to,
\* else the one of the grant's
LoggedOut(s) ==
    {tokens[t].login : t \in (IF session.refresh # None THEN {session.refresh}
                              ELSE IF service[s].grant # None
                              THEN {heap[service[s].grant].refresh} ELSE {}) \ {None}}

\* mutant: only the refresh token of the cached grant is looked for
LogoutTokenOfGrant(s) ==
    IF service[s].grant # None THEN heap[service[s].grant].refresh ELSE None

\* The refresh token of the session, else of the cached grant
LogoutToken(s) ==
    IF session.refresh # None THEN session.refresh
    ELSE IF service[s].grant # None THEN heap[service[s].grant].refresh ELSE None

\* Without a refresh token there is nothing to revoke.
CallLogout(c, s) ==
    /\ "logout" \in Ops
    /\ Goes(c, [Settled(s, None) EXCEPT !.op = "logout", !.logins = LoggedOut(s),
                  !.token = LogoutToken(s),
                  !.phase = IF LogoutToken(s) # None THEN "revoke" ELSE "clear"])
    /\ UNCHANGED <<given, tokens, alive, stored, requestVars, histories>>

\* Keycloak ends the session the refresh token belongs to, were it expired or
\* spent; other sessions of the user live on.
Revoked(c) ==
    /\ call[c].phase = "revoke"
    /\ alive' = alive \ {tokens[call[c].token].login}
    /\ Enters(c, "clear")
    /\ UNCHANGED <<given, tokens, stored, requestVars, histories>>

\* A revocation that fails is logged and swallowed: no session is ended there.
RevocationFails(c) ==
    /\ call[c].phase = "revoke"
    /\ faults
    /\ Goes(c, [call[c] EXCEPT !.phase = "clear", !.logins = {}])
    /\ UNCHANGED <<given, tokens, alive, stored, requestVars, histories>>

\* mutant: the session stays on the request, and is saved with the reply
StillAttached == UNCHANGED session

\* clearSession: express-session detaches the session before it destroys it.
\* Without a session there is nothing to wait for.
DetachSession == session' = NoSession

ClearSession(c) ==
    /\ call[c].phase = "clear"
    /\ ClearGrant(call[c].service)
    /\ DetachSession
    /\ Goes(c, IF session.exists THEN [call[c] EXCEPT !.phase = "destroy", !.token = None]
               ELSE Settled(call[c].service, None))
    /\ UNCHANGED <<given, tokens, alive, stored, header, heap, histories>>

Destroyed(c) ==
    /\ call[c].phase = "destroy"
    /\ stored' = NoSession
    /\ ended' = ended \cup call[c].logins
    /\ Goes(c, Settled(call[c].service, None))
    /\ UNCHANGED <<given, tokens, alive, requestVars, verified>>

DestroyFails(c) ==
    /\ call[c].phase = "destroy"
    /\ faults
    /\ Goes(c, Failed(call[c].service))
    /\ UNCHANGED <<given, tokens, alive, stored, requestVars, histories>>

-----------------------------------------------------------------------------
(* Requests and the environment *)

\* The reply saves the session, and the next request brings a new service.
NextRequest ==
    /\ \A c \in Calls : ~InFlight(c)
    /\ stored' = IF session.exists THEN session ELSE stored
    /\ session' = Opened(stored')
    /\ header' \in IF Bearers THEN {None, 2} ELSE {None}
    /\ kauth' = None
    /\ roles' = None
    /\ service' = [s \in Services |-> NewService]
    /\ heap' = [g \in Grants |-> NoGrant]
    /\ call' = [c \in Calls |-> Settled(call[c].service, None)]
    /\ verified' = {}
    /\ UNCHANGED <<given, tokens, alive, ended>>

\* An access token may expire just when it is looked at: that counts as a fault.
Expire ==
    /\ \E t \in {t \in DOMAIN tokens : Fresh(t)} :
         /\ \/ faults
            \/ \A c \in Calls : call[c].phase = "validate" => heap[call[c].grant].access # t
         /\ tokens' = [tokens EXCEPT ![t] = [@ EXCEPT !.fresh = FALSE]]
    /\ UNCHANGED <<given, alive, stored, requestVars, call, histories>>

\* Refresh tokens outlive their access tokens; renewals do not prolong them.
\* With faults they need not expire: any renewal may be refused.
ExpireRefresh ==
    /\ ~faults
    /\ \E t \in {t \in DOMAIN tokens : ~Fresh(t) /\ tokens[t].renewable} :
         tokens' = [tokens EXCEPT ![t] = [@ EXCEPT !.renewable = FALSE]]
    /\ UNCHANGED <<given, alive, stored, requestVars, call, histories>>

\* Keycloak ends a session on its own account.
SessionEnds ==
    /\ \E login \in alive : alive' = alive \ {login}
    /\ UNCHANGED <<given, tokens, stored, requestVars, call, histories>>

Begin(c) ==
    /\ ~InFlight(c)
    /\ \E s \in Services :
         CallGetGrant(c, s) \/ CallLogin(c, s) \/ CallRefreshTokenGrant(c, s) \/ CallLogout(c, s)

Continue(c) ==
    \/ ResolveShared(c) \/ ResolveTokens(c) \/ ResolveNothing(c)
    \/ Refreshed(c) \/ RefreshRefused(c) \/ RefreshLost(c)
    \/ LookedValid(c) \/ Validated(c) \/ Invalid(c)
    \/ SetRoles(c) \/ FinishCleared(c) \/ FinishGrant(c)
    \/ FetchedUserInfo(c) \/ NoUserInfo(c)
    \/ Exchanged(c) \/ ExchangeRefused(c) \/ Built(c) \/ BuildFails(c)
    \/ Revoked(c) \/ RevocationFails(c) \/ ClearSession(c) \/ Destroyed(c) \/ DestroyFails(c)

Next ==
    \/ \E c \in Calls : Begin(c) \/ Continue(c)
    \/ NextRequest \/ Expire \/ ExpireRefresh \/ SessionEnds

Spec == Init /\ [][Next]_vars

-----------------------------------------------------------------------------
(* Properties *)

TypeOK ==
    /\ given \in Conditions
    /\ tokens \in Seq(Issued)
    /\ alive \subseteq Tokens
    /\ stored \in Session
    /\ session \in Session
    /\ header \in Tokens \cup {None}
    /\ kauth \in Grants \cup {None}
    /\ roles \in Tokens \cup {None}
    /\ service \in [Services -> Service]
    /\ heap \in [Grants -> Grant]
    /\ call \in [Calls -> Call]
    /\ verified \subseteq Tokens
    /\ ended \subseteq Tokens

Idle(s) == \A c \in Calls : InFlight(c) => call[c].service # s

\* With one service per request: whatever calls overlapped, once none is in
\* flight a handler that injects the grant and its access token gets those the
\* service has cached, although grants are renewed in place.
CacheCoherent ==
    Cardinality(Services) = 1 =>
        \A s \in Services :
            /\ service[s].grant = InjectGrant
            /\ Idle(s) /\ InjectGrant # None => service[s].access = InjectAccessToken

\* With one call at a time: the user info the service has, and the roles of
\* req.user, are those of the user whose token handlers are given.
IdentityCoherent ==
    (Cardinality(Services) = 1 /\ Cardinality(Calls) = 1) =>
        \A s \in Services : Idle(s) =>
            service[s].userInfo \subseteq InjectUserId /\ roles = InjectAccessToken

\* "Access token signature, issuer, expiry and type are validated on every
\* request": whatever calls of however many services renew, cache and share it,
\* an access token that handlers and guards are given, or that gave req.user its
\* roles, was found valid in this very request.
GrantsVerified ==
    /\ \A g \in ({service[s].grant : s \in Services} \cup {InjectGrant}) \ {None} :
         heap[g].access \in verified
    /\ roles # None => roles \in verified

\* A failed getGrant leaves nobody signed in.
FailureClears ==
    [][\A c \in Calls :
         LET s == call[c].service IN
         (/\ call[c].op \in {"getGrant", "forceGrant"}
          /\ call'[c].phase = "failed" \/ (call'[c].phase = "settled" /\ call'[c].token = None)
          /\ InFlight(c))
         => service'[s].grant = None /\ kauth' = None /\ roles' = None]_vars

\* The middleware resolves "invalid or expired credentials to an anonymous
\* request": who sends a bearer token, and does not log in, is its user or
\* nobody, whatever session comes with it.
BearerDecides ==
    header # None =>
        \A s \in Services : service[s].grant # None =>
            tokens[heap[service[s].grant].access].user = tokens[header].user

\* No Keycloak session has ended, and no refresh token has expired.
Lasting == \A t \in DOMAIN tokens : Alive(t) /\ tokens[t].renewable

\* No getGrant fails, unless a client's own credentials gave the grant.
NoneFails ==
    \A c \in Calls :
        (/\ call[c].op \in {"getGrant", "forceGrant"} \cup InfoOps
         /\ call[c].grant # None => heap[call[c].grant].refresh # None)
        => call'[c].phase # "failed"

\* "Automatically renews it with the refresh token if it finds it was expired":
\* without rotation and faults, as long as the Keycloak sessions live and the
\* refresh tokens last, no call fails in a request that comes with a session and
\* no bearer, however long ago the access token expired.
SessionAnswered ==
    [][(/\ ~rotation /\ ~faults /\ Lasting
        /\ header = None /\ session.refresh # None) => NoneFails]_vars

\* "Still ends up with a dead keycloak session": after a logout that Keycloak
\* and the store have answered, the Keycloak session it was for is dead and stays
\* so, and the store has no tokens of it for the next request, whatever calls
\* overlap the logout.  A login over a session starts another at Keycloak: the
\* logout ends that one, and the one before it lives on there.
LogoutEnds ==
    \A login \in ended :
        /\ login \notin alive
        /\ \A t \in {stored.access, stored.refresh} \ {None} : tokens[t].login # login

=============================================================================
