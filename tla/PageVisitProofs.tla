----------------------------- MODULE PageVisitProofs -----------------------------
(***************************************************************************)
(* Proofs about PageVisit, for every set of tabs, roles and scopes, every  *)
(* application and any number of expiries.                                 *)
(*                                                                         *)
(* What a visit ends with says nothing of how it got there, so none of the *)
(* properties is inductive.  The invariant says what each stage may rely   *)
(* on: which guards were passed, with which flags the filter will find the *)
(* request, what a login has left in the session and in the cookie, and,   *)
(* where a single tab is open, whose login the cookie is of.               *)
(***************************************************************************)
EXTENDS PageVisit, TLAPS

-----------------------------------------------------------------------------
(* The invariant *)

\* Where the browser's request is being handled; where AuthGuard is behind it
Requesting == {"middleware", "authGuard", "resourceGuard", "enforce", "handler", "owner", "filter"}
Guarded == {"resourceGuard", "enforce", "handler", "owner"}

\* AuthGuard has something to check on such a route.
Protected(r) == ~r.public /\ r.class \cup r.handler # {}

\* Which guards v has passed on its route r
Passed(v, r) ==
    /\ v.where \in Guarded \cup {"shown"} =>
         RolesGranted(r) /\ (Protected(r) => named)
    /\ v.where \in Guarded /\ Protected(r) => v.grant
    /\ v.where \in {"enforce", "handler", "owner", "shown"} =>
         (RequiredScopes(r) # {} => named)
    /\ v.where \in {"handler", "owner", "shown"} => ScopesGranted(r)
    /\ v.where = "shown" => OwnerGranted(r)

\* The flags UnauthorizedFilter finds: those of the route, unless the request
\* brought a cookie or AuthGuard had nothing to check.
Deferring(v, r) ==
    /\ v.render => Protected(r) /\ ~v.sentCookie
    /\ v.where \in Guarded \cup {"filter"} /\ Protected(r) =>
         /\ v.clears
         /\ ~v.sentCookie => v.render = r.render /\ v.redirect = r.redirect

\* A login starts at a page that has AuthGuard and a url to come back to.
LoggingIn(v, r) ==
    /\ v.where \in {"keycloak", "callback", "returning"} => v.login > 0 /\ Protected(r)
    /\ v.where \in {"keycloak", "callback"} => IsSafeRedirect(PageUri(r.originalUrl))

\* Who is refused although the page offers a login came with a cookie.
Offered(v, r) ==
    v.where = "refused" /\ v.login = 0 /\ Protected(r) /\ r.render /\ r.redirect = "none"
      /\ DefaultAuthorizationCallback(callbacks) # {} /\ Ordinary(r)
    => v.sentCookie

\* As long as nothing fails, a login makes the credential valid for good, and
\* none of the guards turns down who is entitled and brings a valid one.
Calm(v, r, carried, jar) ==
    calm =>
        /\ jar \/ v.sentCookie \/ v.where = "returning" => carried = "valid"
        /\ v.login > 0 /\ v.where \in Requesting => v.brings = "valid"
        /\ v.where = "owner" /\ v.brings = "valid" => v.grant
        /\ Entitled(r) =>
             /\ v.where = "filter" => v.brings # "valid"
             /\ v.login # 2
             /\ v.where \in {"refused", "elsewhere"} /\ Ordinary(r) => v.login = 0

\* Without other tabs the cookie belongs to the login of this visit.
Single(v, r, jar) ==
    /\ v.where = "returning" => jar
    /\ v.login > 0 /\ v.where \in Requesting => v.sentCookie
    /\ v.login # 2
    /\ Ordinary(r) =>
         /\ jar => /\ v.login > 0 /\ Protected(r)
                   /\ v.where \in Requesting \cup {"returning"}
         /\ v.login = 0 /\ v.where \in Requesting \cup {"refused"} => ~v.sentCookie

\* The visit v of tab t, of a browser with this credential and this cookie
VisitFits(t, v, carried, jar) ==
    /\ Passed(v, route[t])
    /\ Deferring(v, route[t])
    /\ LoggingIn(v, route[t])
    /\ Offered(v, route[t])
    /\ Calm(v, route[t], carried, jar)
    /\ Alone(t) => Single(v, route[t], jar)

VisitInv == TypeOK /\ \A t \in Open : VisitFits(t, visit[t], credential, cookie)

-----------------------------------------------------------------------------
(* A step of one tab *)

LEMMA VisitType ==
    ASSUME TypeOK, NEW t \in Open
    PROVE  visit[t] \in Visit /\ route[t] \in Route
  BY DEF TypeOK

LEMMA OwnVisitStep ==
    ASSUME VisitInv, NEW t \in Open, NEW v \in Visit, Becomes(t, v),
           UNCHANGED <<userVars, expiries>>,
           credential' \in Credential, cookie' \in BOOLEAN,
           calm /\ credential = "valid" => credential' = "valid",
           calm /\ cookie' => credential' = "valid",
           VisitFits(t, v, credential', cookie')
    PROVE  VisitInv'
  <1>1. visit' = [visit EXCEPT ![t] = v] /\ visit \in [Open -> Visit] /\ UNCHANGED <<Open, route>>
    BY DEF VisitInv, TypeOK, Becomes, userVars, Open
  <1>2. TypeOK'
    BY <1>1 DEF VisitInv, TypeOK, userVars
  <1>3. ASSUME NEW u \in Open
        PROVE  VisitFits(u, visit'[u], credential', cookie')
    <2>1. CASE u = t
      BY <1>1, <2>1
    <2>2. CASE u # t
      <3>1. visit'[u] = visit[u] /\ VisitFits(u, visit[u], credential, cookie)
        BY <1>1, <2>2 DEF VisitInv
      <3>2. ~Alone(u)
        BY <2>2 DEF Alone
      <3>3. calm \in BOOLEAN
        BY DEF VisitInv, TypeOK
      <3>4. Calm(visit[u], route[u], credential', cookie')
        BY <3>1, <3>3 DEF VisitFits, Calm
      <3> QED
        BY <3>1, <3>2, <3>4 DEF VisitFits
    <2> QED
      BY <2>1, <2>2
  <1>4. \A u \in Open' : VisitFits(u, visit[u], credential, cookie)'
    BY <1>1, <1>3
    DEF VisitFits, Passed, Deferring, LoggingIn, Offered, Calm, Single, userVars, Open, Alone,
        RolesGranted, ScopesGranted, OwnerGranted, Entitled, Ordinary, Protected, RequiredScopes
  <1> QED
    BY <1>2, <1>4 DEF VisitInv

-----------------------------------------------------------------------------
(* The urls and the callback of a login *)

Symbol == [char: Char, encoded: 0..1]

LEMMA DefaultEligible ==
    ASSUME NEW declared, NEW callback \in DefaultAuthorizationCallback(declared)
    PROVE  Eligible(callback)
  BY DEF DefaultAuthorizationCallback, First, Usable, Marked

\* The address of a page is its url behind the origin.
LEMMA PageUriType ==
    ASSUME NEW url \in Seq(Symbol)
    PROVE  /\ PageUri(url) \in Seq(Symbol)
           /\ PageUri(url)[1] = Literal("own")
           /\ Len(PageUri(url)) = Len(url) + 1
           /\ \A i \in 2..Len(PageUri(url)) : i - 1 \in 1..Len(url) /\ PageUri(url)[i] = url[i - 1]
  <1>1. Literal("own") \in Symbol
    BY DEF Literal, Symbol, Char
  <1> QED
    BY <1>1 DEF PageUri

\* A page whose url all encoders treat alike has a login to come back from: the
\* code is redeemed with the redirect_uri it was issued for, twice decoding the
\* query leaves the page's own url, and no check of redirects rejects it.
THEOREM OrdinaryUrl ==
    ASSUME NEW r \in Route, Ordinary(r)
    PROVE  /\ RebuiltRedirectUri(RedirectUri(r.originalUrl)) = RedirectUri(r.originalUrl)
           /\ DestinationFromQuery(RedirectUri(r.originalUrl)) = PageUri(r.originalUrl)
           /\ IsSafeRedirect(PageUri(r.originalUrl))
  <1> DEFINE url == PageUri(r.originalUrl)
  <1>1. r.originalUrl \in Seq(Symbol)
    BY DEF Route, Symbol
  <1>2. /\ url \in Seq(Symbol) /\ Len(url) >= 1
        /\ url[1] = Literal("own")
    BY <1>1, PageUriType
  <1>3. ASSUME NEW i \in 1..Len(url)
        PROVE  /\ url[i] \in Symbol
               /\ url[i].encoded = 0
               /\ url[i].char \notin {"mark", "space", "backslash"}
    <2>1. CASE i = 1
      BY <1>2, <2>1 DEF Literal, Symbol, Char
    <2>2. CASE i # 1
      <3>1. i - 1 \in 1..Len(r.originalUrl) /\ url[i] = r.originalUrl[i - 1]
        BY <1>1, <2>2, PageUriType
      <3> QED
        BY <1>1, <3>1 DEF Ordinary
    <2> QED
      BY <2>1, <2>2
  <1> DEFINE Sent(s) == IF s.char = "letter" THEN s ELSE [char |-> s.char, encoded |-> 1]
             sent    == [i \in 1..Len(url) |-> Sent(url[i])]
  <1> HIDE DEF url
  <1>4. ASSUME NEW s \in Symbol, s.encoded = 0
        PROVE  s = [char |-> s.char, encoded |-> 0]
    BY <1>4 DEF Symbol
  <1>5. DOMAIN url = 1..Len(url)
    BY <1>2
  <1>6. Encode(url, {"letter", "mark"}) = sent /\ Encode(url, {"letter"}) = sent
    <2>1. ASSUME NEW i \in 1..Len(url), NEW spared \in {{"letter", "mark"}, {"letter"}}
          PROVE  (IF url[i].encoded = 0 /\ url[i].char \in spared THEN url[i]
                  ELSE [url[i] EXCEPT !.encoded = @ + 1]) = Sent(url[i])
      BY <1>3 DEF Symbol
    <2> QED
      BY <1>5, <2>1 DEF Encode
  <1>7. Decode(sent) = url
    <2>1. ASSUME NEW i \in 1..Len(url)
          PROVE  [Sent(url[i]) EXCEPT !.encoded = IF @ > 0 THEN @ - 1 ELSE 0] = url[i]
      BY <1>3, <1>4 DEF Symbol
    <2> QED
      BY <1>2, <1>5, <2>1 DEF Decode
  <1>8. Decode(url) = url
    <2>1. ASSUME NEW i \in 1..Len(url)
          PROVE  [url[i] EXCEPT !.encoded = IF @ > 0 THEN @ - 1 ELSE 0] = url[i]
      BY <1>3, <1>4 DEF Symbol
    <2> QED
      BY <1>2, <1>5, <2>1 DEF Decode
  <1>9. IsSafeRedirect(url)
    <2>1. url # <<>> /\ url[1] # Literal("slash") /\ url[1] \in {Literal("own"), Literal("allowed")}
      BY <1>2 DEF Literal
    <2>2. ASSUME NEW i \in 1..Len(url)
          PROVE  url[i] \notin {Literal("space"), Literal("backslash")}
      BY <1>3 DEF Literal
    <2> QED
      BY <1>5, <2>1, <2>2 DEF IsSafeRedirect
  <1> HIDE DEF sent
  <1>10. RedirectUri(r.originalUrl) = sent
    BY <1>6 DEF RedirectUri, EncodeURIComponent, url
  <1> QED
    BY <1>6, <1>7, <1>8, <1>9, <1>10 DEF RebuiltRedirectUri, FormEncode, DestinationFromQuery, url

-----------------------------------------------------------------------------
(* The guards decide what the decorators say. *)

LEMMA RolesDecide ==
    ASSUME NEW r \in Route
    PROVE  /\ (r.public \/ RequiredRoles(r) = {}) <=> ~Protected(r)
           /\ ~Protected(r) => RolesGranted(r)
           /\ \A alternatives \in RequiredRoles(r) :
                 /\ IsAuthorizedByRoles(alternatives) => RolesGranted(r)
                 /\ RolesGranted(r) /\ Protected(r) => IsAuthorizedByRoles(alternatives)
  BY DEF RequiredRoles, Protected, RolesGranted, IsAuthorizedByRoles

LEMMA ScopesDecide ==
    ASSUME NEW r \in Route
    PROVE  /\ RequiredScopes(r) = {} => ScopesGranted(r)
           /\ Enforced(RequiredScopes(r)) <=> ScopesGranted(r)
  <1>1. r.resource \in BOOLEAN
    BY DEF Route
  <1> QED
    BY <1>1 DEF RequiredScopes, ScopesGranted, Enforced

\* There is at most one @OnlyOwner on a route.
LEMMA OwnerDecides ==
    ASSUME NEW t \in Open, route[t] \in Route, NEW x \in route[t].owner
    PROVE  /\ IsOwner(t, x) => OwnerGranted(route[t])
           /\ OwnerGranted(route[t]) /\ visit[t].grant => IsOwner(t, x)
  <1>1. route[t].owner = {x}
    BY DEF Route
  <1> QED
    BY <1>1 DEF OwnerGranted, IsOwner, IsAuthorizedByRoles

\* A visit that only moves
LEMMA Moved ==
    ASSUME NEW v \in Visit, NEW where \in Where
    PROVE  LET w == [v EXCEPT !.where = where] IN
           /\ w \in Visit
           /\ w.where = where
           /\ w.brings = v.brings
           /\ w.grant = v.grant
           /\ w.sentCookie = v.sentCookie
           /\ w.clears = v.clears
           /\ w.render = v.render
           /\ w.redirect = v.redirect
           /\ w.login = v.login
  BY DEF Visit

LEMMA TypedStep ==
    ASSUME VisitInv, UNCHANGED <<credential, cookie>>
    PROVE  /\ credential' \in Credential /\ cookie' \in BOOLEAN
           /\ calm /\ credential = "valid" => credential' = "valid"
  BY DEF VisitInv, TypeOK

\* A move without a reply changes neither the credential nor the cookie.
LEMMA MoveStep ==
    ASSUME VisitInv, NEW t \in Open, NEW where \in Where, Goes(t, where),
           UNCHANGED <<userVars, credential, cookie, expiries>>,
           VisitFits(t, [visit[t] EXCEPT !.where = where], credential, cookie)
    PROVE  VisitInv'
  <1> DEFINE w == [visit[t] EXCEPT !.where = where]
  <1>1. w \in Visit
    BY VisitType, Moved DEF VisitInv
  <1>2. Becomes(t, w)
    BY DEF Goes
  <1>3. calm \in BOOLEAN /\ cookie \in BOOLEAN /\ Calm(visit[t], route[t], credential, cookie)
    BY DEF VisitInv, VisitFits, TypeOK
  <1>4. calm /\ cookie' => credential' = "valid"
    BY <1>3 DEF Calm
  <1>5. VisitFits(t, w, credential', cookie')
    OBVIOUS
  <1> HIDE DEF w
  <1> QED
    BY <1>1, <1>2, <1>4, <1>5, TypedStep, OwnVisitStep

-----------------------------------------------------------------------------
(* The guards *)

LEMMA MiddlewareStep ==
    ASSUME VisitInv, NEW t \in Open, Middleware(t)
    PROVE  VisitInv'
  <1>1. PICK grant \in BOOLEAN :
          Becomes(t, [visit[t] EXCEPT !.where = "authGuard", !.grant = grant])
    BY DEF Middleware, Resolved
  <1> DEFINE v == visit[t]
             w == [v EXCEPT !.where = "authGuard", !.grant = grant]
  <1>2. /\ v \in Visit /\ v.where = "middleware" /\ VisitFits(t, v, credential, cookie)
        /\ UNCHANGED <<userVars, credential, cookie, expiries>>
        /\ calm \in BOOLEAN /\ cookie \in BOOLEAN
    BY VisitType DEF VisitInv, TypeOK, Middleware, At
  <1>3. /\ w \in Visit
        /\ w.where = "authGuard"
        /\ w.brings = v.brings
        /\ w.sentCookie = v.sentCookie
        /\ w.render = v.render
        /\ w.login = v.login
    BY <1>2 DEF Visit, Where
  <1>4. Becomes(t, w)
    BY <1>1
  <1> HIDE DEF v, w
  <1>5. Passed(w, route[t]) /\ Deferring(w, route[t]) /\ LoggingIn(w, route[t]) /\ Offered(w, route[t])
    BY <1>2, <1>3 DEF VisitFits, Passed, Deferring, LoggingIn, Offered, Guarded
  <1>6. Calm(w, route[t], credential, cookie)
    BY <1>2, <1>3 DEF VisitFits, Calm, Requesting
  <1>7. Alone(t) => Single(w, route[t], cookie)
    BY <1>2, <1>3 DEF VisitFits, Single, Requesting
  <1>8. calm /\ cookie => credential = "valid"
    BY <1>2 DEF VisitFits, Calm
  <1> QED
    BY <1>2, <1>3, <1>4, <1>5, <1>6, <1>7, <1>8, TypedStep, OwnVisitStep DEF VisitFits

LEMMA GuardSkipsStep ==
    ASSUME VisitInv, NEW t \in Open, GuardSkips(t)
    PROVE  VisitInv'
  <1> DEFINE v == visit[t]
             w == [v EXCEPT !.where = "resourceGuard"]
  <1>1. /\ v \in Visit /\ route[t] \in Route
        /\ v.where = "authGuard" /\ VisitFits(t, v, credential, cookie)
        /\ calm \in BOOLEAN /\ cookie \in BOOLEAN
    BY VisitType DEF VisitInv, TypeOK, GuardSkips, At
  <1>2. /\ w.where = "resourceGuard"
        /\ w.brings = v.brings
        /\ w.grant = v.grant
        /\ w.sentCookie = v.sentCookie
        /\ w.clears = v.clears
        /\ w.render = v.render
        /\ w.login = v.login
    BY <1>1, Moved DEF Where
  <1>3. ~Protected(route[t]) /\ RolesGranted(route[t])
    BY <1>1, RolesDecide DEF GuardSkips
  <1> HIDE DEF v, w
  <1>4. Passed(w, route[t]) /\ Deferring(w, route[t]) /\ LoggingIn(w, route[t]) /\ Offered(w, route[t])
    BY <1>1, <1>2, <1>3 DEF VisitFits, Passed, Deferring, LoggingIn, Offered, Guarded
  <1>5. Calm(w, route[t], credential, cookie)
    BY <1>1, <1>2 DEF VisitFits, Calm, Requesting
  <1>6. Alone(t) => Single(w, route[t], cookie)
    BY <1>1, <1>2 DEF VisitFits, Single, Requesting
  <1>7. VisitFits(t, w, credential, cookie)
    BY <1>4, <1>5, <1>6 DEF VisitFits
  <1> QED
    BY <1>7, MoveStep DEF GuardSkips, Where, v, w

\* The flags of the route go to the filter, unless the browser brought a cookie.
LEMMA GuardDecidesStep ==
    ASSUME VisitInv, NEW t \in Open, GuardDecides(t)
    PROVE  VisitInv'
  <1> DEFINE v == visit[t]
  <1>1. PICK alternatives \in RequiredRoles(route[t]) :
          \E grant \in IF v.grant THEN {TRUE} ELSE Resolved(t) :
             Becomes(t, [Deferred(t) EXCEPT
               !.grant = grant,
               !.where = IF grant /\ named /\ IsAuthorizedByRoles(alternatives)
                         THEN "resourceGuard" ELSE "filter"])
    BY DEF GuardDecides
  <1>2. /\ v \in Visit /\ route[t] \in Route
        /\ v.where = "authGuard" /\ VisitFits(t, v, credential, cookie)
        /\ UNCHANGED <<userVars, credential, cookie, expiries>>
        /\ calm \in BOOLEAN /\ cookie \in BOOLEAN
    BY VisitType DEF VisitInv, TypeOK, GuardDecides, At
  <1>3. PICK grant \in BOOLEAN :
          /\ v.brings = "valid" /\ calm => grant
          /\ Becomes(t, [Deferred(t) EXCEPT
               !.grant = grant,
               !.where = IF grant /\ named /\ IsAuthorizedByRoles(alternatives)
                         THEN "resourceGuard" ELSE "filter"])
    BY <1>1, <1>2 DEF Resolved
  <1> DEFINE where == IF grant /\ named /\ IsAuthorizedByRoles(alternatives)
                      THEN "resourceGuard" ELSE "filter"
             w     == [Deferred(t) EXCEPT !.grant = grant, !.where = where]
  <1>4. /\ where \in {"resourceGuard", "filter"}
        /\ where = "resourceGuard" <=> grant /\ named /\ IsAuthorizedByRoles(alternatives)
    OBVIOUS
  <1> HIDE DEF where
  <1>5. /\ w \in Visit
        /\ w.where = where
        /\ w.grant = grant
        /\ w.brings = v.brings
        /\ w.sentCookie = v.sentCookie
        /\ w.clears = TRUE
        /\ ~v.sentCookie => w.render = route[t].render /\ w.redirect = route[t].redirect
        /\ v.sentCookie => w.render = v.render
        /\ w.login = v.login
    BY <1>2, <1>4 DEF Deferred, Visit, Where, Route
  <1>6. Becomes(t, w)
    BY <1>3 DEF where
  <1>7. /\ Protected(route[t])
        /\ where = "resourceGuard" => grant /\ named /\ RolesGranted(route[t])
        /\ where = "filter" => ~(v.brings = "valid" /\ calm /\ Entitled(route[t]))
    <2>1. Protected(route[t])
      BY <1>1, <1>2, RolesDecide DEF GuardDecides
    <2> QED
      BY <1>1, <1>2, <1>3, <1>4, <2>1, RolesDecide DEF Entitled
  <1> HIDE DEF v, w
  <1>8. Passed(w, route[t]) /\ LoggingIn(w, route[t]) /\ Offered(w, route[t])
    BY <1>2, <1>4, <1>5, <1>7 DEF VisitFits, Passed, LoggingIn, Offered, Guarded
  <1>9. Deferring(w, route[t])
    BY <1>2, <1>4, <1>5, <1>7 DEF VisitFits, Deferring, Visit
  <1>10. Calm(w, route[t], credential, cookie)
    BY <1>2, <1>4, <1>5, <1>7 DEF VisitFits, Calm, Requesting
  <1>11. Alone(t) => Single(w, route[t], cookie)
    BY <1>2, <1>4, <1>5, <1>7 DEF VisitFits, Single, Requesting
  <1>12. calm /\ cookie => credential = "valid"
    BY <1>2 DEF VisitFits, Calm
  <1> QED
    BY <1>2, <1>5, <1>6, <1>8, <1>9, <1>10, <1>11, <1>12, TypedStep, OwnVisitStep DEF VisitFits

\* ResourceGuard and the question for permissions: on to the handler, or to the filter
LEMMA ResourceStep ==
    ASSUME VisitInv, NEW t \in Open, ResourceUnprotected(t) \/ ResourceUser(t) \/ Enforce(t)
    PROVE  VisitInv'
  <1> DEFINE v == visit[t]
  <1>1. /\ v \in Visit /\ route[t] \in Route
        /\ v.where \in {"resourceGuard", "enforce"} /\ VisitFits(t, v, credential, cookie)
        /\ UNCHANGED <<userVars, credential, cookie, expiries>>
        /\ calm \in BOOLEAN /\ cookie \in BOOLEAN /\ named \in BOOLEAN
    BY VisitType DEF VisitInv, TypeOK, ResourceUnprotected, ResourceUser, Enforce, At
  <1>2. PICK where \in {"handler", "enforce", "filter"} :
          /\ Goes(t, where)
          /\ where = "enforce" => named
          /\ where = "handler" => /\ ScopesGranted(route[t])
                                  /\ RequiredScopes(route[t]) = {} \/ v.where = "enforce"
          /\ where = "filter" => ~(v.brings = "valid" /\ calm /\ Entitled(route[t]))
    <2>1. CASE ResourceUnprotected(t)
      BY <1>1, <2>1, ScopesDecide DEF ResourceUnprotected
    <2>2. CASE ResourceUser(t)
      <3>1. PICK grant \in Resolved(t) : Goes(t, IF grant /\ named THEN "enforce" ELSE "filter")
        BY <2>2 DEF ResourceUser
      <3>2. v.brings = "valid" /\ calm => grant
        BY <3>1, <1>1 DEF Resolved
      <3>3. CASE grant /\ named
        BY <3>1, <3>3
      <3>4. CASE ~(grant /\ named)
        BY <3>1, <3>2, <3>4 DEF Entitled
      <3> QED
        BY <3>3, <3>4
    <2>3. CASE Enforce(t)
      BY <1>1, <2>3, ScopesDecide DEF Enforce, At, Entitled
    <2> QED
      BY <2>1, <2>2, <2>3
  <1> DEFINE w == [v EXCEPT !.where = where]
  <1>3. /\ w.where = where
        /\ w.brings = v.brings
        /\ w.grant = v.grant
        /\ w.sentCookie = v.sentCookie
        /\ w.clears = v.clears
        /\ w.render = v.render
        /\ w.redirect = v.redirect
        /\ w.login = v.login
    BY <1>1, Moved DEF Where
  <1> HIDE DEF v, w
  <1>4. Passed(w, route[t])
    BY <1>1, <1>2, <1>3 DEF VisitFits, Passed, Guarded
  <1>5. Deferring(w, route[t]) /\ LoggingIn(w, route[t]) /\ Offered(w, route[t])
    BY <1>1, <1>3 DEF VisitFits, Deferring, LoggingIn, Offered, Guarded
  <1>6. Calm(w, route[t], credential, cookie)
    BY <1>1, <1>2, <1>3 DEF VisitFits, Calm, Requesting
  <1>7. Alone(t) => Single(w, route[t], cookie)
    BY <1>1, <1>3 DEF VisitFits, Single, Requesting
  <1>8. VisitFits(t, w, credential, cookie)
    BY <1>4, <1>5, <1>6, <1>7 DEF VisitFits
  <1>9. where \in Where /\ Goes(t, where)
    BY <1>2 DEF Where
  <1> QED
    BY <1>1, <1>8, <1>9, MoveStep DEF v, w

-----------------------------------------------------------------------------
(* The handler, the owner check and the filter *)

\* A reply ends a visit; AuthGuard has seen to it that the cookie goes with it.
LEMMA ReplyStep ==
    ASSUME VisitInv, NEW t \in Open, NEW where \in {"shown", "refused", "redirected"},
           Replies(t, where), UNCHANGED <<userVars, credential, expiries>>,
           visit[t].where \in {"handler", "owner", "filter"},
           where = "shown" => visit[t].where # "filter" /\ OwnerGranted(route[t]),
           where = "refused" =>
              /\ visit[t].login = 0 /\ Protected(route[t]) /\ Ordinary(route[t])
                   /\ route[t].render /\ route[t].redirect = "none"
                   /\ DefaultAuthorizationCallback(callbacks) # {}
                 => visit[t].sentCookie
              /\ calm /\ Entitled(route[t]) /\ Ordinary(route[t]) => visit[t].login = 0
    PROVE  VisitInv'
  <1> DEFINE v == visit[t]
             w == [v EXCEPT !.where = where]
  <1>1. /\ v \in Visit /\ VisitFits(t, v, credential, cookie)
        /\ credential \in Credential /\ calm \in BOOLEAN
    BY VisitType DEF VisitInv, TypeOK
  <1>2. /\ w \in Visit
        /\ w.where = where
        /\ w.brings = v.brings
        /\ w.grant = v.grant
        /\ w.sentCookie = v.sentCookie
        /\ w.clears = v.clears
        /\ w.render = v.render
        /\ w.redirect = v.redirect
        /\ w.login = v.login
    BY <1>1, Moved DEF Where, Ends
  <1>3. Becomes(t, w) /\ credential' = credential
    BY DEF Replies, Goes
  <1>4. cookie' \in BOOLEAN /\ (cookie' => cookie /\ ~v.clears)
    <2>1. cookie' = (cookie /\ ~v.clears)
      BY DEF Replies
    <2> QED
      BY <2>1, Zenon
  <1> HIDE DEF v, w
  <1>5. visit[t] = v
    BY DEF v
  <1>6. Passed(w, route[t])
    BY <1>1, <1>2, <1>5 DEF VisitFits, Passed, Guarded
  <1>7. Deferring(w, route[t]) /\ LoggingIn(w, route[t]) /\ Offered(w, route[t])
    BY <1>1, <1>2, <1>5 DEF VisitFits, Deferring, LoggingIn, Offered, Guarded
  <1>8. Calm(w, route[t], credential', cookie')
    BY <1>1, <1>2, <1>3, <1>4, <1>5 DEF VisitFits, Calm, Requesting
  <1>9. ASSUME Alone(t) PROVE Single(w, route[t], cookie')
    <2>1. Single(v, route[t], cookie)
      BY <1>1, <1>9 DEF VisitFits
    <2>2. ASSUME Ordinary(route[t]), cookie' PROVE FALSE
      BY <1>1, <1>4, <1>5, <2>1, <2>2 DEF VisitFits, Single, Deferring, Guarded
    <2>3. ASSUME Ordinary(route[t]), w.login = 0, w.where = "refused" PROVE ~w.sentCookie
      BY <1>2, <1>5, <2>1, <2>3 DEF Single, Requesting
    <2> QED
      BY <1>2, <2>1, <2>2, <2>3 DEF Single, Requesting
  <1>10. /\ calm /\ cookie' => credential' = "valid"
         /\ calm /\ credential = "valid" => credential' = "valid"
    BY <1>1, <1>3, <1>4 DEF VisitFits, Calm
  <1> QED
    BY <1>1, <1>2, <1>3, <1>4, <1>6, <1>7, <1>8, <1>9, <1>10, OwnVisitStep DEF VisitFits

LEMMA ShowStep ==
    ASSUME VisitInv, NEW t \in Open, Show(t)
    PROVE  VisitInv'
  BY ReplyStep DEF Show, At, OwnerGranted

LEMMA HandlerFailsStep ==
    ASSUME VisitInv, NEW t \in Open, HandlerFails(t)
    PROVE  VisitInv'
  <1> DEFINE v == visit[t]
             w == [v EXCEPT !.where = "filter"]
  <1>1. /\ v \in Visit /\ v.where = "handler" /\ VisitFits(t, v, credential, cookie)
        /\ ~calm
    BY VisitType DEF VisitInv, HandlerFails, At
  <1>2. /\ w.where = "filter"
        /\ w.sentCookie = v.sentCookie
        /\ w.clears = v.clears
        /\ w.render = v.render
        /\ w.redirect = v.redirect
        /\ w.login = v.login
    BY <1>1, Moved DEF Where
  <1> HIDE DEF v, w
  <1>3. VisitFits(t, w, credential, cookie)
    BY <1>1, <1>2
    DEF VisitFits, Passed, Deferring, LoggingIn, Offered, Calm, Single, Guarded, Requesting
  <1> QED
    BY <1>3, MoveStep DEF HandlerFails, Where, v, w

LEMMA HandlerReturnsStep ==
    ASSUME VisitInv, NEW t \in Open, HandlerReturns(t)
    PROVE  VisitInv'
  <1> DEFINE v == visit[t]
  <1>1. /\ v \in Visit /\ v.where = "handler" /\ VisitFits(t, v, credential, cookie)
        /\ UNCHANGED <<userVars, credential, cookie, expiries>>
        /\ calm \in BOOLEAN /\ cookie \in BOOLEAN
    BY VisitType DEF VisitInv, TypeOK, HandlerReturns, At
  <1>2. PICK grant \in BOOLEAN :
          /\ v.grant \/ (v.brings = "valid" /\ calm) => grant
          /\ Becomes(t, [v EXCEPT !.where = "owner", !.grant = grant])
    BY <1>1 DEF HandlerReturns, Resolved
  <1> DEFINE w == [v EXCEPT !.where = "owner", !.grant = grant]
  <1>3. /\ w \in Visit
        /\ w.where = "owner"
        /\ w.brings = v.brings
        /\ w.grant = grant
        /\ w.sentCookie = v.sentCookie
        /\ w.clears = v.clears
        /\ w.render = v.render
        /\ w.redirect = v.redirect
        /\ w.login = v.login
    BY <1>1 DEF Visit, Where
  <1>4. Becomes(t, w)
    BY <1>2
  <1> HIDE DEF v, w
  <1>5. Passed(w, route[t]) /\ Deferring(w, route[t]) /\ LoggingIn(w, route[t]) /\ Offered(w, route[t])
    BY <1>1, <1>2, <1>3 DEF VisitFits, Passed, Deferring, LoggingIn, Offered, Guarded
  <1>6. Calm(w, route[t], credential, cookie)
    BY <1>1, <1>2, <1>3 DEF VisitFits, Calm, Requesting
  <1>7. Alone(t) => Single(w, route[t], cookie)
    BY <1>1, <1>3 DEF VisitFits, Single, Requesting
  <1>8. calm /\ cookie => credential = "valid"
    BY <1>1 DEF VisitFits, Calm
  <1> QED
    BY <1>1, <1>3, <1>4, <1>5, <1>6, <1>7, <1>8, TypedStep, OwnVisitStep DEF VisitFits

\* Only who came to an unprotected page has no grant where the owner is checked.
LEMMA CheckOwnerStep ==
    ASSUME VisitInv, NEW t \in Open, CheckOwner(t)
    PROVE  VisitInv'
  <1> DEFINE v == visit[t]
  <1>1. /\ v \in Visit /\ route[t] \in Route /\ v.where = "owner"
        /\ VisitFits(t, v, credential, cookie)
        /\ UNCHANGED <<userVars, credential, expiries>>
    BY VisitType DEF VisitInv, CheckOwner, At
  <1>2. PICK x \in route[t].owner :
          IF v.grant \/ v.brings = "absent"
          THEN IF IsOwner(t, x) THEN Replies(t, "shown")
               ELSE Goes(t, "filter") /\ UNCHANGED cookie
          ELSE Replies(t, "refused")
    BY DEF CheckOwner
  <1>3. CASE Replies(t, "shown") /\ IsOwner(t, x)
    BY <1>1, <1>3, OwnerDecides, ReplyStep
  <1>4. CASE Replies(t, "refused") /\ ~v.grant
    BY <1>1, <1>4, ReplyStep DEF VisitFits, Passed, Calm, Guarded, Requesting, Visit
  <1>5. CASE Goes(t, "filter") /\ UNCHANGED cookie /\ ~IsOwner(t, x)
    <2> DEFINE w == [v EXCEPT !.where = "filter"]
    <2>1. /\ w.where = "filter"
          /\ w.brings = v.brings
          /\ w.sentCookie = v.sentCookie
          /\ w.clears = v.clears
          /\ w.render = v.render
          /\ w.redirect = v.redirect
          /\ w.login = v.login
      BY <1>1, Moved DEF Where
    <2>2. calm /\ Entitled(route[t]) => v.brings # "valid"
      BY <1>1, <1>5, OwnerDecides DEF VisitFits, Calm, Entitled
    <2> HIDE DEF v, w
    <2>3. Passed(w, route[t]) /\ Deferring(w, route[t]) /\ LoggingIn(w, route[t]) /\ Offered(w, route[t])
      BY <1>1, <2>1 DEF VisitFits, Passed, Deferring, LoggingIn, Offered, Guarded
    <2>4. Calm(w, route[t], credential, cookie)
      BY <1>1, <2>1, <2>2 DEF VisitFits, Calm, Requesting
    <2>5. Alone(t) => Single(w, route[t], cookie)
      BY <1>1, <2>1 DEF VisitFits, Single, Requesting
    <2>6. VisitFits(t, w, credential, cookie)
      BY <2>3, <2>4, <2>5 DEF VisitFits
    <2> QED
      BY <1>1, <1>5, <2>6, MoveStep DEF Where, v, w
  <1> QED
    BY <1>2, <1>3, <1>4, <1>5

LEMMA RedirectElsewhereStep ==
    ASSUME VisitInv, NEW t \in Open, RedirectElsewhere(t)
    PROVE  VisitInv'
  BY ReplyStep DEF RedirectElsewhere, At

LEMMA RefuseStep ==
    ASSUME VisitInv, NEW t \in Open, Refuse(t)
    PROVE  VisitInv'
  <1>1. /\ visit[t] \in Visit /\ route[t] \in Route /\ visit[t].where = "filter"
        /\ VisitFits(t, visit[t], credential, cookie)
    BY VisitType DEF VisitInv, Refuse, At
  <1>2. /\ visit[t].login = 0 /\ Protected(route[t]) /\ Ordinary(route[t])
             /\ route[t].render /\ route[t].redirect = "none"
             /\ DefaultAuthorizationCallback(callbacks) # {}
           => visit[t].sentCookie
    BY <1>1, OrdinaryUrl DEF Refuse, StartsLogin, HasFilter, VisitFits, Deferring, Protected
  <1>3. calm /\ Entitled(route[t]) /\ Ordinary(route[t]) => visit[t].login = 0
    BY <1>1 DEF VisitFits, Calm, Requesting, Visit
  <1> QED
    BY <1>1, <1>2, <1>3, ReplyStep DEF Refuse

-----------------------------------------------------------------------------
(* The login and the browser *)

\* Who is sent to log in came without a cookie, and the reply leaves none.
LEMMA RedirectToLoginStep ==
    ASSUME VisitInv, NEW t \in Open, RedirectToLogin(t)
    PROVE  VisitInv'
  <1> DEFINE v      == visit[t]
             logins == IF v.login = 0 THEN 1 ELSE 2
             w      == [v EXCEPT !.where = "keycloak", !.login = logins]
  <1>1. /\ v \in Visit /\ route[t] \in Route /\ v.where = "filter" /\ v.render
        /\ VisitFits(t, v, credential, cookie)
        /\ credential \in Credential /\ calm \in BOOLEAN
        /\ UNCHANGED <<userVars, credential, expiries>>
        /\ IsSafeRedirect(PageUri(route[t].originalUrl))
    BY VisitType DEF VisitInv, TypeOK, RedirectToLogin, StartsLogin, At
  <1>2. /\ w \in Visit
        /\ w.where = "keycloak"
        /\ w.brings = v.brings
        /\ w.sentCookie = v.sentCookie
        /\ w.render = v.render
        /\ w.login = IF v.login = 0 THEN 1 ELSE 2
    <2>1. logins \in 0..2
      OBVIOUS
    <2>2. logins = IF v.login = 0 THEN 1 ELSE 2
      OBVIOUS
    <2>3. v \in Visit
      BY <1>1
    <2> HIDE DEF logins, v
    <2>4. w \in Visit /\ w.login = logins
      BY <2>1, <2>3 DEF Visit, Where
    <2>5. w.where = "keycloak" /\ w.brings = v.brings /\ w.sentCookie = v.sentCookie /\ w.render = v.render
      BY <2>3 DEF Visit
    <2> QED
      BY <2>2, <2>4, <2>5
  <1>3. Becomes(t, w)
    BY DEF RedirectToLogin
  <1>4. Protected(route[t]) /\ ~v.sentCookie /\ v.clears
    BY <1>1 DEF VisitFits, Deferring
  <1>5. ~cookie' /\ cookie' \in BOOLEAN
    <2>1. cookie' = (cookie /\ ~v.clears)
      BY DEF RedirectToLogin
    <2> QED
      BY <1>4, <2>1, Zenon
  <1> HIDE DEF v, w
  <1>6. Passed(w, route[t]) /\ Deferring(w, route[t]) /\ LoggingIn(w, route[t]) /\ Offered(w, route[t])
    BY <1>1, <1>2, <1>4 DEF VisitFits, Passed, Deferring, LoggingIn, Offered, Guarded
  <1>7. Calm(w, route[t], credential', cookie')
    BY <1>1, <1>2, <1>4, <1>5 DEF VisitFits, Calm, Requesting, Visit
  <1>8. Alone(t) => Single(w, route[t], cookie')
    BY <1>1, <1>2, <1>4, <1>5 DEF VisitFits, Single, Requesting, Visit
  <1>9. /\ credential' \in Credential
        /\ calm /\ credential = "valid" => credential' = "valid"
    BY <1>1
  <1> QED
    BY <1>1, <1>2, <1>3, <1>5, <1>6, <1>7, <1>8, <1>9, OwnVisitStep DEF VisitFits

\* The user logs in or leaves, or the callback fails before it redeems the code.
LEMMA AwayStep ==
    ASSUME VisitInv, NEW t \in Open, LogIn(t) \/ Leave(t) \/ CallbackThrows(t)
    PROVE  VisitInv'
  <1> DEFINE v == visit[t]
  <1>1. /\ v \in Visit /\ route[t] \in Route /\ v.where \in {"keycloak", "callback"}
        /\ VisitFits(t, v, credential, cookie)
        /\ UNCHANGED <<userVars, credential, cookie, expiries>>
    BY VisitType DEF VisitInv, LogIn, Leave, CallbackThrows, At
  <1>2. PICK where \in {"callback", "left", "refused"} :
          /\ Goes(t, where)
          /\ where = "refused" => ~(calm /\ Ordinary(route[t]))
    BY <1>1, OrdinaryUrl DEF LogIn, Leave, CallbackThrows, CodeRedeemable
  <1> DEFINE w == [v EXCEPT !.where = where]
  <1>3. /\ w.where = where
        /\ w.brings = v.brings
        /\ w.sentCookie = v.sentCookie
        /\ w.render = v.render
        /\ w.login = v.login
    BY <1>1, Moved DEF Where, Ends
  <1> HIDE DEF v, w
  <1>4. Passed(w, route[t]) /\ Deferring(w, route[t]) /\ LoggingIn(w, route[t]) /\ Offered(w, route[t])
    BY <1>1, <1>2, <1>3 DEF VisitFits, Passed, Deferring, LoggingIn, Offered, Guarded, Visit
  <1>5. Calm(w, route[t], credential, cookie)
    BY <1>1, <1>2, <1>3 DEF VisitFits, Calm, Requesting
  <1>6. Alone(t) => Single(w, route[t], cookie)
    BY <1>1, <1>2, <1>3 DEF VisitFits, LoggingIn, Single, Requesting, Visit
  <1>7. VisitFits(t, w, credential, cookie)
    BY <1>4, <1>5, <1>6 DEF VisitFits
  <1> QED
    BY <1>1, <1>2, <1>7, MoveStep DEF Where, Ends, v, w

\* The default callback persists the session and returns to an ordinary page.
LEMMA CallbackRedeemsStep ==
    ASSUME VisitInv, NEW t \in Open, CallbackRedeems(t)
    PROVE  VisitInv'
  <1> DEFINE v == visit[t]
  <1>1. /\ v \in Visit /\ route[t] \in Route /\ v.where = "callback"
        /\ VisitFits(t, v, credential, cookie)
        /\ UNCHANGED <<userVars, expiries>>
        /\ calm \in BOOLEAN
    BY VisitType DEF VisitInv, TypeOK, CallbackRedeems, At
  <1>2. PICK callback \in DefaultAuthorizationCallback(callbacks) :
          /\ Goes(t, Destination(t, callback))
          /\ credential' = IF callback.persistSession THEN "valid" ELSE credential
          /\ cookie' = (cookie \/ Destination(t, callback) # "refused")
    BY DEF CallbackRedeems
  <1>3. credential' = "valid"
    BY <1>2, DefaultEligible DEF Eligible
  <1>4. /\ Destination(t, callback) \in {"returning", "elsewhere", "refused"}
        /\ Ordinary(route[t]) => Destination(t, callback) = "returning"
    BY <1>1, <1>2, OrdinaryUrl, DefaultEligible DEF Destination, Eligible
  <1> DEFINE where == Destination(t, callback)
             w     == [v EXCEPT !.where = where]
  <1> HIDE DEF where
  <1>5. /\ w \in Visit
        /\ w.where = where
        /\ w.brings = v.brings
        /\ w.sentCookie = v.sentCookie
        /\ w.render = v.render
        /\ w.login = v.login
        /\ where \in {"returning", "elsewhere", "refused"}
        /\ Ordinary(route[t]) => where = "returning"
    <2>1. where \in {"returning", "elsewhere", "refused"} /\ (Ordinary(route[t]) => where = "returning")
      BY <1>4 DEF where
    <2> QED
      BY <1>1, <2>1, Moved DEF Where, Ends
  <1>6. Becomes(t, w)
    BY <1>2 DEF Goes, where
  <1>7. cookie' \in BOOLEAN /\ (where = "returning" => cookie')
    <2>1. cookie' = (cookie \/ where # "refused")
      BY <1>2 DEF where
    <2>2. where = "returning" => where # "refused"
      OBVIOUS
    <2> QED
      BY <2>1, <2>2, Zenon
  <1> HIDE DEF v, w
  <1>8. v.login > 0 /\ Protected(route[t])
    BY <1>1 DEF VisitFits, LoggingIn
  <1>9. Passed(w, route[t]) /\ Deferring(w, route[t]) /\ LoggingIn(w, route[t]) /\ Offered(w, route[t])
    BY <1>1, <1>5, <1>8 DEF VisitFits, Passed, Deferring, LoggingIn, Offered, Guarded, Visit
  <1>10. Calm(w, route[t], credential', cookie')
    BY <1>1, <1>3, <1>5 DEF VisitFits, Calm, Requesting
  <1>11. Alone(t) => Single(w, route[t], cookie')
    BY <1>1, <1>5, <1>7, <1>8 DEF VisitFits, Single, Requesting, Visit
  <1>12. credential' \in Credential
    BY <1>3 DEF Credential
  <1> QED
    BY <1>1, <1>3, <1>5, <1>6, <1>7, <1>9, <1>10, <1>11, <1>12, OwnVisitStep DEF VisitFits

\* A new request, of the same visit or of another, carries what the browser has.
LEMMA RequestStep ==
    ASSUME VisitInv, NEW t \in Open, Follow(t) \/ VisitAgain(t)
    PROVE  VisitInv'
  <1> DEFINE v == visit[t]
  <1>1. /\ v \in Visit /\ VisitFits(t, v, credential, cookie)
        /\ UNCHANGED <<userVars, credential, cookie, expiries>>
        /\ calm \in BOOLEAN /\ cookie \in BOOLEAN /\ credential \in Credential
    BY VisitType DEF VisitInv, TypeOK, Follow, VisitAgain
  <1>2. PICK logins \in 0..2 :
          /\ Becomes(t, Request(logins))
          /\ \/ v.where = "returning" /\ logins = v.login
             \/ v.where \in Ends /\ logins = 0
    BY <1>1 DEF Follow, VisitAgain, At, Visit
  <1> DEFINE w == Request(logins)
  <1>3. /\ w \in Visit
        /\ w.where = "middleware"
        /\ w.brings = credential
        /\ w.sentCookie = cookie
        /\ w.render = FALSE
        /\ w.login = logins
    BY <1>1 DEF Request, Visit, Where
  <1> HIDE DEF v, w
  <1>4. Passed(w, route[t]) /\ Deferring(w, route[t]) /\ LoggingIn(w, route[t]) /\ Offered(w, route[t])
    BY <1>3 DEF Passed, Deferring, LoggingIn, Offered, Guarded
  <1>5. Calm(w, route[t], credential, cookie)
    BY <1>1, <1>2, <1>3 DEF VisitFits, Calm
  <1>6. Alone(t) => Single(w, route[t], cookie)
    BY <1>1, <1>2, <1>3 DEF VisitFits, LoggingIn, Single, Requesting, Ends
  <1>7. calm /\ cookie => credential = "valid"
    BY <1>1 DEF VisitFits, Calm
  <1> QED
    BY <1>1, <1>2, <1>3, <1>4, <1>5, <1>6, <1>7, TypedStep, OwnVisitStep DEF VisitFits, w

\* Credentials expire only where calm is not claimed.
LEMMA ExpireStep ==
    ASSUME VisitInv, Expire
    PROVE  VisitInv'
  <1>1. /\ ~calm /\ UNCHANGED <<userVars, cookie>> /\ UNCHANGED <<Open, route>>
        /\ visit' = [t \in Open |-> [visit[t] EXCEPT !.brings = IF @ = "valid" THEN "expired" ELSE @]]
    BY DEF Expire, userVars, Open
  <1>2. ASSUME NEW t \in Open
        PROVE  /\ visit'[t] \in Visit
               /\ visit'[t].where = visit[t].where
               /\ visit'[t].grant = visit[t].grant
               /\ visit'[t].sentCookie = visit[t].sentCookie
               /\ visit'[t].clears = visit[t].clears
               /\ visit'[t].render = visit[t].render
               /\ visit'[t].redirect = visit[t].redirect
               /\ visit'[t].login = visit[t].login
    BY <1>1, VisitType DEF VisitInv, Visit, Credential
  <1>3. TypeOK'
    <2>1. visit' \in [Open -> Visit]
      BY <1>1, <1>2
    <2>2. expiries' \in 0..MaxExpiries /\ credential' \in Credential
      BY PageVisitAssumption DEF VisitInv, TypeOK, Expire, Credential
    <2> QED
      BY <1>1, <2>1, <2>2 DEF VisitInv, TypeOK, userVars
  <1>4. ASSUME NEW t \in Open
        PROVE  VisitFits(t, visit'[t], credential', cookie')
    <2>1. VisitFits(t, visit[t], credential, cookie)
      BY DEF VisitInv
    <2> QED
      BY <1>1, <1>2, <2>1
      DEF VisitFits, Passed, Deferring, LoggingIn, Offered, Calm, Single
  <1>5. \A t \in Open' : VisitFits(t, visit[t], credential, cookie)'
    BY <1>1, <1>4
    DEF VisitFits, Passed, Deferring, LoggingIn, Offered, Calm, Single, userVars, Open, Alone,
        RolesGranted, ScopesGranted, OwnerGranted, Entitled, Ordinary, Protected, RequiredScopes
  <1> QED
    BY <1>3, <1>5 DEF VisitInv

-----------------------------------------------------------------------------
(* The invariant holds *)

LEMMA VisitInvInit ==
    Init => VisitInv
  <1> SUFFICES ASSUME Init
               PROVE  VisitInv
    OBVIOUS
  <1>1. PICK application \in Applications :
          route = application.routes /\ callbacks = application.callbacks
    BY DEF Init
  <1>2. /\ held \subseteq Roles /\ named \in BOOLEAN /\ permitted \subseteq Scopes
        /\ owns \in BOOLEAN /\ calm \in BOOLEAN /\ credential \in Credential
    BY DEF Init
  <1>3. ~cookie /\ cookie \in BOOLEAN
    BY DEF Init
  <1>4. visit = [t \in Open |-> Request(0)] /\ expiries = 0
    BY DEF Init
  <1> DEFINE v == Request(0)
  <1>5. /\ v \in Visit
        /\ v.where = "middleware"
        /\ ~v.sentCookie
        /\ v.render = FALSE
        /\ v.login = 0
    BY <1>2, <1>3 DEF Request, Visit, Where
  <1> HIDE DEF v
  <1>6. TypeOK
    BY <1>1, <1>2, <1>3, <1>4, <1>5, PageVisitAssumption DEF TypeOK, Open, v
  <1>7. ASSUME NEW t \in Open
        PROVE  VisitFits(t, v, credential, cookie)
    BY <1>3, <1>5
    DEF VisitFits, Passed, Deferring, LoggingIn, Offered, Calm, Single, Guarded
  <1> QED
    BY <1>4, <1>6, <1>7 DEF VisitInv, v

LEMMA VisitInvStep ==
    VisitInv /\ [Next]_vars => VisitInv'
  <1> SUFFICES ASSUME VisitInv, [Next]_vars
               PROVE  VisitInv'
    OBVIOUS
  <1>1. CASE UNCHANGED vars
    <2>1. UNCHANGED <<userVars, credential, cookie, visit, expiries>> /\ UNCHANGED Open
      BY <1>1 DEF vars, userVars, Open
    <2>2. TypeOK'
      BY <2>1 DEF VisitInv, TypeOK, userVars
    <2>3. \A t \in Open' : VisitFits(t, visit[t], credential, cookie)'
      BY <2>1
      DEF VisitInv, VisitFits, Passed, Deferring, LoggingIn, Offered, Calm, Single, userVars, Alone,
          RolesGranted, ScopesGranted, OwnerGranted, Entitled, Ordinary, Protected, RequiredScopes
    <2> QED
      BY <2>2, <2>3 DEF VisitInv
  <1>2. ASSUME NEW t \in Open, Handle(t)
        PROVE  VisitInv'
    BY <1>2, MiddlewareStep, GuardSkipsStep, GuardDecidesStep, ResourceStep, ShowStep,
       HandlerFailsStep, HandlerReturnsStep, CheckOwnerStep, RedirectElsewhereStep,
       RedirectToLoginStep, RefuseStep, CallbackRedeemsStep, AwayStep, RequestStep
    DEF Handle
  <1>3. ASSUME NEW t \in Open, LogIn(t) \/ Leave(t) \/ VisitAgain(t)
        PROVE  VisitInv'
    BY <1>3, AwayStep, RequestStep
  <1>4. CASE Expire
    BY <1>4, ExpireStep
  <1> QED
    BY <1>1, <1>2, <1>3, <1>4 DEF Next

-----------------------------------------------------------------------------
(* Theorems *)

\* At every stage of a visit the guards behind it have decided what the
\* decorators say, and the flags, the cookie and the credential fit the stage.
THEOREM VisitInvariant ==
    Spec => []VisitInv
  BY VisitInvInit, VisitInvStep, PTL DEF Spec

\* Requests, cookies and credentials keep the types the handlers rely on.
THEOREM PageVisitTypeCorrect ==
    Spec => []TypeOK
  <1>1. VisitInv => TypeOK
    BY DEF VisitInv
  <1> QED
    BY <1>1, VisitInvariant, PTL

\* No page is shown to who lacks a role or a permission it demands or does not
\* own what it shows, however often the guards look at the grant, and whatever
\* expires, fails or is done by other tabs in between.
THEOREM OnlyEntitledSeePages ==
    Spec => []ShownToEntitled
  <1>1. ASSUME VisitInv, NEW t \in Open, At(t, "shown")
        PROVE  /\ RolesGranted(route[t]) /\ ScopesGranted(route[t]) /\ OwnerGranted(route[t])
               /\ NeedsUser(route[t]) => named
    <2>1. Passed(visit[t], route[t]) /\ visit[t].where = "shown"
      BY <1>1 DEF VisitInv, VisitFits, At
    <2> QED
      BY <2>1 DEF Passed, NeedsUser, Protected, RequiredScopes
  <1>2. VisitInv => ShownToEntitled
    BY <1>1 DEF ShownToEntitled
  <1> QED
    BY <1>2, VisitInvariant, PTL

\* Where nothing fails, the guards and the filter turn down nobody who is
\* entitled to the page and brings a valid grant, and a login from the page ends
\* at the page.
THEOREM EntitledAreServed ==
    Spec => []EntitledIsServed
  <1>1. ASSUME VisitInv, NEW t \in Open, calm, Ordinary(route[t]), Entitled(route[t])
        PROVE  /\ ~(At(t, "filter") /\ visit[t].brings = "valid")
               /\ ~(visit[t].where \in {"refused", "elsewhere"} /\ visit[t].login > 0)
    BY <1>1 DEF VisitInv, VisitFits, Calm, At
  <1>2. VisitInv => EntitledIsServed
    BY <1>1 DEF EntitledIsServed
  <1> QED
    BY <1>2, VisitInvariant, PTL

\* Who is refused at an ordinary page that offers a login had a cookie of another
\* tab's login, which, where nothing fails, has left the user logged in.
THEOREM LoginIsOffered ==
    Spec => []LoginOffered
  <1>1. ASSUME VisitInv, NEW t \in Open,
               At(t, "refused"), visit[t].login = 0,
               Ordinary(route[t]), HasFilter(t), ~route[t].public,
               route[t].render, route[t].redirect = "none",
               DefaultAuthorizationCallback(callbacks) # {}
        PROVE  ~Alone(t) /\ (calm => credential = "valid")
    <2>1. /\ Offered(visit[t], route[t]) /\ Calm(visit[t], route[t], credential, cookie)
          /\ Alone(t) => Single(visit[t], route[t], cookie)
      BY <1>1 DEF VisitInv, VisitFits
    <2>2. visit[t].where = "refused" /\ Protected(route[t])
      BY <1>1 DEF At, Protected, HasFilter
    <2>3. visit[t].sentCookie
      BY <1>1, <2>1, <2>2 DEF Offered
    <2> QED
      BY <1>1, <2>1, <2>2, <2>3 DEF Calm, Single
  <1>2. VisitInv => LoginOffered
    BY <1>1 DEF LoginOffered
  <1> QED
    BY <1>2, VisitInvariant, PTL

\* The redirect_from cookie keeps a visit from being sent to log in twice; with
\* other tabs about, it still keeps whom the page is for from it.
THEOREM OneLogin ==
    Spec => []OneLoginPerVisit
  <1>1. ASSUME VisitInv, NEW t \in Open, visit[t].login = 2
        PROVE  ~Alone(t) /\ ~(calm /\ Entitled(route[t]))
    BY <1>1 DEF VisitInv, VisitFits, Calm, Single
  <1>2. VisitInv => OneLoginPerVisit
    BY <1>1 DEF OneLoginPerVisit
  <1> QED
    BY <1>2, VisitInvariant, PTL

=============================================================================
