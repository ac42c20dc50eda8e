------------------------------- MODULE LoginFlow -------------------------------
(***************************************************************************)
(* The authorization code login as browsers, this library's handlers, the  *)
(* express-session store and Keycloak run it together:                     *)
(*                                                                         *)
(*   UnauthorizedFilter.catch     mints a state, redirects to Keycloak     *)
(*   Keycloak                     authenticates and issues a code          *)
(*   handleAuthorizationCallback  verifies the state, spends the code,     *)
(*                                keeps the tokens in the session          *)
(*   KeycloakService.logout       revokes, then destroys the session       *)
(*   clearAuthState               drops the pending states                 *)
(*                                                                         *)
(* A handler is cut at its awaits.  express-session gives every request    *)
(* its own copy of the record, which is written back as a whole when the   *)
(* reply is sent and the copy was changed, so the copy is part of the      *)
(* request's state.                                                        *)
(***************************************************************************)
EXTENDS AuthState, Sequences

CONSTANTS Browsers,          \* cookie jars: each has at most one session
          Tabs,              \* requests one browser can have in flight
          Codes,             \* authorization codes Keycloak may issue
          Kinds,             \* the requests browsers send
          SessionInstalled,  \* is express-session in front of the handlers?
          RequireState,      \* requireAuthorizationState / requireState
          PersistSession,    \* persistSession of the callback
          LossyReplies,      \* may a reply be lost on its way to the browser?
          MaxLogins,         \* bound: logins started
          MaxClock           \* bound: ticks

ASSUME SwitchAssumption ==
    /\ SessionInstalled \in BOOLEAN
    /\ RequireState \in BOOLEAN
    /\ PersistSession \in BOOLEAN
    /\ LossyReplies \in BOOLEAN
ASSUME BoundAssumption == MaxLogins \in Nat /\ MaxClock \in Nat

VARIABLES clock,      \* Date.now(), in ticks
          logins,     \* the states minted so far: whose, until when, and
                      \* how often accepted (2: more than once)
          delivered,  \* the logins whose redirect reached the browser
          session,    \* the session record of each browser in the store
          cookie,     \* the kc_auth_state cookie of each browser
          req,        \* the request each tab has in flight
          codeState,  \* the state each issued code is bound to
          redeemed,   \* the codes Keycloak has exchanged
          loggedOut   \* the codes whose tokens a logout has destroyed

keycloakVars == <<codeState, redeemed>>
historyVars == <<logins, delivered, loggedOut>>
vars == <<clock, session, cookie, req, keycloakVars, historyVars>>

-----------------------------------------------------------------------------
(* Types *)

Login == [browser: Browsers, expiresAt: Nat, uses: 0..2]

\* tokens: the code whose grant the session holds, if any
Session == [exists: BOOLEAN, pending: SUBSET PendingState, tokens: SUBSET Codes]

Phase == {"idle", "login", "redirect", "callback", "exchange", "granted",
          "logout", "revoked", "clear", "respond"}

\* link: is the record this request loaded still the browser's session?
Request == [phase: Phase, link: {"current", "fresh", "orphan"}, sess: Session,
            dirty: BOOLEAN, jar: SUBSET PendingState, state: Nat,
            code: SUBSET Codes]

NoSession == [exists |-> FALSE, pending |-> {}, tokens |-> {}]

Idle == [phase |-> "idle", link |-> "fresh", sess |-> NoSession, dirty |-> FALSE,
         jar |-> {}, state |-> Missing, code |-> {}]

Init ==
    /\ clock = 0
    /\ logins = <<>>
    /\ delivered = {}
    /\ session = [b \in Browsers |-> NoSession]
    /\ cookie = [b \in Browsers |-> {}]
    /\ req = [b \in Browsers |-> [t \in Tabs |-> Idle]]
    /\ codeState = [c \in Codes |-> Missing]
    /\ redeemed = {}
    /\ loggedOut = {}

\* The request in flight in this tab goes on as r.
Becomes(b, t, r) == req' = [req EXCEPT ![b][t] = r]

GoTo(b, t, phase) == Becomes(b, t, [req[b][t] EXCEPT !.phase = phase])

\* A handler changes the copy of the session record its request holds.
WithPending(r, states) == [r EXCEPT !.sess = [@ EXCEPT !.pending = states]]
WithTokens(r, tokens) == [r EXCEPT !.sess = [@ EXCEPT !.tokens = tokens]]

-----------------------------------------------------------------------------
(* Requests arrive *)

\* express-session: the stored record, or a new one when there is none
LoadedSession(b) ==
    IF session[b].exists THEN session[b]
    ELSE [exists |-> SessionInstalled, pending |-> {}, tokens |-> {}]

\* A browser no longer sends a cookie whose maxAge has passed.
SentCookie(b) == Unexpired(cookie[b], clock)

Send(b, t, phase, state, code) ==
    /\ req[b][t].phase = "idle"
    /\ Becomes(b, t,
         [phase |-> phase, link |-> IF session[b].exists THEN "current" ELSE "fresh",
          sess |-> LoadedSession(b), dirty |-> FALSE, jar |-> SentCookie(b),
          state |-> state, code |-> code])
    /\ UNCHANGED <<clock, session, cookie, keycloakVars, historyVars>>

LoginsInFlight ==
    Cardinality({w \in Browsers \X Tabs : req[w[1]][w[2]].phase = "login"})

\* A page the guards deny, which the filter turns into a login
SendLogin(b, t) ==
    /\ "login" \in Kinds
    /\ Len(logins) + LoginsInFlight < MaxLogins
    /\ Send(b, t, "login", Missing, {})

\* A callback url is opened: as Keycloak made it, without its state, or with
\* an error in place of the code (the user cancelled).  Any browser may open
\* it, any number of times.
SendCallback(b, t) ==
    /\ "callback" \in Kinds
    /\ \/ \E c \in Codes : /\ codeState[c] # Missing
                           /\ \E state \in {codeState[c], Missing} :
                                 Send(b, t, "callback", state, {c})
       \/ \E state \in delivered : Send(b, t, "callback", state, {})

SendLogout(b, t) == "logout" \in Kinds /\ Send(b, t, "logout", Missing, {})

SendClear(b, t) == "clear" \in Kinds /\ Send(b, t, "clear", Missing, {})

-----------------------------------------------------------------------------
(* The login redirect: UnauthorizedFilter.catch and createAuthState *)

\* mutant: the state handed out is not the one that was kept
NextValueSkipped == Len(logins) + 2

\* 256 random bits: a value no login had before
NextValue == Len(logins) + 1

StartLogin(b, t) ==
    LET r     == req[b][t]
        entry == [value |-> NextValue, expiresAt |-> clock + Ttl]
        bound == IF r.sess.exists
                 THEN WithPending(r, AddPending(r.sess.pending, entry, clock))
                 ELSE [r EXCEPT !.jar = {entry}]
    IN  /\ r.phase = "login"
        /\ logins' = Append(logins, [browser |-> b, expiresAt |-> clock + Ttl, uses |-> 0])
        /\ Becomes(b, t,
             [bound EXCEPT !.phase = "redirect", !.dirty = TRUE, !.state = NextValue])
        /\ UNCHANGED <<clock, session, cookie, keycloakVars, delivered, loggedOut>>

-----------------------------------------------------------------------------
(* The callback: handleAuthorizationCallback *)

\* consumeAuthState looks at the cookie only when there is no session.
Candidates(r) == r.sess.pending \cup (IF r.sess.exists THEN {} ELSE r.jar)

\* mutants: the value stays usable; the tokens go with the burned value
ConsumedNothing(r) == r

ConsumedWithTokens(r) ==
    IF Matches(Candidates(r), r.state)
    THEN [r EXCEPT !.sess = [@ EXCEPT !.pending = Burn(@, r.state), !.tokens = {}],
                   !.dirty = TRUE]
    ELSE r

\* consumeAuthState burns a value it finds, accepted or expired.
Consumed(r) ==
    IF r.state # Missing /\ Matches(Candidates(r), r.state)
    THEN [WithPending(r, Burn(r.sess.pending, r.state)) EXCEPT !.jar = {}, !.dirty = TRUE]
    ELSE r

UsedOnceMore(login) == [login EXCEPT !.uses = IF @ = 0 THEN 1 ELSE 2]

\* mutant: a callback without a state is let through
ProceedsWithoutState(verdict, code) ==
    (verdict \in {"valid", "missing"} \/ ~RequireState) /\ code # {}

\* verifyAuthorizationState does not throw, and there is a code to spend.
Proceeds(verdict, code) == (verdict = "valid" \/ ~RequireState) /\ code # {}

\* Up to the first await: verifyAuthorizationState, then the missing code check
VerifyState(b, t) ==
    LET r       == req[b][t]
        verdict == Verdict(Candidates(r), r.state, clock)
    IN  /\ r.phase = "callback"
        /\ logins' = IF verdict = "valid"
                     THEN [logins EXCEPT ![r.state] = UsedOnceMore(@)]
                     ELSE logins
        /\ Becomes(b, t, [Consumed(r) EXCEPT
             !.phase = IF Proceeds(verdict, r.code) THEN "exchange" ELSE "respond"])
        /\ UNCHANGED <<clock, session, cookie, keycloakVars, delivered, loggedOut>>

\* Keycloak exchanges a code once; its answer may be lost.
RedeemCode(b, t) ==
    /\ req[b][t].phase = "exchange"
    /\ req[b][t].code \cap redeemed = {}
    /\ redeemed' = redeemed \cup req[b][t].code
    /\ \E phase \in {"granted", "respond"} : GoTo(b, t, phase)
    /\ UNCHANGED <<clock, session, cookie, codeState, historyVars>>

\* mutant: a failed exchange never settles
RefuseCodeSilently(b, t) == req[b][t].phase = "exchange" /\ UNCHANGED vars

\* The token endpoint refuses the code, or cannot be reached.
RefuseCode(b, t) ==
    /\ req[b][t].phase = "exchange"
    /\ GoTo(b, t, "respond")
    /\ UNCHANGED <<clock, session, cookie, keycloakVars, historyVars>>

\* createGrant has validated the tokens: sessionSetTokens.  The destination is
\* resolved only now, and a bad one leaves the tokens where they are.
PersistGrant(b, t) ==
    LET r == req[b][t] IN
    /\ r.phase = "granted"
    /\ IF PersistSession /\ r.sess.exists
       THEN Becomes(b, t, [WithTokens(r, r.code) EXCEPT !.phase = "respond", !.dirty = TRUE])
       ELSE GoTo(b, t, "respond")
    /\ UNCHANGED <<clock, session, cookie, keycloakVars, historyVars>>

\* createGrant rejects the tokens of a code that is now spent.
RejectGrant(b, t) ==
    /\ req[b][t].phase = "granted"
    /\ GoTo(b, t, "respond")
    /\ UNCHANGED <<clock, session, cookie, keycloakVars, historyVars>>

-----------------------------------------------------------------------------
(* KeycloakService.logout and clearAuthState *)

\* A failed revocation is swallowed, so both outcomes go on the same way.
RevokeSession(b, t) ==
    /\ req[b][t].phase = "logout"
    /\ GoTo(b, t, "revoked")
    /\ UNCHANGED <<clock, session, cookie, keycloakVars, historyVars>>

\* mutant: the copy is still saved when the reply is sent
StillAttached(r) == [r EXCEPT !.phase = "respond", !.dirty = TRUE]

\* express-session drops req.session before the store destroys the record, so
\* nothing is saved at the end even if the store fails.
Detached(r) == [r EXCEPT !.phase = "respond", !.sess = NoSession, !.dirty = FALSE]

ClearSession(b, t) ==
    LET r == req[b][t] IN
    /\ r.phase = "revoked"
    /\ session' = IF r.link = "current" THEN [session EXCEPT ![b] = NoSession] ELSE session
    /\ loggedOut' = loggedOut \cup r.sess.tokens
    /\ Becomes(b, t, Detached(r))
    /\ UNCHANGED <<clock, cookie, keycloakVars, logins, delivered>>

FailToClearSession(b, t) ==
    /\ SessionInstalled
    /\ req[b][t].phase = "revoked"
    /\ Becomes(b, t, Detached(req[b][t]))
    /\ UNCHANGED <<clock, session, cookie, keycloakVars, historyVars>>

ClearPending(b, t) ==
    LET r == req[b][t] IN
    /\ r.phase = "clear"
    /\ Becomes(b, t, [WithPending(r, {}) EXCEPT
         !.phase = "respond", !.jar = {},
         !.dirty = r.link # "current" \/ r.sess.pending # {}])
    /\ UNCHANGED <<clock, session, cookie, keycloakVars, historyVars>>

-----------------------------------------------------------------------------
(* Replies.  A changed copy is written back whole.  A new session becomes   *)
(* the browser's when the reply that carries its id arrives, and cuts off   *)
(* the requests that loaded the session before it.                          *)

Saves(r, arrives) ==
    r.sess.exists /\ r.dirty /\ (r.link = "current" \/ (r.link = "fresh" /\ arrives))

Respond(b, t) ==
    LET r == req[b][t] IN
    /\ r.phase \in {"redirect", "respond"}
    /\ \E arrives \in {TRUE, ~LossyReplies} :
        LET adopts == Saves(r, arrives) /\ r.link = "fresh" IN
        /\ session' = IF Saves(r, arrives) THEN [session EXCEPT ![b] = r.sess] ELSE session
        /\ cookie' = IF arrives /\ r.dirty /\ ~r.sess.exists
                     THEN [cookie EXCEPT ![b] = r.jar] ELSE cookie
        /\ delivered' = IF arrives /\ r.phase = "redirect"
                        THEN delivered \cup {r.state} ELSE delivered
        /\ req' = [req EXCEPT ![b] = [u \in Tabs |->
             CASE u = t -> Idle
               [] u # t /\ adopts /\ req[b][u].link = "current" ->
                    [req[b][u] EXCEPT !.link = "orphan"]
               [] OTHER -> req[b][u]]]
    /\ UNCHANGED <<clock, keycloakVars, logins, loggedOut>>

-----------------------------------------------------------------------------
(* Environment *)

\* The user authenticates at Keycloak, which binds a code to the login.
Authenticate(c) ==
    /\ codeState[c] = Missing
    /\ \E s \in delivered : codeState' = [codeState EXCEPT ![c] = s]
    /\ UNCHANGED <<clock, session, cookie, req, redeemed, historyVars>>

Tick ==
    /\ clock < MaxClock
    /\ clock' = clock + 1
    /\ UNCHANGED <<session, cookie, req, keycloakVars, historyVars>>

Arrive(b, t) ==
    \/ SendLogin(b, t) \/ SendCallback(b, t) \/ SendLogout(b, t) \/ SendClear(b, t)

Handle(b, t) ==
    \/ StartLogin(b, t) \/ VerifyState(b, t)
    \/ RedeemCode(b, t) \/ RefuseCode(b, t) \/ PersistGrant(b, t) \/ RejectGrant(b, t)
    \/ RevokeSession(b, t) \/ ClearSession(b, t) \/ FailToClearSession(b, t)
    \/ ClearPending(b, t) \/ Respond(b, t)

Next ==
    \/ \E b \in Browsers, t \in Tabs : Arrive(b, t) \/ Handle(b, t)
    \/ \E c \in Codes : Authenticate(c)
    \/ Tick

Spec == Init /\ [][Next]_vars

\* Node keeps running a handler until it has answered.
FairSpec == Spec /\ \A b \in Browsers, t \in Tabs : WF_vars(Handle(b, t))

-----------------------------------------------------------------------------
(* Properties *)

TypeOK ==
    /\ clock \in Nat
    /\ logins \in Seq(Login)
    /\ delivered \subseteq 1..Len(logins)
    /\ session \in [Browsers -> Session]
    /\ cookie \in [Browsers -> SUBSET PendingState]
    /\ req \in [Browsers -> [Tabs -> Request]]
    /\ codeState \in [Codes -> Nat]
    /\ redeemed \subseteq Codes
    /\ loggedOut \subseteq Codes

\* authState.ts caps the pending list, "so a hostile client cannot grow the
\* session record without bound": in the store and in every copy.
PendingBounded ==
    \A b \in Browsers :
        /\ Cardinality(session[b].pending) <= MaxPending
        /\ \A t \in Tabs : Cardinality(req[b][t].sess.pending) <= MaxPending

\* The state binds a login to the browser that started it: with RequireState,
\* the tokens in a session come from a login of that very browser, whoever
\* opened the callback url, in whatever order the replies were sent.
LoginBinding ==
    RequireState =>
        \A b \in Browsers : \A c \in session[b].tokens :
            /\ codeState[c] \in 1..Len(logins)
            /\ logins[codeState[c]].browser = b

\* "Verification happens before the authorization code is spent": a code that
\* Keycloak has exchanged belongs to a state that was accepted.
VerifiedBeforeSpent ==
    RequireState => \A c \in redeemed : logins[codeState[c]].uses # 0

\* The session store makes a state "genuinely single use".
SingleUse == \A s \in 1..Len(logins) : logins[s].uses <= 1

\* A state is accepted only before it expires, and only in a callback that the
\* browser it was minted for has opened.
AcceptedFromOwner ==
    [][\A s \in 1..Len(logins) : logins'[s].uses # logins[s].uses =>
         /\ clock < logins[s].expiresAt
         /\ \E t \in Tabs : LET mine == req[logins[s].browser][t] IN
              mine.phase = "callback" /\ mine.state = s
                /\ mine # req'[logins[s].browser][t]
      ]_vars

\* A logout is final: no later write brings back the tokens it destroyed.
LogoutIsFinal == \A b \in Browsers : session[b].tokens \cap loggedOut = {}

\* The requests whose reply this step sends, when it changes b's record
Replying(b) ==
    {t \in Tabs : req[b][t].phase \in {"redirect", "respond"} /\ req'[b][t].phase = "idle"}

LogsOut(b, t) == req[b][t].phase = "revoked" /\ req'[b][t].phase = "respond"

\* "Several login flows can be in flight at once": a pending state leaves the
\* record because its own callback came, it expired, MaxPending logins of the
\* browser came after it, or the user cleared or logged out.
RetiresOwn(r, s) == r.phase = "respond" /\ r.state = s.value
ClearsAll(r) == r.phase = "respond" /\ r.state = Missing /\ r.code = {}
MakesRoom(r, s, kept) ==
    r.phase = "redirect" /\ Cardinality({p \in kept : p.value > s.value}) = MaxPending

LoginsKept ==
    [][\A b \in Browsers : \A s \in session[b].pending \ session'[b].pending :
         \/ s.expiresAt <= clock
         \/ \E t \in Tabs : LogsOut(b, t)
         \/ \E t \in Replying(b) :
              RetiresOwn(req[b][t], s) \/ ClearsAll(req[b][t])
                \/ MakesRoom(req[b][t], s, session'[b].pending)
      ]_vars

\* Tokens leave a session only through a logout or for those of a newer login.
TokensKept ==
    [][\A b \in Browsers :
         \/ session[b].tokens \subseteq session'[b].tokens
         \/ \E t \in Tabs : LogsOut(b, t)
         \/ \E t \in Replying(b) :
              req[b][t].code # {} /\ session'[b].tokens = req[b][t].code
      ]_vars

\* With one tab the view of a browser's record is the copy its request works
\* on, and the stored record when there is none.
TheTab == CHOOSE t \in Tabs : TRUE

Held(b) ==
    LET r == req[b][TheTab] IN
    {s.value : s \in IF r.sess.exists THEN r.sess.pending ELSE session[b].pending}

Tickets == INSTANCE LoginTickets WITH held <- [b \in Browsers |-> Held(b)]

\* One request at a time, the flow implements the tickets of LoginTickets.
ImplementsTickets == Tickets!Spec

\* Every request is answered: no branch of a handler is left waiting.
EveryRequestAnswered ==
    \A b \in Browsers, t \in Tabs : req[b][t].phase # "idle" ~> req[b][t].phase = "idle"

=============================================================================
