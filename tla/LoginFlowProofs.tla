---------------------------- MODULE LoginFlowProofs ----------------------------
(***************************************************************************)
(* Proofs about LoginFlow, for every set of browsers, tabs and codes, every *)
(* cap, every time to live and any number of concurrent requests.          *)
(*                                                                         *)
(* LoginBinding and VerifiedBeforeSpent are not inductive: what a reply    *)
(* writes comes from a copy taken earlier, and the owner of a state is     *)
(* looked up in the login that minted it.  The invariant below follows a   *)
(* state from the mint to the tokens: every pending state, stored or       *)
(* copied or in a cookie, belongs to the browser that carries it; a        *)
(* request that got past the verification carries an accepted state of its *)
(* own browser; its code is bound to that state.                           *)
(***************************************************************************)
EXTENDS LoginFlow, SequenceTheorems, TLAPS

\* These entries were minted for b.
Owned(minted, states, b) ==
    \A p \in states : /\ p.value \in 1..Len(minted)
                      /\ minted[p.value].browser = b

\* These codes were issued for logins of b.
Bound(minted, bound, codes, b) ==
    \A c \in codes : /\ bound[c] \in 1..Len(minted)
                     /\ minted[bound[c]].browser = b

\* What a request in flight for b carries: pending states of b, the code of the
\* state in its url, past the verification an accepted state of b, and tokens
\* of a login of b.
Fits(minted, bound, r, b) ==
    /\ Owned(minted, r.sess.pending, b)
    /\ Owned(minted, r.jar, b)
    /\ r.phase \in {"callback", "exchange", "granted"} =>
         \A c \in r.code : bound[c] # Missing /\ r.state \in {bound[c], Missing}
    /\ RequireState /\ r.phase \in {"exchange", "granted"} =>
         /\ r.state \in 1..Len(minted)
         /\ minted[r.state].browser = b
         /\ minted[r.state].uses # 0
    /\ RequireState => Bound(minted, bound, r.sess.tokens, b)

RequestsFit ==
    \A b \in Browsers, t \in Tabs : Fits(logins, codeState, req[b][t], b)

StoreFits ==
    \A b \in Browsers :
        /\ Owned(logins, session[b].pending, b)
        /\ Owned(logins, cookie[b], b)
        /\ RequireState => Bound(logins, codeState, session[b].tokens, b)

CodesKnown == \A c \in Codes : codeState[c] \in 0..Len(logins)

SpentVerified ==
    RequireState =>
        \A c \in redeemed : /\ codeState[c] \in 1..Len(logins)
                            /\ logins[codeState[c]].uses # 0

\* The redirect of a login carries a state that was minted.
RedirectsKnown ==
    \A b \in Browsers, t \in Tabs :
        req[b][t].phase = "redirect" => req[b][t].state \in 1..Len(logins)

LoginInv ==
    /\ TypeOK
    /\ RedirectsKnown
    /\ RequestsFit
    /\ StoreFits
    /\ CodesKnown
    /\ SpentVerified

-----------------------------------------------------------------------------
(* Type correctness.  RedirectsKnown comes along: a delivered login is one  *)
(* whose redirect was answered.                                             *)

TypeInv == TypeOK /\ RedirectsKnown

LEMMA LoadedSessionType ==
    ASSUME TypeOK, NEW b \in Browsers
    PROVE  LoadedSession(b) \in Session
  BY SwitchAssumption DEF TypeOK, LoadedSession, NoSession, Session

LEMMA IdleType == Idle \in Request
  BY DEF Idle, Request, Phase, NoSession, Session, Missing

\* Setting one tab's request to a request keeps the table of requests typed.
LEMMA ReqUpdateType ==
    ASSUME req \in [Browsers -> [Tabs -> Request]], NEW b \in Browsers, NEW t \in Tabs,
           NEW r \in Request
    PROVE  [req EXCEPT ![b][t] = r] \in [Browsers -> [Tabs -> Request]]
  OBVIOUS

LEMMA AddPendingType ==
    ASSUME NEW states \in SUBSET PendingState, NEW entry \in PendingState, NEW now \in Nat
    PROVE  AddPending(states, entry, now) \in SUBSET PendingState
  BY DEF AddPending, Newest, Unexpired

LEMMA SendType ==
    ASSUME TypeInv, NEW b \in Browsers, NEW t \in Tabs, NEW phase \in Phase \ {"redirect"},
           NEW state \in Nat, NEW code \in SUBSET Codes, Send(b, t, phase, state, code)
    PROVE  TypeInv'
  <1> DEFINE r == [phase |-> phase,
                   link |-> IF session[b].exists THEN "current" ELSE "fresh",
                   sess |-> LoadedSession(b), dirty |-> FALSE, jar |-> SentCookie(b),
                   state |-> state, code |-> code]
  <1>1. r \in Request
    BY LoadedSessionType DEF TypeInv, TypeOK, Request, SentCookie, Unexpired
  <1>2. req' = [req EXCEPT ![b][t] = r]
    BY DEF Send, Becomes
  <1> HIDE DEF r
  <1>3. req' \in [Browsers -> [Tabs -> Request]]
    BY <1>1, <1>2, ReqUpdateType DEF TypeInv, TypeOK
  <1>4. r.phase # "redirect"
    BY DEF r
  <1>5. TypeOK'
    BY <1>3 DEF TypeInv, TypeOK, Send, keycloakVars, historyVars
  <1>6. RedirectsKnown'
    BY <1>2, <1>4 DEF TypeInv, TypeOK, RedirectsKnown, Send, historyVars
  <1> QED
    BY <1>5, <1>6 DEF TypeInv

RestTyped ==
    /\ UNCHANGED <<clock, cookie, codeState, delivered>>
    /\ session' \in [Browsers -> Session]
    /\ redeemed' \subseteq Codes
    /\ loggedOut' \subseteq Codes

\* A handler that replaces its own request, and leaves the rest of the typed
\* state alone but for logins, which it may extend or update in place.
LEMMA OwnRequestType ==
    ASSUME TypeInv, NEW b \in Browsers, NEW t \in Tabs, NEW r \in Request,
           req' = [req EXCEPT ![b][t] = r],
           r.phase = "redirect" => r.state \in 1..Len(logins'),
           logins' \in Seq(Login), Len(logins) <= Len(logins'),
           RestTyped
    PROVE  TypeInv'
  <1>1. req' \in [Browsers -> [Tabs -> Request]]
    BY ReqUpdateType DEF TypeInv, TypeOK
  <1>2. Len(logins) \in Nat /\ Len(logins') \in Nat
    BY DEF TypeInv, TypeOK
  <1>3. TypeOK'
    BY <1>1, <1>2 DEF TypeInv, TypeOK, RestTyped
  <1>4. RedirectsKnown'
    <2> SUFFICES ASSUME NEW d \in Browsers, NEW u \in Tabs,
                        req'[d][u].phase = "redirect"
                 PROVE  req'[d][u].state \in 1..Len(logins')
      BY DEF RedirectsKnown
    <2>1. CASE d = b /\ u = t
      BY <2>1 DEF TypeInv, TypeOK
    <2>2. CASE ~(d = b /\ u = t)
      <3>1. req'[d][u] = req[d][u]
        BY <2>2 DEF TypeInv, TypeOK
      <3> QED
        BY <3>1, <1>2 DEF TypeInv, RedirectsKnown
    <2> QED
      BY <2>1, <2>2
  <1> QED
    BY <1>3, <1>4 DEF TypeInv

LEMMA PhaseType ==
    ASSUME NEW r \in Request, NEW phase \in Phase
    PROVE  [r EXCEPT !.phase = phase] \in Request
  BY DEF Request

LEMMA WithPendingType ==
    ASSUME NEW r \in Request, NEW states \in SUBSET PendingState
    PROVE  /\ WithPending(r, states) \in Request
           /\ WithPending(r, states).sess.pending = states
           /\ WithPending(r, states).sess.tokens = r.sess.tokens
           /\ WithPending(r, states).jar = r.jar
           /\ WithPending(r, states).state = r.state
           /\ WithPending(r, states).code = r.code
           /\ WithPending(r, states).phase = r.phase
           /\ WithPending(r, states).sess.exists = r.sess.exists
           /\ WithPending(r, states).link = r.link
           /\ WithPending(r, states).dirty = r.dirty
  BY DEF Request, WithPending, Session

LEMMA WithTokensType ==
    ASSUME NEW r \in Request, NEW tokens \in SUBSET Codes
    PROVE  /\ WithTokens(r, tokens) \in Request
           /\ WithTokens(r, tokens).sess.pending = r.sess.pending
           /\ WithTokens(r, tokens).sess.tokens = tokens
           /\ WithTokens(r, tokens).jar = r.jar
           /\ WithTokens(r, tokens).state = r.state
           /\ WithTokens(r, tokens).code = r.code
           /\ WithTokens(r, tokens).phase = r.phase
           /\ WithTokens(r, tokens).sess.exists = r.sess.exists
           /\ WithTokens(r, tokens).link = r.link
           /\ WithTokens(r, tokens).dirty = r.dirty
  BY DEF Request, WithTokens, Session

\* Consuming a state only ever takes pending states away.
LEMMA ConsumedType ==
    ASSUME NEW r \in Request
    PROVE  /\ Consumed(r) \in Request
           /\ Consumed(r).phase = r.phase
           /\ Consumed(r).state = r.state
           /\ Consumed(r).code = r.code
           /\ Consumed(r).sess.tokens = r.sess.tokens
           /\ Consumed(r).sess.pending \subseteq r.sess.pending
           /\ Consumed(r).jar \subseteq r.jar
  <1>1. /\ Burn(r.sess.pending, r.state) \in SUBSET PendingState
        /\ Burn(r.sess.pending, r.state) \subseteq r.sess.pending
    BY DEF Burn, Request, Session
  <1> HIDE DEF Burn
  <1> QED
    BY <1>1 DEF Consumed, Request, Session, WithPending

\* Accepting a login counts it, and leaves whose it is and until when alone.
LEMMA UsedOnceMoreType ==
    ASSUME NEW login \in Login
    PROVE  /\ UsedOnceMore(login) \in Login
           /\ UsedOnceMore(login).browser = login.browser
           /\ UsedOnceMore(login).expiresAt = login.expiresAt
           /\ UsedOnceMore(login).uses # 0
  BY DEF UsedOnceMore, Login

LEMMA AcceptType ==
    ASSUME NEW minted \in Seq(Login), NEW s \in 1..Len(minted)
    PROVE  LET after == [minted EXCEPT ![s] = UsedOnceMore(@)] IN
           /\ after \in Seq(Login)
           /\ Len(after) = Len(minted)
           /\ after[s].uses # 0
           /\ \A i \in 1..Len(minted) : /\ after[i].browser = minted[i].browser
                                        /\ after[i].expiresAt = minted[i].expiresAt
                                        /\ minted[i].uses # 0 => after[i].uses # 0
  <1>1. minted[s] \in Login
    OBVIOUS
  <1> DEFINE login == UsedOnceMore(minted[s])
             after == [minted EXCEPT ![s] = login]
  <1>2. /\ login \in Login /\ login.uses # 0
        /\ login.browser = minted[s].browser /\ login.expiresAt = minted[s].expiresAt
    BY <1>1, UsedOnceMoreType
  <1> HIDE DEF login
  <1>3. /\ after \in Seq(Login)
        /\ Len(after) = Len(minted)
        /\ after[s] = login
        /\ \A i \in 1..Len(minted) : i # s => after[i] = minted[i]
    BY <1>2
  <1> QED
    BY <1>2, <1>3 DEF login

LEMMA DetachedType ==
    ASSUME NEW r \in Request
    PROVE  Detached(r) \in Request /\ Detached(r).phase = "respond"
  BY DEF Detached, Request, Session, NoSession, Phase

\* No step breaks the types: requests keep their phases, sessions their shapes.
THEOREM TypeInvStep == TypeInv /\ [Next]_vars => TypeInv'
  <1> SUFFICES ASSUME TypeInv, [Next]_vars
               PROVE  TypeInv'
    OBVIOUS
  <1>0. /\ \A b \in Browsers, t \in Tabs : req[b][t] \in Request
        /\ Len(logins) \in Nat
    BY DEF TypeInv, TypeOK
  <1>01. logins \in Seq(Login)
    BY DEF TypeInv, TypeOK
  <1>1. ASSUME NEW b \in Browsers, NEW t \in Tabs, Arrive(b, t)
        PROVE  TypeInv'
    <2>1. CASE SendLogin(b, t)
      BY <2>1, SendType DEF SendLogin, Phase, Missing
    <2>2. CASE SendCallback(b, t)
      <3>1. CASE \E c \in Codes, state \in Nat : Send(b, t, "callback", state, {c})
        BY <3>1, SendType DEF Phase
      <3>2. CASE \E state \in delivered : Send(b, t, "callback", state, {})
        BY <3>2, SendType DEF Phase, TypeInv, TypeOK
      <3>3. \A c \in Codes : {codeState[c], Missing} \subseteq Nat
        BY DEF TypeInv, TypeOK, Missing
      <3> QED
        BY <2>2, <3>1, <3>2, <3>3 DEF SendCallback
    <2>3. CASE SendLogout(b, t)
      BY <2>3, SendType DEF SendLogout, Phase, Missing
    <2>4. CASE SendClear(b, t)
      BY <2>4, SendType DEF SendClear, Phase, Missing
    <2> QED
      BY <1>1, <2>1, <2>2, <2>3, <2>4 DEF Arrive
  <1>2. ASSUME NEW b \in Browsers, NEW t \in Tabs, StartLogin(b, t)
        PROVE  TypeInv'
    <2> DEFINE r == req[b][t]
               entry == [value |-> NextValue, expiresAt |-> clock + Ttl]
               states == AddPending(r.sess.pending, entry, clock)
               bound == IF r.sess.exists THEN WithPending(r, states)
                        ELSE [r EXCEPT !.jar = {entry}]
               started == [bound EXCEPT !.phase = "redirect", !.dirty = TRUE,
                                        !.state = NextValue]
    <2>1. entry \in PendingState /\ NextValue \in Nat
      BY <1>0, TtlAssumption DEF NextValue, PendingState, TypeInv, TypeOK
    <2>2. states \in SUBSET PendingState
      BY <2>1, <1>0, AddPendingType DEF Request, Session, TypeInv, TypeOK
    <2>3. Becomes(b, t, started)
      BY <1>2 DEF StartLogin
    <2> HIDE DEF entry, states
    <2>4. [r EXCEPT !.jar = {entry}] \in Request
      BY <1>0, <2>1 DEF Request
    <2>5. bound \in Request
      BY <1>0, <2>2, <2>4, WithPendingType
    <2> HIDE DEF bound
    <2>6. started \in Request /\ started.state = NextValue
      BY <2>1, <2>5 DEF Request, Phase
    <2> HIDE DEF started
    <2>7. logins' = Append(logins, [browser |-> b, expiresAt |-> clock + Ttl, uses |-> 0])
      BY <1>2 DEF StartLogin
    <2>8. [browser |-> b, expiresAt |-> clock + Ttl, uses |-> 0] \in Login
      BY TtlAssumption DEF Login, TypeInv, TypeOK
    <2>9. logins' \in Seq(Login) /\ Len(logins') = Len(logins) + 1
      BY <2>7, <2>8 DEF TypeInv, TypeOK
    <2>10. UNCHANGED <<clock, session, cookie, keycloakVars, delivered, loggedOut>>
      BY <1>2 DEF StartLogin
    <2>20. RestTyped
      BY <2>10 DEF RestTyped, keycloakVars, historyVars, TypeInv, TypeOK
    <2>21. /\ logins' \in Seq(Login)
           /\ Len(logins) <= Len(logins')
           /\ started.phase = "redirect" => started.state \in 1..Len(logins')
           /\ started \in Request
           /\ req' = [req EXCEPT ![b][t] = started]
      BY <1>0, <2>3, <2>6, <2>9 DEF Becomes, NextValue, historyVars
    <2> QED
      BY <2>20, <2>21, OwnRequestType
  <1>3. ASSUME NEW b \in Browsers, NEW t \in Tabs, VerifyState(b, t)
        PROVE  TypeInv'
    <2> DEFINE r == req[b][t]
               verdict == Verdict(Candidates(r), r.state, clock)
               phase == IF Proceeds(verdict, r.code) THEN "exchange" ELSE "respond"
               verified == [Consumed(r) EXCEPT !.phase = phase]
    <2>1. Consumed(r) \in Request /\ phase \in Phase \ {"redirect"}
      BY <1>0, ConsumedType DEF Phase
    <2>2. Becomes(b, t, verified)
      BY <1>3 DEF VerifyState
    <2>3. \/ logins' = logins
          \/ logins' = [logins EXCEPT ![r.state] = UsedOnceMore(@)]
      BY <1>3 DEF VerifyState
    <2>4. UNCHANGED <<clock, session, cookie, keycloakVars, delivered, loggedOut>>
      BY <1>3 DEF VerifyState
    <2> HIDE DEF phase
    <2>5. verified \in Request /\ verified.phase = phase
      BY <2>1, PhaseType DEF Request
    <2>6. logins \in Seq(Login) /\ r.state \in Nat
      BY <1>0 DEF Request, TypeInv, TypeOK
    <2> HIDE DEF r, verified
    <2>7. logins' \in Seq(Login) /\ Len(logins') = Len(logins)
      <3>1. CASE r.state \in 1..Len(logins)
        BY <2>3, <2>6, <3>1, AcceptType
      <3>2. CASE r.state \notin 1..Len(logins)
        BY <2>3, <2>6, <3>2
      <3> QED
        BY <3>1, <3>2
    <2>20. RestTyped
      BY <2>4 DEF RestTyped, keycloakVars, historyVars, TypeInv, TypeOK
    <2>21. /\ logins' \in Seq(Login)
           /\ Len(logins) <= Len(logins')
           /\ verified.phase = "redirect" => verified.state \in 1..Len(logins')
           /\ verified \in Request
           /\ req' = [req EXCEPT ![b][t] = verified]
      BY <1>0, <2>1, <2>2, <2>5, <2>7 DEF Becomes, NextValue, historyVars
    <2> QED
      BY <2>20, <2>21, OwnRequestType
  <1>4. ASSUME NEW b \in Browsers, NEW t \in Tabs,
               \/ RedeemCode(b, t) \/ RefuseCode(b, t) \/ RejectGrant(b, t)
               \/ RevokeSession(b, t)
        PROVE  TypeInv'
    <2>1. PICK phase \in Phase \ {"redirect"} : GoTo(b, t, phase)
      BY <1>4 DEF RedeemCode, RefuseCode, RejectGrant, RevokeSession, Phase
    <2> DEFINE r == [req[b][t] EXCEPT !.phase = phase]
    <2>2. r \in Request /\ r.phase # "redirect"
      BY <1>0, PhaseType DEF Request
    <2>3. req' = [req EXCEPT ![b][t] = r]
      BY <2>1 DEF GoTo, Becomes
    <2>4. redeemed' \subseteq Codes
      BY <1>0, <1>4 DEF RedeemCode, RefuseCode, RejectGrant, RevokeSession, keycloakVars,
                   Request, TypeInv, TypeOK
    <2>5. UNCHANGED <<clock, session, cookie, codeState, logins, delivered, loggedOut>>
      BY <1>4 DEF RedeemCode, RefuseCode, RejectGrant, RevokeSession, keycloakVars, historyVars
    <2> HIDE DEF r
    <2>20. RestTyped
      BY <2>4, <2>5 DEF RestTyped, keycloakVars, historyVars, TypeInv, TypeOK
    <2>21. /\ logins' \in Seq(Login)
           /\ Len(logins) <= Len(logins')
           /\ r.phase = "redirect" => r.state \in 1..Len(logins')
           /\ r \in Request
           /\ req' = [req EXCEPT ![b][t] = r]
      BY <1>0, <1>01, <2>2, <2>3, <2>5 DEF Becomes, NextValue, historyVars
    <2> QED
      BY <2>20, <2>21, OwnRequestType
  <1>5. ASSUME NEW b \in Browsers, NEW t \in Tabs, PersistGrant(b, t) \/ ClearPending(b, t)
        PROVE  TypeInv'
    <2> DEFINE r == req[b][t]
    <2>1. PICK next \in Request : next.phase = "respond" /\ Becomes(b, t, next)
      <3>1. CASE PersistGrant(b, t)
        <4>1. [r EXCEPT !.phase = "respond"] \in Request
          BY <1>0, PhaseType DEF Phase
        <4>2. WithTokens(r, r.code) \in Request
          BY <1>0, WithTokensType DEF Request
        <4>3. [WithTokens(r, r.code) EXCEPT !.phase = "respond", !.dirty = TRUE] \in Request
          BY <4>2 DEF Request, Phase
        <4> QED
          BY <3>1, <4>1, <4>3 DEF PersistGrant, GoTo, Request
      <3>2. CASE ClearPending(b, t)
        <4>1. WithPending(r, {}) \in Request
          BY <1>0, WithPendingType
        <4> DEFINE next == [WithPending(r, {}) EXCEPT
                              !.phase = "respond", !.jar = {},
                              !.dirty = r.link # "current" \/ r.sess.pending # {}]
        <4>2. next \in Request /\ next.phase = "respond"
          BY <4>1 DEF Request, Phase
        <4> QED
          BY <3>2, <4>2 DEF ClearPending
      <3> QED
        BY <1>5, <3>1, <3>2
    <2>2. UNCHANGED <<clock, session, cookie, keycloakVars, historyVars>>
      BY <1>5 DEF PersistGrant, ClearPending
    <2>20. RestTyped
      BY <2>2 DEF RestTyped, keycloakVars, historyVars, TypeInv, TypeOK
    <2>21. /\ logins' \in Seq(Login)
           /\ Len(logins) <= Len(logins')
           /\ next.phase = "redirect" => next.state \in 1..Len(logins')
           /\ next \in Request
           /\ req' = [req EXCEPT ![b][t] = next]
      BY <1>0, <1>01, <2>1, <2>2 DEF Becomes, NextValue, historyVars
    <2> QED
      BY <2>20, <2>21, OwnRequestType
  <1>6. ASSUME NEW b \in Browsers, NEW t \in Tabs,
               ClearSession(b, t) \/ FailToClearSession(b, t)
        PROVE  TypeInv'
    <2> DEFINE r == Detached(req[b][t])
    <2>1. r \in Request /\ r.phase # "redirect"
      BY <1>0, DetachedType
    <2>2. req' = [req EXCEPT ![b][t] = r]
      BY <1>6 DEF ClearSession, FailToClearSession, Becomes
    <2>3. session' \in [Browsers -> Session]
      <3>1. NoSession \in Session
        BY DEF NoSession, Session
      <3> QED
        BY <1>6, <3>1 DEF ClearSession, FailToClearSession, TypeInv, TypeOK
    <2>4. loggedOut' \subseteq Codes
      BY <1>0, <1>6 DEF ClearSession, FailToClearSession, historyVars, Request, Session,
                        TypeInv, TypeOK
    <2>5. UNCHANGED <<clock, cookie, keycloakVars, logins, delivered>>
      BY <1>6 DEF ClearSession, FailToClearSession, historyVars
    <2> HIDE DEF r
    <2>20. RestTyped
      BY <2>3, <2>4, <2>5 DEF RestTyped, keycloakVars, historyVars, TypeInv, TypeOK
    <2>21. /\ logins' \in Seq(Login)
           /\ Len(logins) <= Len(logins')
           /\ r.phase = "redirect" => r.state \in 1..Len(logins')
           /\ r \in Request
           /\ req' = [req EXCEPT ![b][t] = r]
      BY <1>0, <1>01, <2>1, <2>2, <2>5 DEF Becomes, NextValue, historyVars
    <2> QED
      BY <2>20, <2>21, OwnRequestType
  <1>7. ASSUME NEW b \in Browsers, NEW t \in Tabs, Respond(b, t)
        PROVE  TypeInv'
    <2>1. PICK arrives \in BOOLEAN, adopts \in BOOLEAN :
             /\ session' = IF Saves(req[b][t], arrives)
                           THEN [session EXCEPT ![b] = req[b][t].sess] ELSE session
             /\ cookie' \in {cookie, [cookie EXCEPT ![b] = req[b][t].jar]}
             /\ delivered' = IF arrives /\ req[b][t].phase = "redirect"
                             THEN delivered \cup {req[b][t].state} ELSE delivered
             /\ req' = [req EXCEPT ![b] = [u \in Tabs |->
                  CASE u = t -> Idle
                    [] u # t /\ adopts /\ req[b][u].link = "current" ->
                         [req[b][u] EXCEPT !.link = "orphan"]
                    [] OTHER -> req[b][u]]]
      BY <1>7, SwitchAssumption DEF Respond, Saves, Request, Session
    <2>2. UNCHANGED <<clock, keycloakVars, logins, loggedOut>>
      BY <1>7 DEF Respond
    <2>3. session' \in [Browsers -> Session] /\ cookie' \in [Browsers -> SUBSET PendingState]
      BY <1>0, <2>1 DEF Request, TypeInv, TypeOK
    <2>4. delivered' \subseteq 1..Len(logins)
      BY <2>1 DEF TypeInv, TypeOK, RedirectsKnown
    <2>5. ASSUME NEW d \in Browsers, NEW u \in Tabs
          PROVE  /\ req'[d][u] \in Request
                 /\ \/ req'[d][u].phase = "idle"
                    \/ /\ req'[d][u].phase = req[d][u].phase
                       /\ req'[d][u].state = req[d][u].state
      BY <1>0, <2>1, IdleType DEF Request, Idle, TypeInv, TypeOK
    <2>6. req' \in [Browsers -> [Tabs -> Request]]
      <3> DEFINE replied == [u \in Tabs |->
                   CASE u = t -> Idle
                     [] u # t /\ adopts /\ req[b][u].link = "current" ->
                          [req[b][u] EXCEPT !.link = "orphan"]
                     [] OTHER -> req[b][u]]
      <3>1. req' = [req EXCEPT ![b] = replied]
        BY <2>1
      <3>2. \A u \in Tabs : replied[u] = req'[b][u]
        BY <3>1 DEF TypeInv, TypeOK
      <3> HIDE DEF replied
      <3>3. \A u \in Tabs : replied[u] \in Request
        BY <2>5, <3>2
      <3>4. replied \in [Tabs -> Request]
        BY <3>3 DEF replied
      <3> QED
        BY <3>1, <3>4 DEF TypeInv, TypeOK
    <2> QED
      BY <2>2, <2>3, <2>4, <2>5, <2>6 DEF TypeInv, TypeOK, RedirectsKnown, keycloakVars
  <1>8. ASSUME NEW c \in Codes, Authenticate(c)
        PROVE  TypeInv'
    BY <1>8 DEF Authenticate, TypeInv, TypeOK, RedirectsKnown, historyVars
  <1>9. CASE Tick
    BY <1>9 DEF Tick, TypeInv, TypeOK, RedirectsKnown, keycloakVars, historyVars
  <1>10. CASE UNCHANGED vars
    BY <1>10 DEF vars, TypeInv, TypeOK, RedirectsKnown, keycloakVars, historyVars
  <1> QED
    BY <1>1, <1>2, <1>3, <1>4, <1>5, <1>6, <1>7, <1>8, <1>9, <1>10 DEF Next, Handle

LEMMA TypeInvInit == Init => TypeInv
  BY IdleType DEF Init, TypeInv, TypeOK, RedirectsKnown, NoSession, Session, Missing, Idle

\* Type correctness: in every reachable state each variable has its type.
THEOREM TypeCorrect == Spec => []TypeOK
  <1>1. Spec => []TypeInv
    BY TypeInvInit, TypeInvStep, PTL DEF Spec
  <1>2. TypeInv => TypeOK
    BY DEF TypeInv
  <1> QED
    BY <1>1, <1>2, PTL

-----------------------------------------------------------------------------
(* Logins are only ever added to, and an issued code keeps its state.  What *)
(* fitted before a step therefore fits after it.                            *)

Grows ==
    /\ Len(logins) \in Nat /\ Len(logins') \in Nat
    /\ Len(logins) <= Len(logins')
    /\ \A i \in 1..Len(logins) : /\ logins'[i].browser = logins[i].browser
                                 /\ logins'[i].expiresAt = logins[i].expiresAt
                                 /\ logins[i].uses # 0 => logins'[i].uses # 0
    /\ \A c \in Codes : codeState[c] # Missing => codeState'[c] = codeState[c]

LEMMA LoginsGrow == TypeInv /\ [Next]_vars => Grows
  <1> SUFFICES ASSUME TypeInv, [Next]_vars
               PROVE  Grows
    OBVIOUS
  <1>1. logins \in Seq(Login) /\ Len(logins) \in Nat /\ codeState \in [Codes -> Nat]
    BY DEF TypeInv, TypeOK
  <1>2. ASSUME NEW b \in Browsers, NEW t \in Tabs, StartLogin(b, t)
        PROVE  Grows
    <2>1. /\ UNCHANGED codeState
          /\ logins' = Append(logins, [browser |-> b, expiresAt |-> clock + Ttl, uses |-> 0])
      BY <1>2 DEF StartLogin, keycloakVars
    <2>2. [browser |-> b, expiresAt |-> clock + Ttl, uses |-> 0] \in Login
      BY TtlAssumption DEF Login, TypeInv, TypeOK
    <2> QED
      BY <1>1, <2>1, <2>2 DEF Grows
  <1>3. ASSUME NEW b \in Browsers, NEW t \in Tabs, VerifyState(b, t)
        PROVE  Grows
    <2> DEFINE s == req[b][t].state
    <2>1. /\ UNCHANGED codeState
          /\ \/ logins' = logins
             \/ logins' = [logins EXCEPT ![s] = UsedOnceMore(@)]
      BY <1>3 DEF VerifyState, keycloakVars
    <2> HIDE DEF s
    <2>2. CASE s \in 1..Len(logins)
      BY <1>1, <2>1, <2>2, AcceptType DEF Grows
    <2>3. CASE s \notin 1..Len(logins)
      BY <1>1, <2>1, <2>3 DEF Grows
    <2> QED
      BY <2>2, <2>3
  <1>4. ASSUME NEW c \in Codes, Authenticate(c)
        PROVE  Grows
    BY <1>1, <1>4 DEF Authenticate, Grows, historyVars
  <1>5. CASE UNCHANGED <<logins, codeState>>
    BY <1>1, <1>5 DEF Grows
  <1>6. \/ UNCHANGED <<logins, codeState>>
        \/ \E b \in Browsers, t \in Tabs : StartLogin(b, t) \/ VerifyState(b, t)
        \/ \E c \in Codes : Authenticate(c)
    <2>1. ASSUME NEW b \in Browsers, NEW t \in Tabs, Arrive(b, t)
          PROVE  UNCHANGED <<logins, codeState>>
      BY <2>1 DEF Arrive, SendLogin, SendCallback, SendLogout, SendClear, Send,
                  keycloakVars, historyVars
    <2>2. ASSUME NEW b \in Browsers, NEW t \in Tabs, Handle(b, t),
                 ~StartLogin(b, t), ~VerifyState(b, t)
          PROVE  UNCHANGED <<logins, codeState>>
      BY <2>2 DEF Handle, RedeemCode, RefuseCode, PersistGrant, RejectGrant, RevokeSession,
                  ClearSession, FailToClearSession, ClearPending, Respond,
                  keycloakVars, historyVars
    <2>3. Tick => UNCHANGED <<logins, codeState>>
      BY DEF Tick, keycloakVars, historyVars
    <2>4. UNCHANGED vars => UNCHANGED <<logins, codeState>>
      BY DEF vars, keycloakVars, historyVars
    <2> QED
      BY <2>1, <2>2, <2>3, <2>4 DEF Next
  <1> QED
    BY <1>2, <1>3, <1>4, <1>5, <1>6

LEMMA OwnedGrows ==
    ASSUME Grows, NEW states, NEW b, Owned(logins, states, b)
    PROVE  Owned(logins', states, b)
  BY DEF Grows, Owned

LEMMA BoundGrows ==
    ASSUME Grows, NEW codes \in SUBSET Codes, NEW b, Bound(logins, codeState, codes, b)
    PROVE  Bound(logins', codeState', codes, b)
  BY DEF Grows, Bound, Missing

LEMMA FitsGrows ==
    ASSUME Grows, NEW r \in Request, NEW b, Fits(logins, codeState, r, b)
    PROVE  Fits(logins', codeState', r, b)
  <1>1. /\ Owned(logins', r.sess.pending, b)
        /\ Owned(logins', r.jar, b)
    BY OwnedGrows DEF Fits
  <1>2. RequireState => Bound(logins', codeState', r.sess.tokens, b)
    BY BoundGrows DEF Fits, Request, Session
  <1>3. r.phase \in {"callback", "exchange", "granted"} =>
           \A c \in r.code : codeState'[c] # Missing /\ r.state \in {codeState'[c], Missing}
    BY DEF Fits, Grows, Request
  <1>4. RequireState /\ r.phase \in {"exchange", "granted"} =>
           /\ r.state \in 1..Len(logins')
           /\ logins'[r.state].browser = b
           /\ logins'[r.state].uses # 0
    BY DEF Fits, Grows
  <1> QED
    BY <1>1, <1>2, <1>3, <1>4 DEF Fits

\* What a step leaves alone still fits.
LEMMA StoreKept ==
    ASSUME TypeOK, Grows, StoreFits, UNCHANGED <<session, cookie>>
    PROVE  StoreFits'
  <1> SUFFICES ASSUME NEW b \in Browsers
               PROVE  /\ Owned(logins', session[b].pending, b)
                      /\ Owned(logins', cookie[b], b)
                      /\ RequireState => Bound(logins', codeState', session[b].tokens, b)
    BY DEF StoreFits
  <1>1. session[b].tokens \in SUBSET Codes
    BY DEF TypeOK, Session
  <1> QED
    BY <1>1, OwnedGrows, BoundGrows DEF StoreFits

LEMMA CodesKept ==
    ASSUME Grows, CodesKnown, UNCHANGED codeState
    PROVE  CodesKnown'
  BY DEF Grows, CodesKnown

LEMMA SpentKept ==
    ASSUME TypeOK, Grows, SpentVerified, UNCHANGED redeemed
    PROVE  SpentVerified'
  BY DEF TypeOK, Grows, SpentVerified, Missing

LEMMA OwnRequestFits ==
    ASSUME LoginInv, Grows, TypeInv', NEW b \in Browsers, NEW t \in Tabs, NEW r \in Request,
           req' = [req EXCEPT ![b][t] = r], Fits(logins', codeState', r, b),
           StoreFits', CodesKnown', SpentVerified'
    PROVE  LoginInv'
  <1>1. ASSUME NEW d \in Browsers, NEW u \in Tabs
        PROVE  Fits(logins', codeState', req'[d][u], d)
    <2>1. req \in [Browsers -> [Tabs -> Request]]
      BY DEF LoginInv, TypeOK
    <2>2. CASE d = b /\ u = t
      BY <2>1, <2>2
    <2>3. CASE ~(d = b /\ u = t)
      <3>1. req'[d][u] = req[d][u] /\ req[d][u] \in Request
        BY <2>1, <2>3
      <3>2. Fits(logins, codeState, req[d][u], d)
        BY DEF LoginInv, RequestsFit
      <3> QED
        BY <3>1, <3>2, FitsGrows
    <2> QED
      BY <2>2, <2>3
  <1>2. RequestsFit'
    BY <1>1 DEF RequestsFit
  <1> QED
    BY <1>2 DEF LoginInv, TypeInv

\* A request past the verification was accepted with the state of its code.
LEMMA VerifiedCode ==
    ASSUME TypeOK, RequestsFit, RequireState, NEW b \in Browsers, NEW t \in Tabs,
           req[b][t].phase \in {"exchange", "granted"}, NEW c \in req[b][t].code
    PROVE  /\ codeState[c] \in 1..Len(logins)
           /\ logins[codeState[c]].browser = b
           /\ logins[codeState[c]].uses # 0
  <1>1. Fits(logins, codeState, req[b][t], b)
    BY DEF RequestsFit
  <1>2. /\ req[b][t].state \in 1..Len(logins)
        /\ req[b][t].state \in {codeState[c], Missing}
        /\ logins[req[b][t].state].browser = b
        /\ logins[req[b][t].state].uses # 0
    BY <1>1 DEF Fits
  <1>3. codeState[c] = req[b][t].state
    BY <1>2 DEF Missing, TypeOK
  <1> QED
    BY <1>2, <1>3

LEMMA SendFits ==
    ASSUME LoginInv, Grows, TypeInv', NEW b \in Browsers, NEW t \in Tabs,
           NEW phase \in Phase \ {"exchange", "granted"}, NEW state \in Nat,
           NEW code \in SUBSET Codes, Send(b, t, phase, state, code),
           phase = "callback" =>
              \A c \in code : codeState[c] # Missing /\ state \in {codeState[c], Missing}
    PROVE  LoginInv'
  <1> DEFINE r == [phase |-> phase,
                   link |-> IF session[b].exists THEN "current" ELSE "fresh",
                   sess |-> LoadedSession(b), dirty |-> FALSE, jar |-> SentCookie(b),
                   state |-> state, code |-> code]
  <1>1. TypeOK /\ r \in Request
    BY LoadedSessionType DEF LoginInv, TypeOK, Request, SentCookie, Unexpired
  <1>2. req' = [req EXCEPT ![b][t] = r]
    BY DEF Send, Becomes
  <1>3. UNCHANGED <<session, cookie, logins, codeState, redeemed>>
    BY DEF Send, keycloakVars, historyVars
  <1>4. /\ Owned(logins, LoadedSession(b).pending, b)
        /\ Owned(logins, SentCookie(b), b)
        /\ RequireState => Bound(logins, codeState, LoadedSession(b).tokens, b)
    BY DEF LoginInv, StoreFits, Owned, Bound, LoadedSession, SentCookie, Unexpired
  <1>5. Fits(logins, codeState, r, b)
    BY <1>4 DEF Fits
  <1> HIDE DEF r
  <1>6. Fits(logins', codeState', r, b)
    BY <1>3, <1>5
  <1>7. StoreFits' /\ CodesKnown' /\ SpentVerified'
    BY <1>1, <1>3, StoreKept, CodesKept, SpentKept DEF LoginInv
  <1> QED
    BY <1>1, <1>2, <1>6, <1>7, OwnRequestFits

LEMMA StartLoginFits ==
    ASSUME LoginInv, Grows, TypeInv', NEW b \in Browsers, NEW t \in Tabs, StartLogin(b, t)
    PROVE  LoginInv'
  <1> DEFINE r == req[b][t]
             entry == [value |-> NextValue, expiresAt |-> clock + Ttl]
             states == AddPending(r.sess.pending, entry, clock)
             bound == IF r.sess.exists THEN WithPending(r, states)
                      ELSE [r EXCEPT !.jar = {entry}]
             started == [bound EXCEPT !.phase = "redirect", !.dirty = TRUE,
                                      !.state = NextValue]
  <1>1. TypeOK /\ r \in Request
    BY DEF LoginInv, TypeOK
  <1>2. entry \in PendingState /\ NextValue \in Nat
    BY <1>1, TtlAssumption DEF NextValue, PendingState, TypeOK
  <1>3. states \in SUBSET PendingState /\ states \subseteq r.sess.pending \cup {entry}
    <2>1. states \subseteq r.sess.pending \cup {entry}
      BY DEF AddPending, Newest, Unexpired
    <2> QED
      BY <1>1, <1>2, <2>1 DEF Request, Session
  <1>4. Becomes(b, t, started)
    BY DEF StartLogin
  <1>5. logins' = Append(logins, [browser |-> b, expiresAt |-> clock + Ttl, uses |-> 0])
    BY DEF StartLogin
  <1>6. UNCHANGED <<session, cookie, codeState, redeemed>>
    BY DEF StartLogin, keycloakVars
  <1>7. Fits(logins, codeState, r, b)
    BY DEF LoginInv, RequestsFit
  <1>8. /\ Owned(logins', r.sess.pending, b)
        /\ Owned(logins', r.jar, b)
        /\ RequireState => Bound(logins', codeState', r.sess.tokens, b)
    BY <1>1, <1>7, FitsGrows DEF Fits
  <1>9. /\ entry.value \in 1..Len(logins')
        /\ logins'[entry.value].browser = b
    BY <1>1, <1>5 DEF NextValue, TypeOK
  <1>10. Owned(logins', states, b) /\ Owned(logins', {entry}, b)
    BY <1>3, <1>8, <1>9 DEF Owned
  <1> HIDE DEF entry, states
  <1>11. [r EXCEPT !.jar = {entry}] \in Request
    BY <1>1, <1>2 DEF Request
  <1>12. /\ bound \in Request
         /\ Owned(logins', bound.sess.pending, b)
         /\ Owned(logins', bound.jar, b)
         /\ bound.sess.tokens = r.sess.tokens
    BY <1>1, <1>3, <1>8, <1>10, <1>11, WithPendingType DEF Request
  <1> HIDE DEF bound
  <1>13. /\ started \in Request
         /\ started.phase = "redirect"
         /\ started.sess = bound.sess
         /\ started.jar = bound.jar
    BY <1>2, <1>12 DEF Request, Phase
  <1> HIDE DEF started
  <1>14. Fits(logins', codeState', started, b)
    BY <1>8, <1>12, <1>13 DEF Fits
  <1>15. StoreFits' /\ CodesKnown' /\ SpentVerified'
    BY <1>1, <1>6, StoreKept, CodesKept, SpentKept DEF LoginInv
  <1> QED
    BY <1>4, <1>13, <1>14, <1>15, OwnRequestFits DEF Becomes

LEMMA VerifyStateFits ==
    ASSUME LoginInv, Grows, TypeInv', NEW b \in Browsers, NEW t \in Tabs, VerifyState(b, t)
    PROVE  LoginInv'
  <1> DEFINE r == req[b][t]
             verdict == Verdict(Candidates(r), r.state, clock)
             phase == IF Proceeds(verdict, r.code) THEN "exchange" ELSE "respond"
             verified == [Consumed(r) EXCEPT !.phase = phase]
  <1>1. TypeOK /\ r \in Request /\ r.phase = "callback"
    BY DEF LoginInv, TypeOK, VerifyState
  <1>2. Fits(logins, codeState, r, b) /\ Fits(logins', codeState', r, b)
    BY <1>1, FitsGrows DEF LoginInv, RequestsFit
  <1>3. Becomes(b, t, verified)
    BY DEF VerifyState
  <1>4. UNCHANGED <<session, cookie, codeState, redeemed>>
    BY DEF VerifyState, keycloakVars
  <1>5. /\ verified \in Request
        /\ verified.phase = phase
        /\ verified.state = r.state
        /\ verified.code = r.code
        /\ verified.sess = Consumed(r).sess
        /\ verified.jar = Consumed(r).jar
    <2>1. Consumed(r) \in Request /\ Consumed(r).state = r.state /\ Consumed(r).code = r.code
      BY <1>1, ConsumedType
    <2>2. phase \in Phase
      BY DEF Phase
    <2> HIDE DEF r, phase
    <2> QED
      BY <2>1, <2>2 DEF Request
  <1>6. /\ Owned(logins', verified.sess.pending, b)
        /\ Owned(logins', verified.jar, b)
        /\ RequireState => Bound(logins', codeState', verified.sess.tokens, b)
    <2>1. /\ verified.sess.pending \subseteq r.sess.pending
          /\ verified.jar \subseteq r.jar
          /\ verified.sess.tokens = r.sess.tokens
      BY <1>1, <1>5, ConsumedType
    <2> HIDE DEF r, verified
    <2> QED
      BY <1>2, <2>1 DEF Fits, Owned
  <1>7. ASSUME RequireState, phase = "exchange"
        PROVE  /\ r.state \in 1..Len(logins')
               /\ logins'[r.state].browser = b
               /\ logins'[r.state].uses # 0
    <2>1. verdict = "valid"
      BY <1>7 DEF Proceeds
    <2>2. r.state # Missing /\ Matches(Candidates(r), r.state)
      BY <2>1 DEF Verdict
    <2>3. r.state \in 1..Len(logins) /\ logins[r.state].browser = b
      BY <1>2, <2>2 DEF Matches, Candidates, Fits, Owned
    <2>4. logins' = [logins EXCEPT ![r.state] = UsedOnceMore(@)]
      BY <2>1 DEF VerifyState
    <2>5. logins \in Seq(Login)
      BY <1>1 DEF TypeOK
    <2> HIDE DEF r
    <2> QED
      BY <2>3, <2>4, <2>5, AcceptType
  <1>8. Fits(logins', codeState', verified, b)
    <2>1. \A c \in r.code : codeState'[c] # Missing /\ r.state \in {codeState'[c], Missing}
      BY <1>1, <1>2 DEF Fits
    <2>2. phase \in {"exchange", "respond"}
      OBVIOUS
    <2> HIDE DEF r, phase, verified
    <2> QED
      BY <1>5, <1>6, <1>7, <2>1, <2>2 DEF Fits
  <1>9. StoreFits' /\ CodesKnown' /\ SpentVerified'
    BY <1>1, <1>4, StoreKept, CodesKept, SpentKept DEF LoginInv
  <1> HIDE DEF verified
  <1> QED
    BY <1>3, <1>5, <1>8, <1>9, OwnRequestFits DEF Becomes

LEMMA ExchangeFits ==
    ASSUME LoginInv, Grows, TypeInv', NEW b \in Browsers, NEW t \in Tabs,
           \/ RedeemCode(b, t) \/ RefuseCode(b, t) \/ RejectGrant(b, t)
           \/ RevokeSession(b, t)
    PROVE  LoginInv'
  <1> DEFINE r == req[b][t]
  <1>1. TypeOK /\ r \in Request
    BY DEF LoginInv, TypeOK
  <1>2. Fits(logins, codeState, r, b)
    BY DEF LoginInv, RequestsFit
  <1>3. UNCHANGED <<session, cookie, codeState, logins>>
    BY DEF RedeemCode, RefuseCode, RejectGrant, RevokeSession, keycloakVars, historyVars
  <1>4. PICK phase \in {"granted", "respond", "revoked"} :
           /\ GoTo(b, t, phase)
           /\ phase = "granted" => r.phase = "exchange"
    BY DEF RedeemCode, RefuseCode, RejectGrant, RevokeSession
  <1> DEFINE next == [r EXCEPT !.phase = phase]
  <1>5. /\ next \in Request
        /\ next.phase = phase
        /\ next.sess = r.sess
        /\ next.jar = r.jar
        /\ next.state = r.state
        /\ next.code = r.code
    BY <1>1 DEF Request, Phase
  <1>6. req' = [req EXCEPT ![b][t] = next]
    BY <1>4 DEF GoTo, Becomes
  <1>7. Fits(logins', codeState', next, b)
    <2> HIDE DEF next, r
    <2> QED
      BY <1>2, <1>3, <1>4, <1>5 DEF Fits
  <1>8. SpentVerified'
    <2>1. CASE UNCHANGED redeemed
      BY <1>1, <2>1, SpentKept DEF LoginInv
    <2>2. CASE RedeemCode(b, t)
      <3>1. r.phase = "exchange" /\ redeemed' = redeemed \cup r.code
        BY <2>2 DEF RedeemCode
      <3>2. RequireState => \A c \in r.code : /\ codeState[c] \in 1..Len(logins)
                                              /\ logins[codeState[c]].uses # 0
        BY <1>1, <3>1, VerifiedCode DEF LoginInv
      <3> QED
        BY <1>3, <3>1, <3>2 DEF LoginInv, SpentVerified
    <2> QED
      BY <2>1, <2>2 DEF RefuseCode, RejectGrant, RevokeSession, keycloakVars
  <1>9. StoreFits' /\ CodesKnown'
    BY <1>1, <1>3, StoreKept, CodesKept DEF LoginInv
  <1> HIDE DEF next
  <1> QED
    BY <1>5, <1>6, <1>7, <1>8, <1>9, OwnRequestFits

LEMMA PersistGrantFits ==
    ASSUME LoginInv, Grows, TypeInv', NEW b \in Browsers, NEW t \in Tabs, PersistGrant(b, t)
    PROVE  LoginInv'
  <1> DEFINE r == req[b][t]
  <1>1. TypeOK /\ r \in Request /\ r.phase = "granted"
    BY DEF LoginInv, TypeOK, PersistGrant
  <1>2. Fits(logins, codeState, r, b)
    BY DEF LoginInv, RequestsFit
  <1>3. UNCHANGED <<session, cookie, codeState, logins, redeemed>>
    BY DEF PersistGrant, keycloakVars, historyVars
  <1>4. RequireState => Bound(logins, codeState, r.code, b)
    BY <1>1, VerifiedCode DEF LoginInv, Bound
  <1>5. PICK next \in Request :
           /\ req' = [req EXCEPT ![b][t] = next]
           /\ next.phase = "respond"
           /\ next.sess.pending = r.sess.pending
           /\ next.jar = r.jar
           /\ next.sess.tokens \in {r.code, r.sess.tokens}
    <2> DEFINE kept == [WithTokens(r, r.code) EXCEPT !.phase = "respond", !.dirty = TRUE]
               same == [r EXCEPT !.phase = "respond"]
    <2>1. /\ kept \in Request
          /\ kept.phase = "respond"
          /\ kept.sess.pending = r.sess.pending
          /\ kept.jar = r.jar
          /\ kept.sess.tokens = r.code
      <3>1. r.code \in SUBSET Codes
        BY <1>1 DEF Request
      <3>2. /\ WithTokens(r, r.code) \in Request
            /\ WithTokens(r, r.code).sess.pending = r.sess.pending
            /\ WithTokens(r, r.code).jar = r.jar
            /\ WithTokens(r, r.code).sess.tokens = r.code
        BY <1>1, <3>1, WithTokensType
      <3> QED
        BY <3>2 DEF Request, Phase
    <2>2. /\ same \in Request
          /\ same.phase = "respond"
          /\ same.sess = r.sess
          /\ same.jar = r.jar
      BY <1>1 DEF Request, Phase
    <2>3. req' \in {[req EXCEPT ![b][t] = kept], [req EXCEPT ![b][t] = same]}
      BY DEF PersistGrant, Becomes, GoTo
    <2> HIDE DEF kept, same
    <2> QED
      BY <2>1, <2>2, <2>3
  <1>6. Fits(logins', codeState', next, b)
    <2> HIDE DEF r
    <2> QED
      BY <1>2, <1>3, <1>4, <1>5 DEF Fits
  <1>7. StoreFits' /\ CodesKnown' /\ SpentVerified'
    BY <1>1, <1>3, StoreKept, CodesKept, SpentKept DEF LoginInv
  <1> QED
    BY <1>5, <1>6, <1>7, OwnRequestFits

LEMMA EmptyFits ==
    ASSUME NEW r \in Request, NEW b, r.sess.pending = {}, r.sess.tokens = {}, r.jar = {},
           r.phase \notin {"callback", "exchange", "granted"}
    PROVE  Fits(logins, codeState, r, b)
  BY DEF Fits, Owned, Bound

LEMMA ClearSessionFits ==
    ASSUME LoginInv, Grows, TypeInv', NEW b \in Browsers, NEW t \in Tabs,
           ClearSession(b, t) \/ FailToClearSession(b, t)
    PROVE  LoginInv'
  <1> DEFINE r == req[b][t]
             next == Detached(r)
  <1>1. TypeOK /\ r \in Request
    BY DEF LoginInv, TypeOK
  <1>2. Fits(logins, codeState, r, b)
    BY DEF LoginInv, RequestsFit
  <1>3. UNCHANGED <<cookie, codeState, logins, redeemed>>
    BY DEF ClearSession, FailToClearSession, keycloakVars, historyVars
  <1>4. /\ next \in Request
        /\ next.phase = "respond"
        /\ next.sess = NoSession
        /\ next.jar = r.jar
    BY <1>1 DEF Detached, NoSession, Request, Session, Phase
  <1>5. req' = [req EXCEPT ![b][t] = next]
    BY DEF ClearSession, FailToClearSession, Becomes
  <1>6. Fits(logins', codeState', next, b)
    <2> HIDE DEF next, r
    <2> QED
      BY <1>2, <1>3, <1>4 DEF Fits, NoSession, Owned, Bound
  <1>7. StoreFits'
    <2>1. session' \in {session, [session EXCEPT ![b] = NoSession]}
      BY DEF ClearSession, FailToClearSession
    <2> QED
      BY <1>1, <1>3, <2>1 DEF LoginInv, StoreFits, TypeOK, NoSession, Owned, Bound
  <1>8. CodesKnown' /\ SpentVerified'
    BY <1>1, <1>3, CodesKept, SpentKept DEF LoginInv
  <1> HIDE DEF next
  <1> QED
    BY <1>4, <1>5, <1>6, <1>7, <1>8, OwnRequestFits

LEMMA ClearPendingFits ==
    ASSUME LoginInv, Grows, TypeInv', NEW b \in Browsers, NEW t \in Tabs, ClearPending(b, t)
    PROVE  LoginInv'
  <1> DEFINE r == req[b][t]
             next == [WithPending(r, {}) EXCEPT
                        !.phase = "respond", !.jar = {},
                        !.dirty = r.link # "current" \/ r.sess.pending # {}]
  <1>1. TypeOK /\ r \in Request
    BY DEF LoginInv, TypeOK
  <1>2. Fits(logins, codeState, r, b)
    BY DEF LoginInv, RequestsFit
  <1>3. UNCHANGED <<session, cookie, codeState, logins, redeemed>>
    BY DEF ClearPending, keycloakVars, historyVars
  <1>4. /\ next \in Request
        /\ next.phase = "respond"
        /\ next.sess.pending = {}
        /\ next.jar = {}
        /\ next.sess.tokens = r.sess.tokens
    <2>1. /\ WithPending(r, {}) \in Request
          /\ WithPending(r, {}).sess.pending = {}
          /\ WithPending(r, {}).sess.tokens = r.sess.tokens
      BY <1>1, WithPendingType
    <2> QED
      BY <2>1 DEF Request, Phase
  <1>5. req' = [req EXCEPT ![b][t] = next]
    BY DEF ClearPending, Becomes
  <1>6. Fits(logins', codeState', next, b)
    <2> HIDE DEF next, r
    <2> QED
      BY <1>2, <1>3, <1>4 DEF Fits, Owned
  <1>7. StoreFits' /\ CodesKnown' /\ SpentVerified'
    BY <1>1, <1>3, StoreKept, CodesKept, SpentKept DEF LoginInv
  <1> HIDE DEF next
  <1> QED
    BY <1>4, <1>5, <1>6, <1>7, OwnRequestFits

LEMMA RespondFits ==
    ASSUME LoginInv, Grows, TypeInv', NEW b \in Browsers, NEW t \in Tabs, Respond(b, t)
    PROVE  LoginInv'
  <1> DEFINE r == req[b][t]
  <1>1. TypeOK /\ r \in Request
    BY DEF LoginInv, TypeOK
  <1>2. Fits(logins, codeState, r, b)
    BY DEF LoginInv, RequestsFit
  <1>3. UNCHANGED <<codeState, logins, redeemed>>
    BY DEF Respond, keycloakVars
  <1>4. /\ session' \in {session, [session EXCEPT ![b] = r.sess]}
        /\ cookie' \in {cookie, [cookie EXCEPT ![b] = r.jar]}
    BY DEF Respond
  <1>5. StoreFits'
    <2> HIDE DEF r
    <2> QED
      BY <1>1, <1>2, <1>3, <1>4 DEF LoginInv, StoreFits, Fits, TypeOK
  <1>6. ASSUME NEW d \in Browsers, NEW u \in Tabs
        PROVE  Fits(logins, codeState, req'[d][u], d)
    <2>1. \/ req'[d][u] = req[d][u]
          \/ req'[d][u] = Idle
          \/ req'[d][u] = [req[d][u] EXCEPT !.link = "orphan"]
      BY <1>1 DEF Respond, TypeOK
    <2>2. Fits(logins, codeState, req[d][u], d) /\ req[d][u] \in Request
      BY <1>1 DEF LoginInv, RequestsFit, TypeOK
    <2>3. Fits(logins, codeState, Idle, d)
      BY IdleType, EmptyFits DEF Idle, NoSession
    <2>4. Fits(logins, codeState, [req[d][u] EXCEPT !.link = "orphan"], d)
      BY <2>2 DEF Fits, Request
    <2> QED
      BY <2>1, <2>2, <2>3, <2>4
  <1>7. RequestsFit'
    BY <1>3, <1>6 DEF RequestsFit
  <1>8. CodesKnown' /\ SpentVerified'
    BY <1>1, <1>3, CodesKept, SpentKept DEF LoginInv
  <1> QED
    BY <1>5, <1>7, <1>8 DEF LoginInv, TypeInv

LEMMA SameRequestsFit ==
    ASSUME LoginInv, Grows, TypeInv', UNCHANGED <<session, cookie, req, redeemed>>,
           CodesKnown'
    PROVE  LoginInv'
  <1>1. RequestsFit'
    BY FitsGrows DEF LoginInv, RequestsFit, TypeOK
  <1> QED
    BY <1>1, StoreKept, SpentKept DEF LoginInv, TypeInv

-----------------------------------------------------------------------------
(* The invariant, and what it gives *)

\* No step of a handler, of a browser or of express-session breaks the invariant.
THEOREM LoginInvStep == LoginInv /\ [Next]_vars => LoginInv'
  <1> SUFFICES ASSUME LoginInv, [Next]_vars
               PROVE  LoginInv'
    OBVIOUS
  <1>1. TypeInv /\ TypeInv' /\ Grows
    BY TypeInvStep, LoginsGrow DEF LoginInv, TypeInv
  <1>2. ASSUME NEW b \in Browsers, NEW t \in Tabs, Arrive(b, t)
        PROVE  LoginInv'
    <2>1. CASE SendLogin(b, t)
      BY <1>1, <2>1, SendFits DEF SendLogin, Phase, Missing
    <2>2. CASE SendLogout(b, t)
      BY <1>1, <2>2, SendFits DEF SendLogout, Phase, Missing
    <2>3. CASE SendClear(b, t)
      BY <1>1, <2>3, SendFits DEF SendClear, Phase, Missing
    <2>4. CASE SendCallback(b, t)
      <3>1. ASSUME NEW c \in Codes, codeState[c] # Missing,
                   NEW state \in {codeState[c], Missing},
                   Send(b, t, "callback", state, {c})
            PROVE  LoginInv'
        <4>1. state \in Nat
          BY <3>1 DEF LoginInv, TypeOK, Missing
        <4> QED
          BY <1>1, <3>1, <4>1, SendFits DEF Phase
      <3>2. ASSUME NEW state \in delivered, Send(b, t, "callback", state, {})
            PROVE  LoginInv'
        <4>1. state \in Nat
          BY <3>2 DEF LoginInv, TypeOK
        <4> QED
          BY <1>1, <3>2, <4>1, SendFits DEF Phase
      <3> QED
        BY <2>4, <3>1, <3>2 DEF SendCallback
    <2> QED
      BY <1>2, <2>1, <2>2, <2>3, <2>4 DEF Arrive
  <1>3. ASSUME NEW b \in Browsers, NEW t \in Tabs, Handle(b, t)
        PROVE  LoginInv'
    BY <1>1, <1>3, StartLoginFits, VerifyStateFits, ExchangeFits, PersistGrantFits,
       ClearSessionFits, ClearPendingFits, RespondFits DEF Handle
  <1>4. ASSUME NEW c \in Codes, Authenticate(c)
        PROVE  LoginInv'
    <2>1. UNCHANGED <<session, cookie, req, redeemed, logins>>
      BY <1>4 DEF Authenticate, historyVars
    <2>2. CodesKnown'
      BY <1>4, <2>1 DEF Authenticate, LoginInv, CodesKnown, TypeOK
    <2> QED
      BY <1>1, <2>1, <2>2, SameRequestsFit
  <1>5. CASE Tick \/ UNCHANGED vars
    <2>1. UNCHANGED <<session, cookie, req, redeemed, logins, codeState>>
      BY <1>5 DEF Tick, vars, keycloakVars, historyVars
    <2> QED
      BY <1>1, <2>1, CodesKept, SameRequestsFit DEF LoginInv
  <1> QED
    BY <1>2, <1>3, <1>4, <1>5 DEF Next

LEMMA LoginInvInit == Init => LoginInv
  <1> SUFFICES ASSUME Init
               PROVE  LoginInv
    OBVIOUS
  <1>1. TypeInv
    BY TypeInvInit
  <1>2. RequestsFit
    BY IdleType, EmptyFits DEF Init, RequestsFit, Idle, NoSession
  <1>3. StoreFits /\ CodesKnown /\ SpentVerified
    BY DEF Init, StoreFits, CodesKnown, SpentVerified, Owned, Bound, NoSession, Missing
  <1> QED
    BY <1>1, <1>2, <1>3 DEF LoginInv, TypeInv

\* What session records, requests, cookies, redirects and codes hold belongs to
\* the browser that holds it, in every reachable state.
THEOREM LoginInvariant == Spec => []LoginInv
  BY LoginInvInit, LoginInvStep, PTL DEF Spec

\* The state binds a login to its browser, for any number of concurrent tabs.
THEOREM LoginBound == Spec => []LoginBinding
  <1>1. LoginInv => LoginBinding
    BY DEF LoginInv, StoreFits, Bound, LoginBinding
  <1> QED
    BY <1>1, LoginInvariant, PTL

\* Only a verified callback spends its code, for any number of concurrent tabs.
THEOREM CodesSpentVerified == Spec => []VerifiedBeforeSpent
  <1>1. LoginInv => VerifiedBeforeSpent
    BY DEF LoginInv, SpentVerified, VerifiedBeforeSpent
  <1> QED
    BY <1>1, LoginInvariant, PTL

=============================================================================
