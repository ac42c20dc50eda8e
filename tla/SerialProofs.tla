------------------------------ MODULE SerialProofs ------------------------------
(***************************************************************************)
(* Proofs about LoginFlow when a browser has one request in flight at a    *)
(* time, for every set of browsers and codes, every cap and time to live:  *)
(* a state is accepted once, a logout is final, pending logins and tokens  *)
(* leave the record only for a reason, and the flow implements the tickets *)
(* of LoginTickets.  With two tabs none of this holds (login_replayed): a  *)
(* reply then writes back a copy that another reply has overtaken.         *)
(*                                                                         *)
(* The invariant says how the copy of the only request relates to the      *)
(* stored record: an unchanged copy mirrors the record, and a changed one  *)
(* lacks an entry of the record only for a reason and will replace it,     *)
(* because nothing can have moved the browser to another session.          *)
(***************************************************************************)
EXTENDS PendingProofs

OneTab == \E t : Tabs = {t}

\* The request of b in flight
Only(b) == req[b][TheTab]

\* A request of one of these phases has changed nothing yet.
Arrived == {"login", "callback", "logout", "revoked", "clear"}

\* The copy of a request and the stored record it was loaded from
Attached(stored, r) ==
    /\ stored.exists => SessionInstalled
    /\ ~stored.exists => stored = NoSession
    /\ r.phase = "idle" => r = Idle
    /\ r.phase # "idle" => r.link # "orphan"
    /\ r.phase # "idle" /\ r.link = "fresh" => stored = NoSession
    /\ r.phase \notin {"idle", "respond"} /\ SessionInstalled => r.sess.exists
    /\ r.phase \in Arrived => ~r.dirty
    /\ r.dirty /\ SessionInstalled => r.sess.exists
    /\ r.sess.exists => SessionInstalled
    /\ r.sess.exists /\ ~r.dirty =>
         r.sess.pending = stored.pending /\ r.sess.tokens = stored.tokens

\* With a session there is no cookie.
Cookieless(jar, r) == SessionInstalled => jar = {} /\ r.jar = {}

\* What the copy lacks of the stored record, it lacks for a reason.
Justified(now, stored, r) ==
    r.sess.exists =>
        /\ \A p \in stored.pending \ r.sess.pending :
             \/ p.expiresAt <= now
             \/ r.phase \in {"exchange", "granted", "respond"} /\ r.state = p.value
             \/ ClearsAll(r)
             \/ MakesRoom(r, p, r.sess.pending)
        /\ \/ r.sess.tokens = stored.tokens
           \/ r.code # {} /\ r.sess.tokens = r.code

\* The parameters of the callback url
Parameters(r) ==
    /\ r.phase \in {"exchange", "granted"} => r.code # {}
    /\ r.phase = "clear" => r.state = Missing /\ r.code = {}

Serial(now, stored, jar, r) ==
    /\ Attached(stored, r)
    /\ Cookieless(jar, r)
    /\ Justified(now, stored, r)
    /\ Parameters(r)

SerialInv ==
    /\ PendingInv
    /\ \A b \in Browsers : Serial(clock, session[b], cookie[b], Only(b))

\* Nobody was let in with these entries.
Unused(minted, states) == \A p \in states : minted[p.value].uses = 0

\* A burned state is taken out of the record, or its cookie is cleared: with a
\* session always, and without one when the reply arrives.
BurnsArrive == SessionInstalled \/ ~LossyReplies

Unspent(minted, stored, jar, r) ==
    /\ Unused(minted, r.sess.pending) /\ Unused(minted, r.jar)
    /\ ~r.dirty => Unused(minted, stored.pending) /\ Unused(minted, jar)

UsesInv ==
    /\ SerialInv
    /\ SingleUse
    /\ \A b \in Browsers : Unspent(logins, session[b], cookie[b], Only(b))

\* The codes whose tokens b has, in the store, in a copy or on their way there
Tokens(b) ==
    session[b].tokens \cup Only(b).sess.tokens
        \cup (IF Only(b).phase = "granted" THEN Only(b).code ELSE {})

TokensInv ==
    /\ SerialInv
    /\ \A b \in Browsers : Tokens(b) \subseteq redeemed \ loggedOut
    /\ \A b, d \in Browsers : b # d => Tokens(b) \cap Tokens(d) = {}
    /\ loggedOut \subseteq redeemed

-----------------------------------------------------------------------------
(* One tab *)

LEMMA TheOnlyTab == OneTab => TheTab \in Tabs /\ Tabs = {TheTab}
  BY DEF OneTab, TheTab

\* What the request of one browser does leaves the other browsers alone.
LEMMA OnlyMoves ==
    ASSUME OneTab, TypeOK, NEW b \in Browsers, NEW next \in Request,
           req' = [req EXCEPT ![b][TheTab] = next]
    PROVE  /\ Only(b)' = next
           /\ \A d \in Browsers \ {b} : Only(d)' = Only(d)
           /\ \A d \in Browsers : Only(d) \in Request
  BY TheOnlyTab DEF TypeOK, Only

LEMMA OnlyTyped ==
    ASSUME OneTab, TypeOK, NEW b \in Browsers
    PROVE  /\ Only(b) \in Request /\ session[b] \in Session
           /\ cookie[b] \in SUBSET PendingState
  BY TheOnlyTab DEF TypeOK, Only

\* With one tab a reply ends the request and touches no other.
LEMMA RespondEffect ==
    ASSUME OneTab, TypeOK, NEW b \in Browsers, Respond(b, TheTab)
    PROVE  LET r == req[b][TheTab] IN
           /\ r.phase \in {"redirect", "respond"}
           /\ UNCHANGED <<clock, codeState, redeemed, logins, loggedOut>>
           /\ req' = [req EXCEPT ![b][TheTab] = Idle]
           /\ \E arrives \in {TRUE, ~LossyReplies} :
                /\ Saves(r, arrives) => session' = [session EXCEPT ![b] = r.sess]
                /\ ~Saves(r, arrives) => session' = session
                /\ arrives /\ r.dirty /\ ~r.sess.exists =>
                     cookie' = [cookie EXCEPT ![b] = r.jar]
                /\ ~(arrives /\ r.dirty /\ ~r.sess.exists) => cookie' = cookie
  <1> DEFINE r == req[b][TheTab]
  <1>1. /\ r.phase \in {"redirect", "respond"}
        /\ UNCHANGED <<clock, codeState, redeemed, logins, loggedOut>>
        /\ \E arrives \in {TRUE, ~LossyReplies} :
             /\ session' = IF Saves(r, arrives) THEN [session EXCEPT ![b] = r.sess] ELSE session
             /\ cookie' = IF arrives /\ r.dirty /\ ~r.sess.exists
                          THEN [cookie EXCEPT ![b] = r.jar] ELSE cookie
             /\ \E row \in [Tabs -> Request \cup {Idle}] :
                  /\ req' = [req EXCEPT ![b] = row]
                  /\ row[TheTab] = Idle
    <2>1. PICK arrives \in {TRUE, ~LossyReplies} :
            LET adopts == Saves(r, arrives) /\ r.link = "fresh" IN
            /\ session' = IF Saves(r, arrives) THEN [session EXCEPT ![b] = r.sess] ELSE session
            /\ cookie' = IF arrives /\ r.dirty /\ ~r.sess.exists
                         THEN [cookie EXCEPT ![b] = r.jar] ELSE cookie
            /\ req' = [req EXCEPT ![b] = [u \in Tabs |->
                 CASE u = TheTab -> Idle
                   [] u # TheTab /\ adopts /\ req[b][u].link = "current" ->
                        [req[b][u] EXCEPT !.link = "orphan"]
                   [] OTHER -> req[b][u]]]
      BY DEF Respond
    <2> DEFINE row == [u \in Tabs |->
                 CASE u = TheTab -> Idle
                   [] u # TheTab /\ (Saves(r, arrives) /\ r.link = "fresh")
                        /\ req[b][u].link = "current" ->
                        [req[b][u] EXCEPT !.link = "orphan"]
                   [] OTHER -> req[b][u]]
    <2>2. row[TheTab] = Idle /\ row \in [Tabs -> Request \cup {Idle}]
      BY TheOnlyTab
    <2>3. req' = [req EXCEPT ![b] = row]
      BY <2>1
    <2> HIDE DEF row
    <2> QED
      BY <2>1, <2>2, <2>3 DEF Respond, keycloakVars
  <1>2. req' = [req EXCEPT ![b][TheTab] = Idle]
    <2>1. PICK row \in [Tabs -> Request \cup {Idle}] :
            req' = [req EXCEPT ![b] = row] /\ row[TheTab] = Idle
      BY <1>1
    <2>2. row = [req[b] EXCEPT ![TheTab] = Idle]
      BY <2>1, TheOnlyTab DEF TypeOK
    <2> QED
      BY <2>1, <2>2
  <1> QED
    BY <1>1, <1>2

-----------------------------------------------------------------------------
(* The copy and the record: one lemma per handler *)

LEMMA UnmovedSerial ==
    ASSUME OneTab, SerialInv, clock' \in Nat, clock <= clock', NEW d \in Browsers,
           session'[d] = session[d] /\ cookie'[d] = cookie[d] /\ Only(d)' = Only(d)
    PROVE  Serial(clock', session'[d], cookie'[d], Only(d)')
  <1>1. TypeOK /\ clock \in Nat
    BY DEF SerialInv, PendingInv, LoginInv, TypeOK
  <1>2. session[d] \in Session
    BY <1>1, OnlyTyped
  <1>3. Serial(clock, session[d], cookie[d], Only(d))
    BY DEF SerialInv
  <1>4. \A p \in session[d].pending : p.expiresAt <= clock => p.expiresAt <= clock'
    BY <1>1, <1>2 DEF Session, PendingState
  <1>5. Justified(clock', session[d], Only(d))
    BY <1>3, <1>4 DEF Serial, Justified
  <1> QED
    BY <1>3, <1>5 DEF Serial

LEMMA OneMoves ==
    ASSUME OneTab, SerialInv, PendingInv', UNCHANGED clock, NEW b \in Browsers,
           NEW next \in Request, req' = [req EXCEPT ![b][TheTab] = next],
           \A d \in Browsers \ {b} : session'[d] = session[d] /\ cookie'[d] = cookie[d],
           Serial(clock, session'[b], cookie'[b], next)
    PROVE  SerialInv'
  <1>1. TypeOK /\ clock \in Nat /\ clock <= clock
    BY DEF SerialInv, PendingInv, LoginInv, TypeOK
  <1>2. /\ Only(b)' = next
        /\ \A d \in Browsers \ {b} : Only(d)' = Only(d)
    BY <1>1, OnlyMoves
  <1>3. ASSUME NEW d \in Browsers
        PROVE  Serial(clock', session'[d], cookie'[d], Only(d)')
    <2>1. CASE d = b
      BY <1>2, <2>1
    <2>2. CASE d # b
      BY <1>1, <1>2, <2>2, UnmovedSerial
    <2> QED
      BY <2>1, <2>2
  <1> QED
    BY <1>3 DEF SerialInv

LEMMA ArriveSerial ==
    ASSUME OneTab, SerialInv, PendingInv', NEW b \in Browsers, Arrive(b, TheTab)
    PROVE  SerialInv'
  <1> DEFINE stored == session[b]
             r      == req[b][TheTab]
             jar    == cookie[b]
  <1>1. /\ TypeOK /\ TheTab \in Tabs /\ Serial(clock, stored, jar, r)
        /\ stored \in Session
    BY TheOnlyTab, OnlyTyped DEF SerialInv, PendingInv, LoginInv, Only
  <1>2. PICK next \in Request :
           /\ req' = [req EXCEPT ![b][TheTab] = next]
           /\ next.phase \in {"login", "callback", "logout", "clear"}
           /\ next.phase = "clear" => next.state = Missing /\ next.code = {}
           /\ stored.exists => next.link = "current"
           /\ ~stored.exists => next.link = "fresh"
           /\ next.sess = LoadedSession(b) /\ next.jar = SentCookie(b)
           /\ next.dirty = FALSE
    BY <1>1, ArriveEffect
  <1>3. UNCHANGED <<clock, session, cookie>>
    BY <1>1, ArriveEffect
  <1>4. /\ next.sess.exists => SessionInstalled
        /\ SessionInstalled => next.sess.exists
        /\ next.sess.pending = stored.pending /\ next.sess.tokens = stored.tokens
    BY <1>1, <1>2 DEF LoadedSession, NoSession, Serial, Attached
  <1>5. SessionInstalled => jar = {} /\ next.jar = {}
    BY <1>1, <1>2 DEF SentCookie, Unexpired, Serial, Cookieless
  <1> HIDE DEF stored, r, jar
  <1>6. Attached(stored, next)
    BY <1>1, <1>2, <1>4 DEF Serial, Attached
  <1>7. Cookieless(jar, next) /\ Justified(clock, stored, next) /\ Parameters(next)
    BY <1>2, <1>4, <1>5 DEF Cookieless, Justified, Parameters
  <1>8. Serial(clock, session'[b], cookie'[b], next)
    BY <1>3, <1>6, <1>7 DEF Serial, stored, jar
  <1> QED
    BY <1>2, <1>3, <1>8, OneMoves

LEMMA StartLoginSerial ==
    ASSUME OneTab, SerialInv, PendingInv', NEW b \in Browsers, StartLogin(b, TheTab)
    PROVE  SerialInv'
  <1> DEFINE stored == session[b]
             r      == req[b][TheTab]
             entry  == [value |-> Len(logins) + 1, expiresAt |-> clock + Ttl]
             full   == Unexpired(r.sess.pending, clock) \cup {entry}
  <1>1. /\ TypeOK /\ TheTab \in Tabs /\ Serial(clock, stored, cookie[b], r)
        /\ stored \in Session /\ r \in Request
        /\ Listed(logins, r.sess.pending)
    BY TheOnlyTab, OnlyTyped DEF SerialInv, PendingInv, LoginInv, Only
  <1>2. PICK next \in Request :
           /\ req' = [req EXCEPT ![b][TheTab] = next]
           /\ next.phase = "redirect" /\ next.state = Len(logins) + 1
           /\ next.code = r.code /\ next.link = r.link /\ next.dirty = TRUE
           /\ next.sess.exists = r.sess.exists /\ next.sess.tokens = r.sess.tokens
           /\ r.sess.exists => /\ next.sess.pending = AddPending(r.sess.pending, entry, clock)
                               /\ next.jar = r.jar
           /\ ~r.sess.exists => next.sess.pending = r.sess.pending /\ next.jar = {entry}
    BY <1>1, StartLoginEffect
  <1>3. UNCHANGED <<clock, session, cookie>> /\ r.phase = "login" /\ entry \in PendingState
    BY <1>1, StartLoginEffect
  <1>4. clock \in Nat /\ logins \in Seq(Login) /\ r.sess.pending \in SUBSET PendingState
    BY <1>1 DEF TypeOK, Request, Session
  <1>5. /\ full \in SUBSET PendingState /\ IsFiniteSet(full) /\ Distinct(full)
        /\ Len(logins) + 1 \in Nat /\ \A p \in full : p.value <= Len(logins) + 1
    <2> DEFINE login == [browser |-> b, expiresAt |-> clock + Ttl, uses |-> 0]
    <2>1. /\ login \in Login /\ Len(logins) \in Nat /\ Len(logins) + 1 \in Nat
          /\ entry.value = Len(logins) + 1 /\ entry.expiresAt = login.expiresAt
      BY <1>4, TtlAssumption DEF Login
    <2> HIDE DEF login, entry
    <2>2. /\ full \in SUBSET PendingState
          /\ IsFiniteSet(full) /\ Distinct(full)
          /\ \A p \in full : p.value <= Len(logins) + 1
      BY <1>1, <1>3, <1>4, <2>1, AddPendingListed
    <2> QED
      BY <2>1, <2>2
  <1>6. AddPending(r.sess.pending, entry, clock) = Newest(full)
    BY DEF AddPending
  <1> HIDE DEF entry, full
  <1>7. ASSUME r.sess.exists, NEW p \in stored.pending \ next.sess.pending
        PROVE  p.expiresAt <= clock \/ MakesRoom(next, p, next.sess.pending)
    <2>1. r.sess.pending = stored.pending /\ p \in PendingState
      BY <1>1, <1>3, <1>7 DEF Serial, Attached, Arrived, Session
    <2>2. CASE p \notin full
      BY <1>4, <2>1, <2>2 DEF full, Unexpired, PendingState
    <2>3. CASE p \in full
      <3>1. p \in full \ Newest(full)
        BY <1>2, <1>6, <1>7, <2>3
      <3>2. /\ Cardinality(Newest(full)) = MaxPending
            /\ \A q \in Newest(full) : q.value > p.value
        BY <1>5, <3>1, NewestFull
      <3>3. {q \in Newest(full) : q.value > p.value} = Newest(full)
        BY <3>2
      <3> QED
        BY <1>2, <1>6, <1>7, <3>2, <3>3 DEF MakesRoom
    <2> QED
      BY <2>2, <2>3
  <1> HIDE DEF stored, r
  <1>8. Attached(stored, next) /\ Parameters(next)
    BY <1>1, <1>2, <1>3 DEF Serial, Attached, Parameters, Arrived
  <1>9. Justified(clock, stored, next)
    BY <1>1, <1>2, <1>3, <1>7 DEF Serial, Attached, Justified, Arrived
  <1>10. Cookieless(cookie[b], next)
    BY <1>1, <1>2, <1>3 DEF Serial, Attached, Cookieless
  <1>11. Serial(clock, session'[b], cookie'[b], next)
    BY <1>3, <1>8, <1>9, <1>10 DEF Serial, stored
  <1> QED
    BY <1>2, <1>3, <1>11, OneMoves

LEMMA VerifyStateSerial ==
    ASSUME OneTab, SerialInv, PendingInv', NEW b \in Browsers, VerifyState(b, TheTab)
    PROVE  SerialInv'
  <1> DEFINE stored == session[b]
             r      == req[b][TheTab]
             found  == r.state # Missing /\ Matches(Candidates(r), r.state)
  <1>1. /\ TypeOK /\ TheTab \in Tabs /\ Serial(clock, stored, cookie[b], r)
        /\ stored \in Session /\ r \in Request
    BY TheOnlyTab, OnlyTyped DEF SerialInv, PendingInv, LoginInv, Only
  <1>2. PICK next \in Request :
           /\ req' = [req EXCEPT ![b][TheTab] = next]
           /\ next.phase \in {"exchange", "respond"}
           /\ next.phase = "exchange" => r.code # {}
           /\ next.state = r.state /\ next.code = r.code /\ next.link = r.link
           /\ next.sess.exists = r.sess.exists /\ next.sess.tokens = r.sess.tokens
           /\ found => /\ next.sess.pending = Burn(r.sess.pending, r.state)
                       /\ next.jar = {} /\ next.dirty = TRUE
           /\ ~found => /\ next.sess.pending = r.sess.pending
                        /\ next.jar = r.jar /\ next.dirty = r.dirty
    BY <1>1, VerifyStateEffect
  <1>3. UNCHANGED <<clock, session, cookie>> /\ r.phase = "callback"
    BY <1>1, VerifyStateEffect
  <1> HIDE DEF stored, r, found
  <1>4. Attached(stored, next)
    <2>1. ~r.dirty /\ (SessionInstalled => r.sess.exists)
      BY <1>1, <1>3 DEF Serial, Attached, Arrived
    <2> QED
      BY <1>1, <1>2, <1>3, <2>1 DEF Serial, Attached, Arrived
  <1>5. Cookieless(cookie[b], next) /\ Parameters(next)
    BY <1>1, <1>2, <1>3 DEF Serial, Cookieless, Parameters
  <1>6. Justified(clock, stored, next)
    <2> SUFFICES ASSUME next.sess.exists
                 PROVE  /\ next.sess.tokens = stored.tokens
                        /\ \A p \in stored.pending \ next.sess.pending : next.state = p.value
      BY <1>2 DEF Justified
    <2>1. r.sess.pending = stored.pending /\ r.sess.tokens = stored.tokens
      BY <1>1, <1>2, <1>3 DEF Serial, Attached, Arrived
    <2> QED
      BY <1>2, <2>1 DEF Burn
  <1>7. Serial(clock, session'[b], cookie'[b], next)
    BY <1>3, <1>4, <1>5, <1>6 DEF Serial, stored
  <1> QED
    BY <1>2, <1>3, <1>7, OneMoves

LEMMA MoveSerial ==
    ASSUME OneTab, SerialInv, PendingInv', NEW b \in Browsers,
           \/ RedeemCode(b, TheTab) \/ RefuseCode(b, TheTab)
           \/ RejectGrant(b, TheTab) \/ RevokeSession(b, TheTab)
    PROVE  SerialInv'
  <1> DEFINE stored == session[b]
             r      == req[b][TheTab]
  <1>1. /\ TypeOK /\ TheTab \in Tabs /\ Serial(clock, stored, cookie[b], r)
    BY TheOnlyTab DEF SerialInv, PendingInv, LoginInv, Only
  <1>2. PICK next \in Request :
           /\ req' = [req EXCEPT ![b][TheTab] = next]
           /\ next.sess = r.sess /\ next.jar = r.jar /\ next.dirty = r.dirty
           /\ next.link = r.link /\ next.state = r.state /\ next.code = r.code
           /\ \/ r.phase = "logout" /\ next.phase = "revoked"
              \/ r.phase \in {"exchange", "granted"} /\ next.phase \in {"granted", "respond"}
    BY <1>1, MoveEffect
  <1>3. UNCHANGED <<clock, session, cookie>>
    BY <1>1, MoveEffect
  <1> HIDE DEF stored, r
  <1>4. Attached(stored, next)
    BY <1>1, <1>2 DEF Serial, Attached, Arrived
  <1>5. Cookieless(cookie[b], next) /\ Parameters(next)
    BY <1>1, <1>2 DEF Serial, Cookieless, Parameters
  <1>6. Justified(clock, stored, next)
    BY <1>1, <1>2 DEF Serial, Justified, ClearsAll, MakesRoom
  <1>7. Serial(clock, session'[b], cookie'[b], next)
    BY <1>3, <1>4, <1>5, <1>6 DEF Serial, stored
  <1> QED
    BY <1>2, <1>3, <1>7, OneMoves

LEMMA PersistGrantSerial ==
    ASSUME OneTab, SerialInv, PendingInv', NEW b \in Browsers, PersistGrant(b, TheTab)
    PROVE  SerialInv'
  <1> DEFINE stored == session[b]
             r      == req[b][TheTab]
  <1>1. /\ TypeOK /\ TheTab \in Tabs /\ Serial(clock, stored, cookie[b], r)
    BY TheOnlyTab DEF SerialInv, PendingInv, LoginInv, Only
  <1>2. PICK next \in Request :
           /\ req' = [req EXCEPT ![b][TheTab] = next]
           /\ next.phase = "respond" /\ next.state = r.state /\ next.code = r.code
           /\ next.link = r.link /\ next.jar = r.jar
           /\ next.sess.exists = r.sess.exists /\ next.sess.pending = r.sess.pending
           /\ \/ next.sess.tokens = r.sess.tokens /\ next.dirty = r.dirty
              \/ r.sess.exists /\ next.sess.tokens = r.code /\ next.dirty = TRUE
    BY <1>1, PersistGrantEffect
  <1>3. UNCHANGED <<clock, session, cookie>> /\ r.phase = "granted"
    BY <1>1, PersistGrantEffect
  <1> HIDE DEF stored, r
  <1>4. Attached(stored, next)
    BY <1>1, <1>2, <1>3 DEF Serial, Attached, Arrived
  <1>5. Cookieless(cookie[b], next) /\ Parameters(next)
    BY <1>1, <1>2, <1>3 DEF Serial, Cookieless, Parameters
  <1>6. Justified(clock, stored, next)
    <2> SUFFICES ASSUME next.sess.exists
                 PROVE  /\ \/ next.sess.tokens = stored.tokens
                           \/ next.code # {} /\ next.sess.tokens = next.code
                        /\ \A p \in stored.pending \ next.sess.pending :
                              p.expiresAt <= clock \/ next.state = p.value
      BY <1>2 DEF Justified
    <2>1. /\ r.code # {}
          /\ r.sess.tokens = stored.tokens \/ r.sess.tokens = r.code
          /\ \A p \in stored.pending \ r.sess.pending : p.expiresAt <= clock \/ r.state = p.value
      BY <1>1, <1>2, <1>3 DEF Serial, Justified, Parameters, ClearsAll, MakesRoom
    <2> QED
      BY <1>2, <2>1
  <1>7. Serial(clock, session'[b], cookie'[b], next)
    BY <1>3, <1>4, <1>5, <1>6 DEF Serial, stored
  <1> QED
    BY <1>2, <1>3, <1>7, OneMoves

LEMMA ClearPendingSerial ==
    ASSUME OneTab, SerialInv, PendingInv', NEW b \in Browsers, ClearPending(b, TheTab)
    PROVE  SerialInv'
  <1> DEFINE stored == session[b]
             r      == req[b][TheTab]
  <1>1. /\ TypeOK /\ TheTab \in Tabs /\ Serial(clock, stored, cookie[b], r)
        /\ stored \in Session /\ r \in Request
    BY TheOnlyTab, OnlyTyped DEF SerialInv, PendingInv, LoginInv, Only
  <1>2. PICK next \in Request :
           /\ req' = [req EXCEPT ![b][TheTab] = next]
           /\ next.phase = "respond" /\ next.state = r.state /\ next.code = r.code
           /\ next.link = r.link /\ next.jar = {}
           /\ next.sess.exists = r.sess.exists /\ next.sess.tokens = r.sess.tokens
           /\ next.sess.pending = {}
           /\ next.dirty <=> r.link # "current" \/ r.sess.pending # {}
    BY <1>1, ClearPendingEffect
  <1>3. UNCHANGED <<clock, session, cookie>> /\ r.phase = "clear"
    BY <1>1, ClearPendingEffect
  <1> HIDE DEF stored, r
  <1>4. ~next.dirty => r.sess.pending = {}
    BY <1>2
  <1>5. /\ ~r.dirty /\ (SessionInstalled => r.sess.exists)
        /\ r.state = Missing /\ r.code = {}
        /\ r.sess.exists => r.sess.pending = stored.pending /\ r.sess.tokens = stored.tokens
    BY <1>1, <1>3 DEF Serial, Attached, Parameters, Arrived
  <1>6. Attached(stored, next)
    BY <1>1, <1>2, <1>3, <1>4, <1>5 DEF Serial, Attached, Arrived
  <1>7. Cookieless(cookie[b], next) /\ Parameters(next)
    BY <1>1, <1>2, <1>3 DEF Serial, Cookieless, Parameters
  <1>8. Justified(clock, stored, next)
    BY <1>2, <1>5 DEF Justified, ClearsAll
  <1>9. Serial(clock, session'[b], cookie'[b], next)
    BY <1>3, <1>6, <1>7, <1>8 DEF Serial, stored
  <1> QED
    BY <1>2, <1>3, <1>9, OneMoves

LEMMA ClearSessionSerial ==
    ASSUME OneTab, SerialInv, PendingInv', NEW b \in Browsers,
           ClearSession(b, TheTab) \/ FailToClearSession(b, TheTab)
    PROVE  SerialInv'
  <1> DEFINE stored == session[b]
             r      == req[b][TheTab]
  <1>1. /\ TypeOK /\ TheTab \in Tabs /\ Serial(clock, stored, cookie[b], r)
        /\ stored \in Session /\ r \in Request
    BY TheOnlyTab, OnlyTyped DEF SerialInv, PendingInv, LoginInv, Only
  <1>2. PICK next \in Request :
           /\ req' = [req EXCEPT ![b][TheTab] = next]
           /\ next.phase = "respond" /\ next.state = r.state /\ next.code = r.code
           /\ next.link = r.link /\ next.jar = r.jar
           /\ next.sess = NoSession /\ next.dirty = FALSE
    BY <1>1, ClearSessionEffect
  <1>3. /\ UNCHANGED <<clock, cookie>> /\ r.phase = "revoked"
        /\ session' \in {session, [session EXCEPT ![b] = NoSession]}
    BY <1>1, ClearSessionEffect
  <1>4. /\ session'[b] \in {stored, NoSession}
        /\ \A d \in Browsers \ {b} : session'[d] = session[d] /\ cookie'[d] = cookie[d]
    BY <1>1, <1>3 DEF TypeOK
  <1> HIDE DEF stored, r
  <1>5. ~NoSession.exists /\ NoSession.pending = {}
    BY DEF NoSession
  <1>6. Attached(stored, next) /\ Attached(NoSession, next)
    BY <1>1, <1>2, <1>3, <1>5 DEF Serial, Attached, Arrived
  <1>7. Cookieless(cookie[b], next) /\ Parameters(next)
    BY <1>1, <1>2, <1>3 DEF Serial, Cookieless, Parameters
  <1>8. Justified(clock, session'[b], next)
    BY <1>2, <1>5 DEF Justified
  <1>9. Serial(clock, session'[b], cookie'[b], next)
    BY <1>3, <1>4, <1>6, <1>7, <1>8 DEF Serial
  <1> QED
    BY <1>2, <1>3, <1>4, <1>9, OneMoves

LEMMA RespondSerial ==
    ASSUME OneTab, SerialInv, PendingInv', NEW b \in Browsers, Respond(b, TheTab)
    PROVE  SerialInv'
  <1> DEFINE stored == session[b]
             r      == req[b][TheTab]
  <1>1. /\ TypeOK /\ TheTab \in Tabs /\ Serial(clock, stored, cookie[b], r)
        /\ stored \in Session /\ r \in Request
    BY TheOnlyTab, OnlyTyped DEF SerialInv, PendingInv, LoginInv, Only
  <1>2. /\ UNCHANGED clock /\ req' = [req EXCEPT ![b][TheTab] = Idle]
        /\ r.phase \in {"redirect", "respond"}
    BY <1>1, RespondEffect
  <1>3. PICK arrives \in {TRUE, ~LossyReplies} :
          /\ Saves(r, arrives) => session' = [session EXCEPT ![b] = r.sess]
          /\ ~Saves(r, arrives) => session' = session
          /\ arrives /\ r.dirty /\ ~r.sess.exists => cookie' = [cookie EXCEPT ![b] = r.jar]
          /\ ~(arrives /\ r.dirty /\ ~r.sess.exists) => cookie' = cookie
    BY <1>1, RespondEffect
  <1>4. /\ session'[b] = stored \/ (r.sess.exists /\ session'[b] = r.sess)
        /\ SessionInstalled => cookie'[b] = cookie[b]
        /\ \A d \in Browsers \ {b} : session'[d] = session[d] /\ cookie'[d] = cookie[d]
    <2>1. session'[b] = stored \/ (r.sess.exists /\ session'[b] = r.sess)
      BY <1>1, <1>3 DEF TypeOK, Saves
    <2>2. SessionInstalled => ~(r.dirty /\ ~r.sess.exists)
      BY <1>1 DEF Serial, Attached
    <2> QED
      BY <1>1, <1>3, <2>1, <2>2 DEF TypeOK
  <1> HIDE DEF stored, r
  <1>5. /\ Idle.phase = "idle" /\ Idle.dirty = FALSE /\ Idle.jar = {} /\ ~Idle.sess.exists
        /\ Idle \in Request
    BY IdleType DEF Idle, NoSession
  <1>6. Attached(session'[b], Idle)
    BY <1>1, <1>4, <1>5 DEF Serial, Attached, Arrived
  <1>7. Cookieless(cookie'[b], Idle) /\ Justified(clock, session'[b], Idle) /\ Parameters(Idle)
    BY <1>1, <1>4, <1>5 DEF Serial, Cookieless, Justified, Parameters
  <1>8. Serial(clock, session'[b], cookie'[b], Idle)
    BY <1>6, <1>7 DEF Serial
  <1> QED
    BY <1>2, <1>4, <1>5, <1>8, OneMoves

LEMMA SerialInvStep ==
    ASSUME OneTab
    PROVE  SerialInv /\ [Next]_vars => SerialInv'
  <1> SUFFICES ASSUME SerialInv, [Next]_vars
               PROVE  SerialInv'
    OBVIOUS
  <1>1. PendingInv' /\ TheTab \in Tabs /\ Tabs = {TheTab} /\ clock \in Nat
    BY PendingInvStep, TheOnlyTab DEF SerialInv, PendingInv, LoginInv, TypeOK
  <1>2. ASSUME NEW b \in Browsers, Arrive(b, TheTab) \/ Handle(b, TheTab)
        PROVE  SerialInv'
    BY <1>1, <1>2, ArriveSerial, StartLoginSerial, VerifyStateSerial, MoveSerial,
       PersistGrantSerial, ClearSessionSerial, ClearPendingSerial, RespondSerial DEF Handle
  <1>3. ASSUME UNCHANGED <<session, cookie, req>>, clock' \in Nat, clock <= clock'
        PROVE  SerialInv'
    <2>1. ASSUME NEW d \in Browsers
          PROVE  Serial(clock', session'[d], cookie'[d], Only(d)')
      BY <1>3, UnmovedSerial DEF Only
    <2> QED
      BY <1>1, <2>1 DEF SerialInv
  <1>4. CASE \E b \in Browsers, t \in Tabs : Arrive(b, t) \/ Handle(b, t)
    BY <1>1, <1>2, <1>4
  <1>5. CASE (\E c \in Codes : Authenticate(c)) \/ Tick \/ UNCHANGED vars
    <2>1. UNCHANGED <<session, cookie, req>> /\ clock' \in Nat /\ clock <= clock'
      BY <1>1, <1>5 DEF Authenticate, Tick, vars
    <2> QED
      BY <1>3, <2>1
  <1> QED
    BY <1>4, <1>5 DEF Next

LEMMA SerialInvInit ==
    ASSUME OneTab
    PROVE  Init => SerialInv
  <1> SUFFICES ASSUME Init
               PROVE  SerialInv
    OBVIOUS
  <1>1. PendingInv
    BY PendingInvInit
  <1>2. /\ Idle.phase = "idle" /\ Idle.dirty = FALSE /\ Idle.jar = {}
        /\ ~Idle.sess.exists /\ ~NoSession.exists
    BY DEF Idle, NoSession
  <1>3. ASSUME NEW b \in Browsers
        PROVE  Serial(clock, session[b], cookie[b], Only(b))
    <2>1. session[b] = NoSession /\ cookie[b] = {} /\ Only(b) = Idle
      BY TheOnlyTab DEF Init, Only
    <2> QED
      BY <1>2, <2>1 DEF Serial, Attached, Cookieless, Justified, Parameters, Arrived
  <1> QED
    BY <1>1, <1>3 DEF SerialInv

-----------------------------------------------------------------------------
(* What a reply does to the record *)

\* A browser's record changes when it logs out, or when a reply writes its
\* request's copy back.
LEMMA RecordStep ==
    ASSUME OneTab, SerialInv, [Next]_vars, NEW b \in Browsers, session'[b] # session[b]
    PROVE  \/ LogsOut(b, TheTab)
           \/ /\ TheTab \in Replying(b)
              /\ Only(b).sess.exists /\ session'[b] = Only(b).sess
              /\ Serial(clock, session[b], cookie[b], Only(b))
  <1>1. /\ TypeOK /\ TheTab \in Tabs /\ Tabs = {TheTab}
        /\ Serial(clock, session[b], cookie[b], Only(b))
    BY TheOnlyTab DEF SerialInv, PendingInv, LoginInv
  <1>2. PICK d \in Browsers : \/ ClearSession(d, TheTab)
                              \/ Respond(d, TheTab)
    <2>1. ASSUME NEW d \in Browsers, Arrive(d, TheTab)
          PROVE  UNCHANGED session
      BY <2>1 DEF Arrive, SendLogin, SendCallback, SendLogout, SendClear, Send
    <2>2. ASSUME NEW d \in Browsers, Handle(d, TheTab),
                 ~ClearSession(d, TheTab), ~Respond(d, TheTab)
          PROVE  UNCHANGED session
      BY <2>2 DEF Handle, StartLogin, VerifyState, RedeemCode, RefuseCode, PersistGrant,
                  RejectGrant, RevokeSession, FailToClearSession, ClearPending
    <2>3. Tick \/ UNCHANGED vars \/ (\E c \in Codes : Authenticate(c)) => UNCHANGED session
      BY DEF Tick, vars, Authenticate
    <2> QED
      BY <1>1, <2>1, <2>2, <2>3 DEF Next
  <1>3. CASE ClearSession(d, TheTab)
    <2>1. PICK next \in Request : /\ req' = [req EXCEPT ![d][TheTab] = next]
                                  /\ next.phase = "respond"
      BY <1>1, <1>3, ClearSessionEffect
    <2>2. /\ req[d][TheTab].phase = "revoked"
          /\ session' \in {session, [session EXCEPT ![d] = NoSession]}
      BY <1>1, <1>3, ClearSessionEffect
    <2>3. d = b
      BY <1>1, <2>2 DEF TypeOK
    <2> QED
      BY <1>1, <2>1, <2>2, <2>3 DEF TypeOK, LogsOut
  <1>4. CASE Respond(d, TheTab)
    <2>1. /\ req[d][TheTab].phase \in {"redirect", "respond"}
          /\ req' = [req EXCEPT ![d][TheTab] = Idle]
      BY <1>1, <1>4, RespondEffect
    <2>2. \/ session' = session
          \/ /\ req[d][TheTab].sess.exists
             /\ session' = [session EXCEPT ![d] = req[d][TheTab].sess]
      BY <1>1, <1>4 DEF Respond, Saves
    <2>3. /\ d = b /\ req[b][TheTab].sess.exists
          /\ session'[b] = req[b][TheTab].sess
      BY <1>1, <2>2 DEF TypeOK
    <2>4. Idle.phase = "idle" /\ req'[b][TheTab] = Idle
      BY <1>1, <2>1, <2>3 DEF TypeOK, Idle
    <2> QED
      BY <1>1, <2>1, <2>3, <2>4 DEF Only, Replying
  <1> QED
    BY <1>2, <1>3, <1>4

-----------------------------------------------------------------------------
(* How often a state is accepted *)

LEMMA OneUses ==
    ASSUME OneTab, UsesInv, SerialInv', SingleUse', NEW b \in Browsers,
           NEW next \in Request, req' = [req EXCEPT ![b][TheTab] = next],
           \A d \in Browsers \ {b} : session'[d] = session[d] /\ cookie'[d] = cookie[d],
           \A i \in 1..Len(logins) : logins[i].browser # b => logins'[i].uses = logins[i].uses,
           Unspent(logins', session'[b], cookie'[b], next)
    PROVE  UsesInv'
  <1>1. TypeOK /\ LoginInv /\ TheTab \in Tabs
    BY TheOnlyTab DEF UsesInv, SerialInv, PendingInv, LoginInv
  <1>2. /\ Only(b)' = next
        /\ \A d \in Browsers \ {b} : Only(d)' = Only(d)
    BY <1>1, OnlyMoves
  <1>3. ASSUME NEW d \in Browsers, d # b
        PROVE  Unspent(logins', session'[d], cookie'[d], Only(d)')
    <2>1. ASSUME NEW states, Owned(logins, states, d), Unused(logins, states)
          PROVE  Unused(logins', states)
      BY <1>3, <2>1 DEF Owned, Unused
    <2>2. /\ Owned(logins, session[d].pending, d) /\ Owned(logins, cookie[d], d)
          /\ Owned(logins, Only(d).sess.pending, d) /\ Owned(logins, Only(d).jar, d)
      BY <1>1 DEF LoginInv, StoreFits, RequestsFit, Fits, Only
    <2>3. Unspent(logins, session[d], cookie[d], Only(d))
      BY DEF UsesInv
    <2>4. Unspent(logins', session[d], cookie[d], Only(d))
      BY <2>1, <2>2, <2>3 DEF Unspent
    <2> QED
      BY <1>2, <1>3, <2>4
  <1> QED
    BY <1>2, <1>3 DEF UsesInv

LEMMA ArriveUses ==
    ASSUME OneTab, UsesInv, SerialInv', NEW b \in Browsers, Arrive(b, TheTab)
    PROVE  UsesInv'
  <1> DEFINE stored == session[b]
             r      == req[b][TheTab]
  <1>1. /\ TypeOK /\ TheTab \in Tabs /\ Serial(clock, stored, cookie[b], r)
        /\ Unspent(logins, stored, cookie[b], r)
    BY TheOnlyTab DEF UsesInv, SerialInv, PendingInv, LoginInv, Only
  <1>2. PICK next \in Request :
           /\ req' = [req EXCEPT ![b][TheTab] = next]
           /\ next.sess = LoadedSession(b) /\ next.jar = SentCookie(b)
    BY <1>1, ArriveEffect
  <1>3. r.phase = "idle" /\ UNCHANGED <<logins, session, cookie>>
    BY <1>1, ArriveEffect
  <1>4. next.sess.pending \in {stored.pending, {}} /\ next.jar \in SUBSET cookie[b]
    BY <1>2 DEF LoadedSession, SentCookie, Unexpired
  <1>5. ~r.dirty
    BY <1>1, <1>3 DEF Serial, Attached, Idle
  <1> HIDE DEF stored, r
  <1>6. Unspent(logins, stored, cookie[b], next)
    BY <1>1, <1>4, <1>5 DEF Unspent, Unused
  <1>7. SingleUse'
    BY <1>3 DEF UsesInv, SingleUse
  <1> QED
    BY <1>2, <1>3, <1>6, <1>7, OneUses DEF stored

LEMMA StartLoginUses ==
    ASSUME OneTab, UsesInv, SerialInv', NEW b \in Browsers, StartLogin(b, TheTab)
    PROVE  UsesInv'
  <1> DEFINE stored == session[b]
             r      == req[b][TheTab]
             entry  == [value |-> Len(logins) + 1, expiresAt |-> clock + Ttl]
             login  == [browser |-> b, expiresAt |-> clock + Ttl, uses |-> 0]
  <1>1. /\ TypeOK /\ TheTab \in Tabs /\ logins \in Seq(Login)
        /\ Unspent(logins, stored, cookie[b], r)
        /\ Recorded(logins, r.sess.pending) /\ Recorded(logins, r.jar)
    BY TheOnlyTab DEF UsesInv, SerialInv, PendingInv, LoginInv, TypeOK, Only, Listed
  <1>2. PICK next \in Request :
           /\ req' = [req EXCEPT ![b][TheTab] = next]
           /\ next.phase = "redirect" /\ next.state = Len(logins) + 1
           /\ next.code = r.code /\ next.link = r.link /\ next.dirty = TRUE
           /\ next.sess.exists = r.sess.exists /\ next.sess.tokens = r.sess.tokens
           /\ r.sess.exists => /\ next.sess.pending = AddPending(r.sess.pending, entry, clock)
                               /\ next.jar = r.jar
           /\ ~r.sess.exists => next.sess.pending = r.sess.pending /\ next.jar = {entry}
    BY <1>1, StartLoginEffect
  <1>3. logins' = Append(logins, login) /\ UNCHANGED <<session, cookie>>
    BY <1>1, StartLoginEffect
  <1>4. entry.value = Len(logins) + 1 /\ login.uses = 0
    OBVIOUS
  <1> HIDE DEF entry, login, stored, r
  <1>5. /\ Len(logins) \in Nat /\ Len(logins') = Len(logins) + 1
        /\ \A i \in 1..Len(logins) : logins'[i] = logins[i]
        /\ logins'[Len(logins) + 1] = login
    BY <1>1, <1>3
  <1>6. next.sess.pending \subseteq r.sess.pending \cup {entry}
           /\ next.jar \subseteq r.jar \cup {entry}
    BY <1>2 DEF AddPending, Newest, Unexpired
  <1>7. ASSUME NEW p \in r.sess.pending \cup r.jar \cup {entry}
        PROVE  logins'[p.value].uses = 0
    BY <1>1, <1>4, <1>5 DEF Recorded, Unspent, Unused
  <1>8. Unspent(logins', session'[b], cookie'[b], next)
    BY <1>2, <1>6, <1>7 DEF Unspent, Unused
  <1>9. SingleUse'
    BY <1>4, <1>5 DEF UsesInv, SingleUse
  <1> QED
    BY <1>2, <1>3, <1>5, <1>8, <1>9, OneUses

LEMMA VerifyStateUses ==
    ASSUME OneTab, UsesInv, SerialInv', NEW b \in Browsers, VerifyState(b, TheTab)
    PROVE  UsesInv'
  <1> DEFINE stored == session[b]
             r      == req[b][TheTab]
             found  == r.state # Missing /\ Matches(Candidates(r), r.state)
             valid  == Verdict(Candidates(r), r.state, clock) = "valid"
  <1>1. /\ TypeOK /\ TheTab \in Tabs /\ logins \in Seq(Login) /\ Len(logins) \in Nat
        /\ Serial(clock, stored, cookie[b], r) /\ Unspent(logins, stored, cookie[b], r)
        /\ Recorded(logins, r.sess.pending) /\ Recorded(logins, r.jar)
        /\ Owned(logins, r.sess.pending, b) /\ Owned(logins, r.jar, b)
    BY TheOnlyTab
    DEF UsesInv, SerialInv, PendingInv, LoginInv, TypeOK, Only, Listed, RequestsFit, Fits
  <1>2. PICK next \in Request :
           /\ req' = [req EXCEPT ![b][TheTab] = next]
           /\ next.phase \in {"exchange", "respond"}
           /\ next.phase = "exchange" => r.code # {}
           /\ next.state = r.state /\ next.code = r.code /\ next.link = r.link
           /\ next.sess.exists = r.sess.exists /\ next.sess.tokens = r.sess.tokens
           /\ found => /\ next.sess.pending = Burn(r.sess.pending, r.state)
                       /\ next.jar = {} /\ next.dirty = TRUE
           /\ ~found => /\ next.sess.pending = r.sess.pending
                        /\ next.jar = r.jar /\ next.dirty = r.dirty
    BY <1>1, VerifyStateEffect
  <1>3. /\ UNCHANGED <<session, cookie>> /\ r.phase = "callback"
        /\ valid => logins' = [logins EXCEPT ![r.state] = UsedOnceMore(@)]
        /\ ~valid => logins' = logins
    BY <1>1, VerifyStateEffect
  <1>4. ~r.dirty
    BY <1>1, <1>3 DEF Serial, Attached, Arrived
  <1> HIDE DEF stored, r
  <1>5. CASE valid
    <2>1. found /\ \E p \in Candidates(r) : p.value = r.state
      BY <1>5 DEF Verdict, Matches
    <2>2. /\ r.state \in 1..Len(logins) /\ logins[r.state].uses = 0
          /\ logins[r.state].browser = b
      BY <1>1, <2>1 DEF Candidates, Recorded, Owned, Unspent, Unused
    <2>3. /\ Len(logins') = Len(logins)
          /\ \A i \in 1..Len(logins) : i # r.state => logins'[i] = logins[i]
          /\ logins'[r.state].uses = 1
      <3>1. logins[r.state] \in Login
        BY <1>1, <2>2
      <3>2. UsedOnceMore(logins[r.state]).uses = 1
        BY <2>2, <3>1 DEF UsedOnceMore, Login
      <3> QED
        BY <1>1, <1>3, <1>5, <2>2, <3>2
    <2>4. ASSUME NEW p \in next.sess.pending
          PROVE  logins'[p.value].uses = 0
      BY <1>1, <1>2, <2>1, <2>3 DEF Burn, Recorded, Unspent, Unused
    <2>5. Unspent(logins', session'[b], cookie'[b], next)
      BY <1>2, <2>1, <2>4 DEF Unspent, Unused
    <2>6. SingleUse'
      BY <2>3 DEF UsesInv, SingleUse
    <2> QED
      BY <1>2, <1>3, <2>2, <2>3, <2>5, <2>6, OneUses
  <1>6. CASE ~valid
    <2>1. next.sess.pending \subseteq r.sess.pending /\ next.jar \subseteq r.jar
      BY <1>2 DEF Burn
    <2>2. Unspent(logins, stored, cookie[b], next)
      BY <1>1, <1>4, <2>1 DEF Unspent, Unused
    <2>3. SingleUse'
      BY <1>3, <1>6 DEF UsesInv, SingleUse
    <2> QED
      BY <1>2, <1>3, <1>6, <2>2, <2>3, OneUses DEF stored
  <1> QED
    BY <1>5, <1>6

\* The other handlers accept nothing, and keep no more pending states.
LEMMA OtherUses ==
    ASSUME OneTab, UsesInv, SerialInv', NEW b \in Browsers,
           \/ RedeemCode(b, TheTab) \/ RefuseCode(b, TheTab)
           \/ RejectGrant(b, TheTab) \/ RevokeSession(b, TheTab)
           \/ PersistGrant(b, TheTab) \/ ClearPending(b, TheTab)
           \/ ClearSession(b, TheTab) \/ FailToClearSession(b, TheTab)
    PROVE  UsesInv'
  <1> DEFINE stored == session[b]
             r      == req[b][TheTab]
  <1>1. /\ TypeOK /\ TheTab \in Tabs
        /\ Serial(clock, stored, cookie[b], r) /\ Unspent(logins, stored, cookie[b], r)
    BY TheOnlyTab DEF UsesInv, SerialInv, PendingInv, LoginInv, Only
  <1>2. /\ UNCHANGED <<logins, cookie>>
        /\ session' \in {session, [session EXCEPT ![b] = NoSession]}
        /\ \E next \in Request :
             /\ req' = [req EXCEPT ![b][TheTab] = next]
             /\ next.sess.pending \in {r.sess.pending, {}}
             /\ next.jar \in {r.jar, {}}
             /\ ~next.dirty => ~r.dirty
    <2>1. CASE \/ RedeemCode(b, TheTab) \/ RefuseCode(b, TheTab)
               \/ RejectGrant(b, TheTab) \/ RevokeSession(b, TheTab)
      <3>1. PICK next \in Request :
              /\ req' = [req EXCEPT ![b][TheTab] = next]
              /\ next.sess = r.sess /\ next.jar = r.jar /\ next.dirty = r.dirty
        BY <1>1, <2>1, MoveEffect
      <3>2. UNCHANGED <<logins, session, cookie>>
        BY <1>1, <2>1, MoveEffect
      <3> QED
        BY <3>1, <3>2
    <2>2. CASE PersistGrant(b, TheTab)
      <3>1. PICK next \in Request :
              /\ req' = [req EXCEPT ![b][TheTab] = next]
              /\ next.jar = r.jar /\ next.sess.pending = r.sess.pending
              /\ \/ next.sess.tokens = r.sess.tokens /\ next.dirty = r.dirty
                 \/ r.sess.exists /\ next.sess.tokens = r.code /\ next.dirty = TRUE
        BY <1>1, <2>2, PersistGrantEffect
      <3>2. UNCHANGED <<logins, session, cookie>>
        BY <1>1, <2>2, PersistGrantEffect
      <3> QED
        BY <3>1, <3>2
    <2>3. CASE ClearPending(b, TheTab)
      <3>1. PICK next \in Request :
              /\ req' = [req EXCEPT ![b][TheTab] = next]
              /\ next.jar = {} /\ next.sess.pending = {}
        BY <1>1, <2>3, ClearPendingEffect
      <3>2. UNCHANGED <<logins, session, cookie>> /\ r.phase = "clear"
        BY <1>1, <2>3, ClearPendingEffect
      <3>3. ~r.dirty
        BY <1>1, <3>2 DEF Serial, Attached, Arrived
      <3> QED
        BY <3>1, <3>2, <3>3
    <2>4. CASE ClearSession(b, TheTab) \/ FailToClearSession(b, TheTab)
      <3>1. PICK next \in Request :
              /\ req' = [req EXCEPT ![b][TheTab] = next]
              /\ next.jar = r.jar /\ next.sess = NoSession
        BY <1>1, <2>4, ClearSessionEffect
      <3>2. /\ UNCHANGED <<logins, cookie>> /\ r.phase = "revoked"
            /\ session' \in {session, [session EXCEPT ![b] = NoSession]}
        BY <1>1, <2>4, ClearSessionEffect
      <3>3. ~r.dirty /\ NoSession.pending = {}
        BY <1>1, <3>2 DEF Serial, Attached, Arrived, NoSession
      <3> QED
        BY <3>1, <3>2, <3>3
    <2> QED
      BY <2>1, <2>2, <2>3, <2>4
  <1>3. PICK next \in Request :
          /\ req' = [req EXCEPT ![b][TheTab] = next]
          /\ next.sess.pending \in {r.sess.pending, {}}
          /\ next.jar \in {r.jar, {}}
          /\ ~next.dirty => ~r.dirty
    BY <1>2
  <1>4. /\ session'[b] \in {stored, NoSession} /\ NoSession.pending = {}
        /\ \A d \in Browsers \ {b} : session'[d] = session[d]
    BY <1>1, <1>2 DEF TypeOK, NoSession
  <1> HIDE DEF stored, r
  <1>5. Unspent(logins', session'[b], cookie'[b], next)
    BY <1>1, <1>2, <1>3, <1>4 DEF Unspent, Unused
  <1>6. SingleUse'
    BY <1>2 DEF UsesInv, SingleUse
  <1> QED
    BY <1>2, <1>3, <1>4, <1>5, <1>6, OneUses

\* A burned state leaves the record with the reply: the only request of the
\* browser either writes the record, or was about to make its first one.
LEMMA RespondUses ==
    ASSUME OneTab, BurnsArrive, UsesInv, SerialInv', NEW b \in Browsers, Respond(b, TheTab)
    PROVE  UsesInv'
  <1> DEFINE stored == session[b]
             r      == req[b][TheTab]
             jar    == cookie[b]
  <1>1. /\ TypeOK /\ TheTab \in Tabs /\ r \in Request /\ Idle \in Request
        /\ Serial(clock, stored, jar, r) /\ Unspent(logins, stored, jar, r)
    BY TheOnlyTab, IdleType DEF UsesInv, SerialInv, PendingInv, LoginInv, TypeOK, Only
  <1>2. /\ UNCHANGED logins /\ req' = [req EXCEPT ![b][TheTab] = Idle]
        /\ r.phase \in {"redirect", "respond"}
    BY <1>1, RespondEffect
  <1>3. PICK arrives \in {TRUE, ~LossyReplies} :
          /\ Saves(r, arrives) => session' = [session EXCEPT ![b] = r.sess]
          /\ ~Saves(r, arrives) => session' = session
          /\ arrives /\ r.dirty /\ ~r.sess.exists => cookie' = [cookie EXCEPT ![b] = r.jar]
          /\ ~(arrives /\ r.dirty /\ ~r.sess.exists) => cookie' = cookie
    BY <1>1, RespondEffect
  <1>4. /\ Saves(r, arrives) => session'[b] = r.sess
        /\ ~Saves(r, arrives) => session'[b] = stored
        /\ arrives /\ r.dirty /\ ~r.sess.exists => cookie'[b] = r.jar
        /\ ~(arrives /\ r.dirty /\ ~r.sess.exists) => cookie'[b] = jar
        /\ \A d \in Browsers \ {b} : session'[d] = session[d] /\ cookie'[d] = cookie[d]
    BY <1>1, <1>3 DEF TypeOK
  <1>5. /\ NoSession.pending = {} /\ Idle.sess.pending = {} /\ Idle.jar = {}
    BY DEF NoSession, Idle
  <1> HIDE DEF stored, r, jar
  <1>6. Unused(logins, session'[b].pending) /\ Unused(logins, cookie'[b])
    <2>1. CASE ~r.dirty
      BY <1>1, <1>4, <2>1 DEF Saves, Unspent
    <2>2. CASE r.dirty /\ SessionInstalled
      <3>1. r.sess.exists /\ jar = {} /\ (r.link = "fresh" => stored.pending = {})
        BY <1>1, <1>2, <1>5, <2>2 DEF Serial, Attached, Cookieless
      <3>2. r.link \in {"current", "fresh"}
        BY <1>1, <1>2 DEF Serial, Attached, Request
      <3> QED
        BY <1>1, <1>4, <2>2, <3>1, <3>2 DEF Saves, Unspent, Unused
    <2>3. CASE r.dirty /\ ~SessionInstalled
      <3>1. /\ ~r.sess.exists /\ stored.pending = {}
            /\ arrives = TRUE
        BY <1>1, <1>3, <1>5, <2>3 DEF Serial, Attached, BurnsArrive
      <3> QED
        BY <1>1, <1>4, <2>3, <3>1 DEF Saves, Unspent, Unused
    <2> QED
      BY <2>1, <2>2, <2>3
  <1>7. Unspent(logins', session'[b], cookie'[b], Idle)
    BY <1>2, <1>5, <1>6 DEF Unspent, Unused
  <1>8. SingleUse'
    BY <1>2 DEF UsesInv, SingleUse
  <1> QED
    BY <1>1, <1>2, <1>4, <1>7, <1>8, OneUses

LEMMA UsesInvStep ==
    ASSUME OneTab, BurnsArrive
    PROVE  UsesInv /\ [Next]_vars => UsesInv'
  <1> SUFFICES ASSUME UsesInv, [Next]_vars
               PROVE  UsesInv'
    OBVIOUS
  <1>1. SerialInv' /\ TheTab \in Tabs /\ Tabs = {TheTab}
    BY SerialInvStep, TheOnlyTab DEF UsesInv
  <1>2. ASSUME NEW b \in Browsers, Arrive(b, TheTab) \/ Handle(b, TheTab)
        PROVE  UsesInv'
    BY <1>1, <1>2, ArriveUses, StartLoginUses, VerifyStateUses, OtherUses, RespondUses
       DEF Handle
  <1>3. ASSUME UNCHANGED <<logins, session, cookie, req>>
        PROVE  UsesInv'
    BY <1>1, <1>3 DEF UsesInv, SingleUse, Only
  <1>4. CASE \E b \in Browsers, t \in Tabs : Arrive(b, t) \/ Handle(b, t)
    BY <1>1, <1>2, <1>4
  <1>5. CASE (\E c \in Codes : Authenticate(c)) \/ Tick \/ UNCHANGED vars
    <2>1. UNCHANGED <<logins, session, cookie, req>>
      BY <1>5 DEF Authenticate, Tick, vars, historyVars
    <2> QED
      BY <1>3, <2>1
  <1> QED
    BY <1>4, <1>5 DEF Next

LEMMA UsesInvInit ==
    ASSUME OneTab
    PROVE  Init => UsesInv
  <1> SUFFICES ASSUME Init
               PROVE  UsesInv
    OBVIOUS
  <1>1. SerialInv /\ SingleUse
    BY SerialInvInit DEF Init, SingleUse
  <1>2. Idle.sess.pending = {} /\ Idle.jar = {} /\ NoSession.pending = {}
    BY DEF Idle, NoSession
  <1>3. ASSUME NEW b \in Browsers
        PROVE  Unspent(logins, session[b], cookie[b], Only(b))
    <2>1. session[b] = NoSession /\ cookie[b] = {} /\ Only(b) = Idle
      BY TheOnlyTab DEF Init, Only
    <2> QED
      BY <1>2, <2>1 DEF Unspent, Unused
  <1> QED
    BY <1>1, <1>3 DEF UsesInv

-----------------------------------------------------------------------------
(* Where the tokens of a code are *)

\* A step moves the tokens of one browser around, gives it those of codes that
\* were not redeemed before, and takes from it what a logout destroys.
LEMMA TokensMove ==
    ASSUME TokensInv, SerialInv', NEW b \in Browsers, NEW fresh \in SUBSET Codes,
           NEW gone \in SUBSET Tokens(b),
           \A d \in Browsers \ {b} : Tokens(d)' \subseteq Tokens(d),
           Tokens(b)' \subseteq (Tokens(b) \cup fresh) \ gone,
           fresh \cap redeemed = {}, redeemed' = redeemed \cup fresh,
           loggedOut' = loggedOut \cup gone
    PROVE  TokensInv'
  <1>1. ASSUME NEW d \in Browsers
        PROVE  Tokens(d)' \subseteq redeemed' \ loggedOut'
    <2>1. CASE d = b
      BY <2>1 DEF TokensInv
    <2>2. CASE d # b
      BY <2>2 DEF TokensInv
    <2> QED
      BY <2>1, <2>2
  <1>2. ASSUME NEW c \in Browsers, NEW d \in Browsers, c # d
        PROVE  Tokens(c)' \cap Tokens(d)' = {}
    <2>1. Tokens(c) \cap Tokens(d) = {}
          /\ Tokens(c) \subseteq redeemed /\ Tokens(d) \subseteq redeemed
      BY <1>2 DEF TokensInv
    <2>2. Tokens(c)' \cap fresh = {} \/ Tokens(d)' \cap fresh = {}
      BY <1>2, <2>1
    <2>3. Tokens(c)' \subseteq Tokens(c) \cup fresh /\ Tokens(d)' \subseteq Tokens(d) \cup fresh
      BY <1>2
    <2> QED
      BY <1>2, <2>1, <2>3
  <1>3. loggedOut' \subseteq redeemed'
    BY DEF TokensInv
  <1> QED
    BY <1>1, <1>2, <1>3 DEF TokensInv

LEMMA TokensOf ==
    ASSUME OneTab, TypeOK, NEW b \in Browsers, NEW next \in Request,
           req' = [req EXCEPT ![b][TheTab] = next],
           \A d \in Browsers \ {b} : session'[d] = session[d]
    PROVE  /\ \A d \in Browsers \ {b} : Tokens(d)' \subseteq Tokens(d)
           /\ Tokens(b)' = session'[b].tokens \cup next.sess.tokens
                             \cup (IF next.phase = "granted" THEN next.code ELSE {})
  <1>1. /\ Only(b)' = next
        /\ \A d \in Browsers \ {b} : Only(d)' = Only(d)
    BY OnlyMoves
  <1> QED
    BY <1>1 DEF Tokens

\* A handler that gets no token and destroys none
LEMMA QuietTokens ==
    ASSUME OneTab, TokensInv, SerialInv', NEW b \in Browsers, NEW next \in Request,
           req' = [req EXCEPT ![b][TheTab] = next],
           \A d \in Browsers \ {b} : session'[d] = session[d],
           UNCHANGED <<redeemed, loggedOut>>,
           session'[b].tokens \subseteq Tokens(b), next.sess.tokens \subseteq Tokens(b),
           next.phase # "granted"
    PROVE  TokensInv'
  <1>1. TypeOK
    BY DEF TokensInv, SerialInv, PendingInv, LoginInv
  <1>2. /\ \A d \in Browsers \ {b} : Tokens(d)' \subseteq Tokens(d)
        /\ Tokens(b)' \subseteq (Tokens(b) \cup {}) \ {}
    BY <1>1, TokensOf
  <1>3. {} \in SUBSET Codes /\ {} \in SUBSET Tokens(b)
    OBVIOUS
  <1>4. {} \cap redeemed = {} /\ redeemed' = redeemed \cup {} /\ loggedOut' = loggedOut \cup {}
    OBVIOUS
  <1> QED
    BY <1>2, <1>3, <1>4, TokensMove

LEMMA ArriveTokens ==
    ASSUME OneTab, TokensInv, SerialInv', NEW b \in Browsers, Arrive(b, TheTab)
    PROVE  TokensInv'
  <1>1. TypeOK /\ TheTab \in Tabs
    BY TheOnlyTab DEF TokensInv, SerialInv, PendingInv, LoginInv
  <1>2. PICK next \in Request :
           /\ req' = [req EXCEPT ![b][TheTab] = next]
           /\ next.phase \in {"login", "callback", "logout", "clear"}
           /\ next.sess = LoadedSession(b)
    BY <1>1, ArriveEffect
  <1>3. UNCHANGED <<session, redeemed, loggedOut>>
    BY <1>1, ArriveEffect
  <1>4. next.sess.tokens \subseteq Tokens(b) /\ session'[b].tokens \subseteq Tokens(b)
    BY <1>2, <1>3 DEF LoadedSession, Tokens
  <1> QED
    BY <1>2, <1>3, <1>4, QuietTokens

LEMMA StartLoginTokens ==
    ASSUME OneTab, TokensInv, SerialInv', NEW b \in Browsers, StartLogin(b, TheTab)
    PROVE  TokensInv'
  <1> DEFINE r     == req[b][TheTab]
             entry == [value |-> Len(logins) + 1, expiresAt |-> clock + Ttl]
  <1>1. TypeOK /\ TheTab \in Tabs
    BY TheOnlyTab DEF TokensInv, SerialInv, PendingInv, LoginInv
  <1>2. PICK next \in Request :
           /\ req' = [req EXCEPT ![b][TheTab] = next]
           /\ next.phase = "redirect" /\ next.state = Len(logins) + 1
           /\ next.code = r.code /\ next.link = r.link /\ next.dirty = TRUE
           /\ next.sess.exists = r.sess.exists /\ next.sess.tokens = r.sess.tokens
           /\ r.sess.exists => /\ next.sess.pending = AddPending(r.sess.pending, entry, clock)
                               /\ next.jar = r.jar
           /\ ~r.sess.exists => next.sess.pending = r.sess.pending /\ next.jar = {entry}
    BY <1>1, StartLoginEffect
  <1>3. UNCHANGED <<session, redeemed, loggedOut>>
    BY <1>1, StartLoginEffect
  <1>4. next.sess.tokens \subseteq Tokens(b) /\ session'[b].tokens \subseteq Tokens(b)
    BY <1>2, <1>3 DEF Tokens, Only
  <1> QED
    BY <1>2, <1>3, <1>4, QuietTokens

LEMMA VerifyStateTokens ==
    ASSUME OneTab, TokensInv, SerialInv', NEW b \in Browsers, VerifyState(b, TheTab)
    PROVE  TokensInv'
  <1> DEFINE r     == req[b][TheTab]
             found == r.state # Missing /\ Matches(Candidates(r), r.state)
  <1>1. TypeOK /\ TheTab \in Tabs
    BY TheOnlyTab DEF TokensInv, SerialInv, PendingInv, LoginInv
  <1>2. PICK next \in Request :
           /\ req' = [req EXCEPT ![b][TheTab] = next]
           /\ next.phase \in {"exchange", "respond"}
           /\ next.phase = "exchange" => r.code # {}
           /\ next.state = r.state /\ next.code = r.code /\ next.link = r.link
           /\ next.sess.exists = r.sess.exists /\ next.sess.tokens = r.sess.tokens
           /\ found => /\ next.sess.pending = Burn(r.sess.pending, r.state)
                       /\ next.jar = {} /\ next.dirty = TRUE
           /\ ~found => /\ next.sess.pending = r.sess.pending
                        /\ next.jar = r.jar /\ next.dirty = r.dirty
    BY <1>1, VerifyStateEffect
  <1>3. UNCHANGED <<session, redeemed, loggedOut>>
    BY <1>1, VerifyStateEffect
  <1>4. next.sess.tokens \subseteq Tokens(b) /\ session'[b].tokens \subseteq Tokens(b)
    BY <1>2, <1>3 DEF Tokens, Only
  <1> QED
    BY <1>2, <1>3, <1>4, QuietTokens

\* Keycloak exchanges a code once, so its tokens are with one browser.
LEMMA MoveTokens ==
    ASSUME OneTab, TokensInv, SerialInv', NEW b \in Browsers,
           \/ RedeemCode(b, TheTab) \/ RefuseCode(b, TheTab)
           \/ RejectGrant(b, TheTab) \/ RevokeSession(b, TheTab)
    PROVE  TokensInv'
  <1> DEFINE r == req[b][TheTab]
  <1>1. TypeOK /\ TheTab \in Tabs /\ r \in Request
    BY TheOnlyTab DEF TokensInv, SerialInv, PendingInv, LoginInv, TypeOK
  <1>2. PICK next \in Request :
           /\ req' = [req EXCEPT ![b][TheTab] = next]
           /\ next.sess = r.sess /\ next.jar = r.jar /\ next.dirty = r.dirty
           /\ next.link = r.link /\ next.state = r.state /\ next.code = r.code
           /\ \/ r.phase = "logout" /\ next.phase = "revoked" /\ UNCHANGED redeemed
              \/ /\ r.phase \in {"exchange", "granted"} /\ next.phase = "respond"
                 /\ UNCHANGED redeemed
              \/ /\ r.phase = "exchange" /\ next.phase \in {"granted", "respond"}
                 /\ r.code \cap redeemed = {} /\ redeemed' = redeemed \cup r.code
    BY <1>1, MoveEffect
  <1>3. UNCHANGED <<session, loggedOut>>
    BY <1>1, MoveEffect
  <1>4. /\ next.sess.tokens \subseteq Tokens(b) /\ session'[b].tokens \subseteq Tokens(b)
        /\ r.code \in SUBSET Codes
    BY <1>1, <1>2, <1>3 DEF Tokens, Only, Request
  <1>5. /\ \A d \in Browsers \ {b} : Tokens(d)' \subseteq Tokens(d)
        /\ Tokens(b)' = session'[b].tokens \cup next.sess.tokens
                          \cup (IF next.phase = "granted" THEN next.code ELSE {})
    BY <1>1, <1>2, <1>3, TokensOf
  <1>6. CASE UNCHANGED redeemed /\ next.phase # "granted"
    BY <1>2, <1>3, <1>4, <1>6, QuietTokens
  <1>7. CASE r.code \cap redeemed = {} /\ redeemed' = redeemed \cup r.code
    <2>1. Tokens(b)' \subseteq (Tokens(b) \cup r.code) \ {}
      BY <1>2, <1>4, <1>5
    <2>2. {} \in SUBSET Tokens(b) /\ loggedOut' = loggedOut \cup {}
      BY <1>3
    <2> HIDE DEF r
    <2> QED
      BY <1>4, <1>5, <1>7, <2>1, <2>2, TokensMove
  <1> QED
    BY <1>2, <1>6, <1>7

LEMMA PersistGrantTokens ==
    ASSUME OneTab, TokensInv, SerialInv', NEW b \in Browsers, PersistGrant(b, TheTab)
    PROVE  TokensInv'
  <1> DEFINE r == req[b][TheTab]
  <1>1. TypeOK /\ TheTab \in Tabs
    BY TheOnlyTab DEF TokensInv, SerialInv, PendingInv, LoginInv
  <1>2. PICK next \in Request :
           /\ req' = [req EXCEPT ![b][TheTab] = next]
           /\ next.phase = "respond"
           /\ \/ next.sess.tokens = r.sess.tokens /\ next.dirty = r.dirty
              \/ r.sess.exists /\ next.sess.tokens = r.code /\ next.dirty = TRUE
    BY <1>1, PersistGrantEffect
  <1>3. UNCHANGED <<session, redeemed, loggedOut>> /\ r.phase = "granted"
    BY <1>1, PersistGrantEffect
  <1>4. next.sess.tokens \subseteq Tokens(b) /\ session'[b].tokens \subseteq Tokens(b)
    BY <1>2, <1>3 DEF Tokens, Only
  <1> QED
    BY <1>2, <1>3, <1>4, QuietTokens

LEMMA ClearPendingTokens ==
    ASSUME OneTab, TokensInv, SerialInv', NEW b \in Browsers, ClearPending(b, TheTab)
    PROVE  TokensInv'
  <1>1. TypeOK /\ TheTab \in Tabs
    BY TheOnlyTab DEF TokensInv, SerialInv, PendingInv, LoginInv
  <1>2. PICK next \in Request :
           /\ req' = [req EXCEPT ![b][TheTab] = next]
           /\ next.phase = "respond" /\ next.sess.tokens = req[b][TheTab].sess.tokens
    BY <1>1, ClearPendingEffect
  <1>3. UNCHANGED <<session, redeemed, loggedOut>>
    BY <1>1, ClearPendingEffect
  <1>4. next.sess.tokens \subseteq Tokens(b) /\ session'[b].tokens \subseteq Tokens(b)
    BY <1>2, <1>3 DEF Tokens, Only
  <1> QED
    BY <1>2, <1>3, <1>4, QuietTokens

\* The logout destroys the tokens of its copy, which mirrors the record, and
\* the record with them: nothing is left to bring them back.
LEMMA ClearSessionTokens ==
    ASSUME OneTab, TokensInv, SerialInv', NEW b \in Browsers,
           ClearSession(b, TheTab) \/ FailToClearSession(b, TheTab)
    PROVE  TokensInv'
  <1> DEFINE stored == session[b]
             r      == req[b][TheTab]
  <1>1. /\ TypeOK /\ TheTab \in Tabs /\ r \in Request
        /\ Serial(clock, stored, cookie[b], r)
    BY TheOnlyTab DEF TokensInv, SerialInv, PendingInv, LoginInv, TypeOK, Only
  <1>2. PICK next \in Request :
           /\ req' = [req EXCEPT ![b][TheTab] = next]
           /\ next.phase = "respond" /\ next.sess = NoSession
    BY <1>1, ClearSessionEffect
  <1>3. /\ UNCHANGED redeemed /\ r.phase = "revoked"
        /\ \/ /\ ClearSession(b, TheTab) /\ loggedOut' = loggedOut \cup r.sess.tokens
              /\ session' = IF r.link = "current" THEN [session EXCEPT ![b] = NoSession]
                            ELSE session
           \/ FailToClearSession(b, TheTab) /\ UNCHANGED <<loggedOut, session>>
    BY <1>1, ClearSessionEffect
  <1>4. NoSession.tokens = {}
    BY DEF NoSession
  <1>5. \A d \in Browsers \ {b} : session'[d] = session[d]
    BY <1>1, <1>3 DEF TypeOK
  <1>6. CASE UNCHANGED <<loggedOut, session>>
    <2>1. session'[b].tokens \subseteq Tokens(b) /\ next.sess.tokens \subseteq Tokens(b)
      BY <1>2, <1>4, <1>6 DEF Tokens
    <2> QED
      BY <1>2, <1>3, <1>5, <1>6, <2>1, QuietTokens
  <1>7. CASE /\ loggedOut' = loggedOut \cup r.sess.tokens
             /\ session' = IF r.link = "current" THEN [session EXCEPT ![b] = NoSession]
                           ELSE session
    <2>1. session'[b] = NoSession
      <3>1. r.link = "current" \/ stored = NoSession
        BY <1>1, <1>3 DEF Serial, Attached, Request
      <3> QED
        BY <1>1, <1>7, <3>1 DEF TypeOK
    <2>2. /\ \A d \in Browsers \ {b} : Tokens(d)' \subseteq Tokens(d)
          /\ Tokens(b)' = session'[b].tokens \cup next.sess.tokens
                            \cup (IF next.phase = "granted" THEN next.code ELSE {})
      BY <1>1, <1>2, <1>5, TokensOf
    <2> DEFINE gone == r.sess.tokens
    <2>3. Tokens(b)' \subseteq (Tokens(b) \cup {}) \ gone
      BY <1>2, <1>4, <2>1, <2>2
    <2>4. gone \in SUBSET Tokens(b) /\ loggedOut' = loggedOut \cup gone
      BY <1>7 DEF Tokens, Only
    <2>5. {} \in SUBSET Codes /\ {} \cap redeemed = {} /\ redeemed' = redeemed \cup {}
      BY <1>3
    <2> HIDE DEF gone
    <2> QED
      BY <2>2, <2>3, <2>4, <2>5, TokensMove
  <1> QED
    BY <1>3, <1>6, <1>7

LEMMA RespondTokens ==
    ASSUME OneTab, TokensInv, SerialInv', NEW b \in Browsers, Respond(b, TheTab)
    PROVE  TokensInv'
  <1> DEFINE r == req[b][TheTab]
  <1>1. TypeOK /\ TheTab \in Tabs /\ Idle \in Request
    BY TheOnlyTab, IdleType DEF TokensInv, SerialInv, PendingInv, LoginInv
  <1>2. UNCHANGED <<redeemed, loggedOut>> /\ req' = [req EXCEPT ![b][TheTab] = Idle]
    BY <1>1, RespondEffect
  <1>3. session' \in {session, [session EXCEPT ![b] = r.sess]}
    BY DEF Respond
  <1>4. /\ \A d \in Browsers \ {b} : session'[d] = session[d]
        /\ session'[b].tokens \subseteq Tokens(b)
    BY <1>1, <1>3 DEF TypeOK, Tokens, Only
  <1>5. Idle.phase # "granted" /\ Idle.sess.tokens \subseteq Tokens(b)
    BY DEF Idle, NoSession
  <1> QED
    BY <1>1, <1>2, <1>4, <1>5, QuietTokens

LEMMA TokensInvStep ==
    ASSUME OneTab
    PROVE  TokensInv /\ [Next]_vars => TokensInv'
  <1> SUFFICES ASSUME TokensInv, [Next]_vars
               PROVE  TokensInv'
    OBVIOUS
  <1>1. SerialInv' /\ TheTab \in Tabs /\ Tabs = {TheTab}
    BY SerialInvStep, TheOnlyTab DEF TokensInv
  <1>2. ASSUME NEW b \in Browsers, Arrive(b, TheTab) \/ Handle(b, TheTab)
        PROVE  TokensInv'
    BY <1>1, <1>2, ArriveTokens, StartLoginTokens, VerifyStateTokens, MoveTokens,
       PersistGrantTokens, ClearPendingTokens, ClearSessionTokens, RespondTokens
       DEF Handle
  <1>3. ASSUME UNCHANGED <<session, req, redeemed, loggedOut>>
        PROVE  TokensInv'
    BY <1>1, <1>3 DEF TokensInv, Tokens, Only
  <1>4. CASE \E b \in Browsers, t \in Tabs : Arrive(b, t) \/ Handle(b, t)
    BY <1>1, <1>2, <1>4
  <1>5. CASE (\E c \in Codes : Authenticate(c)) \/ Tick \/ UNCHANGED vars
    <2>1. UNCHANGED <<session, req, redeemed, loggedOut>>
      BY <1>5 DEF Authenticate, Tick, vars, historyVars, keycloakVars
    <2> QED
      BY <1>3, <2>1
  <1> QED
    BY <1>4, <1>5 DEF Next

LEMMA TokensInvInit ==
    ASSUME OneTab
    PROVE  Init => TokensInv
  <1> SUFFICES ASSUME Init
               PROVE  TokensInv
    OBVIOUS
  <1>1. SerialInv
    BY SerialInvInit
  <1>2. ASSUME NEW b \in Browsers
        PROVE  Tokens(b) = {}
    <2>1. session[b] = NoSession /\ Only(b) = Idle
      BY TheOnlyTab DEF Init, Only
    <2> QED
      BY <2>1 DEF Tokens, NoSession, Idle
  <1> QED
    BY <1>1, <1>2 DEF TokensInv, Init

-----------------------------------------------------------------------------
(* Theorems *)

\* One request at a time, the copy a request works on is the browser's record,
\* changed only by what its own handler did.
THEOREM SerialInvariant ==
    ASSUME OneTab
    PROVE  Spec => []SerialInv
  BY SerialInvInit, SerialInvStep, PTL DEF Spec

\* A state lets a callback in once: with a session always, and with the cookie
\* when the reply that clears it arrives.
THEOREM AcceptedOnce ==
    ASSUME OneTab, BurnsArrive
    PROVE  Spec => []SingleUse
  <1>1. UsesInv => SingleUse
    BY DEF UsesInv
  <1> QED
    BY <1>1, UsesInvInit, UsesInvStep, PTL DEF Spec

\* The tokens a logout has destroyed are in no session, then or later.
THEOREM LogoutsAreFinal ==
    ASSUME OneTab
    PROVE  Spec => []LogoutIsFinal
  <1>1. TokensInv => LogoutIsFinal
    BY DEF TokensInv, LogoutIsFinal, Tokens
  <1> QED
    BY <1>1, TokensInvInit, TokensInvStep, PTL DEF Spec

\* A login waits in the record until its own callback came, it expired,
\* MaxPending logins of the browser came after it, or the user cleared the
\* pending states or logged out.
THEOREM PendingLoginsKept ==
    ASSUME OneTab
    PROVE  Spec => LoginsKept
  <1>1. ASSUME SerialInv, [Next]_vars, NEW b \in Browsers,
               NEW s \in session[b].pending \ session'[b].pending
        PROVE  \/ s.expiresAt <= clock
               \/ \E t \in Tabs : LogsOut(b, t)
               \/ \E t \in Replying(b) :
                    RetiresOwn(req[b][t], s) \/ ClearsAll(req[b][t])
                      \/ MakesRoom(req[b][t], s, session'[b].pending)
    <2>1. TheTab \in Tabs /\ session'[b] # session[b]
      BY <1>1, TheOnlyTab
    <2>2. CASE LogsOut(b, TheTab)
      BY <2>1, <2>2
    <2>3. CASE /\ TheTab \in Replying(b)
               /\ Only(b).sess.exists /\ session'[b] = Only(b).sess
               /\ Serial(clock, session[b], cookie[b], Only(b))
      <3>1. Only(b).phase \in {"redirect", "respond"} /\ Only(b) = req[b][TheTab]
        BY <2>3 DEF Replying, Only
      <3>2. s \in session[b].pending \ Only(b).sess.pending
        BY <1>1, <2>3
      <3> HIDE DEF Only
      <3>3. \/ s.expiresAt <= clock \/ RetiresOwn(Only(b), s) \/ ClearsAll(Only(b))
            \/ MakesRoom(Only(b), s, Only(b).sess.pending)
        BY <2>3, <3>1, <3>2 DEF Serial, Justified, RetiresOwn
      <3> QED
        BY <2>3, <3>1, <3>3
    <2> QED
      BY <1>1, <2>1, <2>2, <2>3, RecordStep
  <1>2. SerialInv /\ [Next]_vars =>
          [\A b \in Browsers : \A s \in session[b].pending \ session'[b].pending :
             \/ s.expiresAt <= clock
             \/ \E t \in Tabs : LogsOut(b, t)
             \/ \E t \in Replying(b) :
                  RetiresOwn(req[b][t], s) \/ ClearsAll(req[b][t])
                    \/ MakesRoom(req[b][t], s, session'[b].pending)]_vars
    BY <1>1
  <1> QED
    BY <1>2, SerialInvariant, PTL DEF Spec, LoginsKept

\* Tokens leave a session through a logout, or for those of a newer login.
THEOREM SessionTokensKept ==
    ASSUME OneTab
    PROVE  Spec => TokensKept
  <1>1. ASSUME SerialInv, [Next]_vars, NEW b \in Browsers
        PROVE  \/ session[b].tokens \subseteq session'[b].tokens
               \/ \E t \in Tabs : LogsOut(b, t)
               \/ \E t \in Replying(b) :
                    req[b][t].code # {} /\ session'[b].tokens = req[b][t].code
    <2>1. TheTab \in Tabs
      BY TheOnlyTab
    <2>2. CASE session'[b] = session[b]
      BY <2>2
    <2>3. CASE LogsOut(b, TheTab)
      BY <2>1, <2>3
    <2>4. CASE /\ TheTab \in Replying(b)
               /\ Only(b).sess.exists /\ session'[b] = Only(b).sess
               /\ Serial(clock, session[b], cookie[b], Only(b))
      <3>1. \/ session'[b].tokens = session[b].tokens
            \/ Only(b).code # {} /\ session'[b].tokens = Only(b).code
        BY <2>4 DEF Serial, Justified
      <3> QED
        BY <2>4, <3>1 DEF Only
    <2> QED
      BY <1>1, <2>2, <2>3, <2>4, RecordStep
  <1>2. SerialInv /\ [Next]_vars =>
          [\A b \in Browsers :
             \/ session[b].tokens \subseteq session'[b].tokens
             \/ \E t \in Tabs : LogsOut(b, t)
             \/ \E t \in Replying(b) :
                  req[b][t].code # {} /\ session'[b].tokens = req[b][t].code]_vars
    BY <1>1
  <1> QED
    BY <1>2, SerialInvariant, PTL DEF Spec, TokensKept

=============================================================================
