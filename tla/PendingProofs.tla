----------------------------- MODULE PendingProofs -----------------------------
(***************************************************************************)
(* Proofs about the pending states of LoginFlow, for any number of tabs:   *)
(* the cap on the list holds in the store and in every copy, and a state   *)
(* is accepted only in time and from the browser it was minted for.        *)
(*                                                                         *)
(* A cap on a list says something only if its entries are distinct: every  *)
(* entry is a faithful copy of the login it was minted for.                *)
(***************************************************************************)
EXTENDS LoginFlowProofs, FiniteSetTheorems, WellFoundedInduction

-----------------------------------------------------------------------------
(* Counting: Newest keeps the youngest MaxPending entries. *)

\* No two entries of a pending list have the same value.
Distinct(states) == \A p, q \in states : p.value = q.value => p = q

Younger(states, p) == {q \in states : q.value > p.value}

LEMMA LeastNatural ==
    ASSUME NEW numbers \in SUBSET Nat, numbers # {}
    PROVE  \E m \in numbers : \A n \in numbers : m <= n
  <1>1. PICK m \in numbers : \A n \in numbers : ~(<<n, m>> \in OpToRel(<, Nat))
    BY WFMin, NatLessThanWellFounded
  <1>2. ASSUME NEW n \in numbers PROVE m <= n
    <2>1. ~(n < m)
      BY <1>1 DEF OpToRel
    <2> QED
      BY <2>1
  <1> QED
    BY <1>2

LEMMA Oldest ==
    ASSUME NEW states \in SUBSET PendingState, states # {}
    PROVE  \E p \in states : \A q \in states : p.value <= q.value
  <1> DEFINE numbers == {p.value : p \in states}
  <1>1. numbers \in SUBSET Nat /\ numbers # {}
    BY DEF PendingState
  <1>2. PICK m \in numbers : \A n \in numbers : m <= n
    BY <1>1, LeastNatural
  <1> QED
    BY <1>2

LEMMA Youngest ==
    ASSUME NEW states \in SUBSET PendingState, states # {}, NEW top \in Nat,
           \A p \in states : p.value <= top
    PROVE  \E p \in states : \A q \in states : q.value <= p.value
  <1> DEFINE distances == {top - p.value : p \in states}
  <1>1. distances \in SUBSET Nat /\ distances # {}
    BY DEF PendingState
  <1>2. PICK m \in distances : \A n \in distances : m <= n
    BY <1>1, LeastNatural
  <1>3. PICK p \in states : m = top - p.value
    OBVIOUS
  <1>4. ASSUME NEW q \in states PROVE q.value <= p.value
    <2>1. m <= top - q.value /\ q.value \in Nat /\ p.value \in Nat
      BY <1>2 DEF PendingState
    <2> QED
      BY <1>3, <2>1
  <1> QED
    BY <1>4

\* The list createAuthState writes is never longer than the cap.
LEMMA NewestBounded ==
    ASSUME NEW states \in SUBSET PendingState, IsFiniteSet(states), Distinct(states)
    PROVE  Cardinality(Newest(states)) <= MaxPending
  <1> DEFINE kept == Newest(states)
  <1>1. kept \in SUBSET states /\ IsFiniteSet(kept) /\ Cardinality(kept) \in Nat
    BY FS_Subset, FS_CardinalityType DEF Newest
  <1>2. CASE kept = {}
    BY <1>2, FS_EmptySet, MaxPendingAssumption
  <1>3. CASE kept # {}
    <2>1. PICK p \in kept : \A q \in kept : p.value <= q.value
      BY <1>1, <1>3, Oldest
    <2>2. IsFiniteSet(Younger(states, p)) /\ Cardinality(Younger(states, p)) < MaxPending
      <3>1. Younger(states, p) \in SUBSET states
        BY DEF Younger
      <3> QED
        BY <2>1, <3>1, FS_Subset DEF Younger, Newest
    <2>3. kept \ {p} \in SUBSET Younger(states, p)
      <3>1. ASSUME NEW q \in kept \ {p} PROVE q.value > p.value
        BY <1>1, <2>1 DEF Distinct, PendingState
      <3> QED
        BY <1>1, <3>1 DEF Younger
    <2>4. /\ Cardinality(kept \ {p}) = Cardinality(kept) - 1
          /\ Cardinality(kept \ {p}) <= Cardinality(Younger(states, p))
      BY <1>1, <2>1, <2>2, <2>3, FS_RemoveElement, FS_Subset
    <2>5. Cardinality(Younger(states, p)) \in Nat
      BY <2>2, FS_CardinalityType
    <2> QED
      BY <1>1, <2>2, <2>4, <2>5, MaxPendingAssumption
  <1> QED
    BY <1>2, <1>3

\* What Newest drops has MaxPending entries before it that it keeps.
LEMMA NewestFull ==
    ASSUME NEW states \in SUBSET PendingState, IsFiniteSet(states), Distinct(states),
           NEW top \in Nat, \A p \in states : p.value <= top,
           NEW dropped \in states \ Newest(states)
    PROVE  /\ Cardinality(Newest(states)) = MaxPending
           /\ \A p \in Newest(states) : p.value > dropped.value
  <1> DEFINE kept == Newest(states)
             gone == states \ kept
  <1>1. /\ kept \in SUBSET states /\ IsFiniteSet(kept) /\ Cardinality(kept) \in Nat
        /\ gone \in SUBSET PendingState /\ gone # {}
    BY FS_Subset, FS_CardinalityType DEF Newest
  <1>2. PICK p \in gone : \A q \in gone : q.value <= p.value
    BY <1>1, Youngest
  <1>3. ASSUME NEW q \in states
        PROVE  IsFiniteSet(Younger(states, q)) /\ Cardinality(Younger(states, q)) \in Nat
    <2>1. Younger(states, q) \in SUBSET states
      BY DEF Younger
    <2> QED
      BY <2>1, FS_Subset, FS_CardinalityType
  <1>4. Younger(states, p) \in SUBSET kept
    BY <1>2 DEF Younger, PendingState
  <1>5. Cardinality(Younger(states, p)) >= MaxPending
    <2>1. p \in states /\ ~(Cardinality(Younger(states, p)) < MaxPending)
      BY <1>2 DEF Newest, Younger
    <2>2. Cardinality(Younger(states, p)) \in Nat
      BY <1>3, <2>1
    <2> QED
      BY <2>1, <2>2, MaxPendingAssumption
  <1>6. Cardinality(Younger(states, p)) <= Cardinality(kept) /\ Cardinality(kept) <= MaxPending
    BY <1>1, <1>4, FS_Subset, NewestBounded
  <1>7. Cardinality(kept) = MaxPending /\ Younger(states, p) = kept
    <2>1. Cardinality(kept) = MaxPending /\ Cardinality(Younger(states, p)) = Cardinality(kept)
      BY <1>1, <1>2, <1>3, <1>5, <1>6, MaxPendingAssumption
    <2> QED
      BY <1>1, <1>4, <2>1, FS_Subset
  <1>8. ASSUME NEW q \in kept PROVE q.value > dropped.value
    <2>1. q.value > p.value /\ dropped.value <= p.value
      BY <1>2, <1>7 DEF Younger
    <2> QED
      BY <1>1, <1>2, <2>1 DEF PendingState
  <1> QED
    BY <1>7, <1>8

-----------------------------------------------------------------------------
(* What the handlers make of the request they handle *)

\* Whatever a browser sends is a request to one of the four kinds of handler.
LEMMA ArriveSends ==
    ASSUME TypeOK, NEW b \in Browsers, NEW t \in Tabs, Arrive(b, t)
    PROVE  \E phase \in {"login", "callback", "logout", "clear"}, state \in Nat,
              code \in SUBSET Codes :
                /\ Send(b, t, phase, state, code)
                /\ phase = "clear" => state = Missing /\ code = {}
  <1>1. Missing \in Nat /\ {} \in SUBSET Codes
    BY DEF Missing
  <1>2. CASE SendCallback(b, t)
    <2>1. ASSUME NEW c \in Codes, NEW state \in {codeState[c], Missing},
                 Send(b, t, "callback", state, {c})
          PROVE  \E s \in Nat, code \in SUBSET Codes : Send(b, t, "callback", s, code)
      <3>1. state \in Nat /\ {c} \in SUBSET Codes
        BY <1>1, <2>1 DEF TypeOK
      <3> QED
        BY <2>1, <3>1
    <2>2. ASSUME NEW state \in delivered, Send(b, t, "callback", state, {})
          PROVE  \E s \in Nat, code \in SUBSET Codes : Send(b, t, "callback", s, code)
      <3>1. state \in Nat
        BY <2>2 DEF TypeOK
      <3> QED
        BY <1>1, <2>2, <3>1
    <2>3. \E s \in Nat, code \in SUBSET Codes : Send(b, t, "callback", s, code)
      BY <1>2, <2>1, <2>2 DEF SendCallback
    <2> QED
      BY <2>3
  <1> QED
    BY <1>1, <1>2 DEF Arrive, SendLogin, SendLogout, SendClear

LEMMA ArriveEffect ==
    ASSUME TypeOK, NEW b \in Browsers, NEW t \in Tabs, Arrive(b, t)
    PROVE  /\ req[b][t].phase = "idle"
           /\ UNCHANGED <<clock, session, cookie, codeState, redeemed, logins, delivered, loggedOut>>
           /\ \E next \in Request :
                 /\ req' = [req EXCEPT ![b][t] = next]
                 /\ next.phase \in {"login", "callback", "logout", "clear"}
                 /\ next.phase = "clear" => next.state = Missing /\ next.code = {}
                 /\ session[b].exists => next.link = "current"
                 /\ ~session[b].exists => next.link = "fresh"
                 /\ next.sess = LoadedSession(b) /\ next.jar = SentCookie(b)
                 /\ next.dirty = FALSE
  <1>1. PICK phase \in {"login", "callback", "logout", "clear"}, state \in Nat,
             code \in SUBSET Codes :
               /\ Send(b, t, phase, state, code)
               /\ phase = "clear" => state = Missing /\ code = {}
    BY ArriveSends
  <1> DEFINE next == [phase |-> phase,
                      link |-> IF session[b].exists THEN "current" ELSE "fresh",
                      sess |-> LoadedSession(b), dirty |-> FALSE, jar |-> SentCookie(b),
                      state |-> state, code |-> code]
  <1>2. next \in Request
    BY LoadedSessionType DEF TypeOK, Request, Phase, SentCookie, Unexpired
  <1>3. /\ req[b][t].phase = "idle" /\ req' = [req EXCEPT ![b][t] = next]
        /\ UNCHANGED <<clock, session, cookie, codeState, redeemed, logins, delivered, loggedOut>>
    BY <1>1 DEF Send, Becomes, keycloakVars, historyVars
  <1>4. /\ next.phase \in {"login", "callback", "logout", "clear"}
        /\ next.phase = "clear" => next.state = Missing /\ next.code = {}
        /\ session[b].exists => next.link = "current"
        /\ ~session[b].exists => next.link = "fresh"
        /\ next.sess = LoadedSession(b) /\ next.jar = SentCookie(b)
        /\ next.dirty = FALSE
    BY <1>1
  <1> HIDE DEF next
  <1> QED
    BY <1>2, <1>3, <1>4

LEMMA StartLoginEffect ==
    ASSUME TypeOK, NEW b \in Browsers, NEW t \in Tabs, StartLogin(b, t)
    PROVE  LET r     == req[b][t]
               entry == [value |-> Len(logins) + 1, expiresAt |-> clock + Ttl]
           IN  /\ r.phase = "login" /\ entry \in PendingState
               /\ UNCHANGED <<clock, session, cookie, codeState, redeemed, delivered, loggedOut>>
               /\ logins' = Append(logins, [browser |-> b, expiresAt |-> clock + Ttl, uses |-> 0])
               /\ \E next \in Request :
                    /\ req' = [req EXCEPT ![b][t] = next]
                    /\ next.phase = "redirect" /\ next.state = Len(logins) + 1
                    /\ next.code = r.code /\ next.link = r.link /\ next.dirty = TRUE
                    /\ next.sess.exists = r.sess.exists /\ next.sess.tokens = r.sess.tokens
                    /\ r.sess.exists =>
                         /\ next.sess.pending = AddPending(r.sess.pending, entry, clock)
                         /\ next.jar = r.jar
                    /\ ~r.sess.exists =>
                         next.sess.pending = r.sess.pending /\ next.jar = {entry}
  <1> DEFINE r == req[b][t]
             entry == [value |-> Len(logins) + 1, expiresAt |-> clock + Ttl]
             states == AddPending(r.sess.pending, entry, clock)
             value == Len(logins) + 1
             bound == IF r.sess.exists THEN WithPending(r, states) ELSE [r EXCEPT !.jar = {entry}]
             next == [bound EXCEPT !.phase = "redirect", !.dirty = TRUE, !.state = value]
  <1>1. r \in Request /\ clock \in Nat /\ Len(logins) \in Nat
    BY DEF TypeOK
  <1>01. value \in Nat
    BY <1>1
  <1>2. entry \in PendingState
    BY <1>1, TtlAssumption DEF PendingState
  <1>3. states \in SUBSET PendingState
    BY <1>1, <1>2, AddPendingType DEF Request, Session
  <1>4. req' = [req EXCEPT ![b][t] = next]
    BY DEF StartLogin, Becomes, NextValue
  <1>5. /\ r.phase = "login"
        /\ UNCHANGED <<clock, session, cookie, codeState, redeemed, delivered, loggedOut>>
        /\ logins' = Append(logins, [browser |-> b, expiresAt |-> clock + Ttl, uses |-> 0])
    BY DEF StartLogin, keycloakVars
  <1> HIDE DEF r, entry, states, value
  <1>6. /\ bound \in Request
        /\ bound.code = r.code /\ bound.link = r.link
        /\ bound.sess.exists = r.sess.exists /\ bound.sess.tokens = r.sess.tokens
        /\ r.sess.exists => bound.sess.pending = states /\ bound.jar = r.jar
        /\ ~r.sess.exists => bound.sess.pending = r.sess.pending /\ bound.jar = {entry}
    <2>1. CASE r.sess.exists
      BY <1>1, <1>3, <2>1 DEF WithPending, Request, Session
    <2>2. CASE ~r.sess.exists
      BY <1>1, <1>2, <2>2 DEF Request, Session
    <2> QED
      BY <2>1, <2>2
  <1> HIDE DEF bound
  <1>7. /\ next \in Request
        /\ next.phase = "redirect" /\ next.state = value /\ next.dirty = TRUE
        /\ next.code = bound.code /\ next.link = bound.link
        /\ next.sess = bound.sess /\ next.jar = bound.jar
    BY <1>01, <1>6 DEF Request, Phase
  <1> HIDE DEF next
  <1>8. /\ req' = [req EXCEPT ![b][t] = next]
        /\ next.code = r.code /\ next.link = r.link
        /\ next.sess.exists = r.sess.exists /\ next.sess.tokens = r.sess.tokens
        /\ r.sess.exists => next.sess.pending = states /\ next.jar = r.jar
        /\ ~r.sess.exists => next.sess.pending = r.sess.pending /\ next.jar = {entry}
    BY <1>4, <1>6, <1>7
  <1> QED
    BY <1>2, <1>5, <1>7, <1>8 DEF r, entry, states, value

LEMMA VerifyStateEffect ==
    ASSUME TypeOK, NEW b \in Browsers, NEW t \in Tabs, VerifyState(b, t)
    PROVE  LET r     == req[b][t]
               found == r.state # Missing /\ Matches(Candidates(r), r.state)
               valid == Verdict(Candidates(r), r.state, clock) = "valid"
           IN  /\ r.phase = "callback"
               /\ UNCHANGED <<clock, session, cookie, codeState, redeemed, delivered, loggedOut>>
               /\ valid => logins' = [logins EXCEPT ![r.state] = UsedOnceMore(@)]
               /\ ~valid => logins' = logins
               /\ \E next \in Request :
                    /\ req' = [req EXCEPT ![b][t] = next]
                    /\ next.phase \in {"exchange", "respond"}
                    /\ next.phase = "exchange" => r.code # {}
                    /\ next.state = r.state /\ next.code = r.code /\ next.link = r.link
                    /\ next.sess.exists = r.sess.exists /\ next.sess.tokens = r.sess.tokens
                    /\ found => /\ next.sess.pending = Burn(r.sess.pending, r.state)
                                /\ next.jar = {} /\ next.dirty = TRUE
                    /\ ~found => /\ next.sess.pending = r.sess.pending
                                 /\ next.jar = r.jar /\ next.dirty = r.dirty
  <1> DEFINE r == req[b][t]
             found == r.state # Missing /\ Matches(Candidates(r), r.state)
             valid == Verdict(Candidates(r), r.state, clock) = "valid"
             phase == IF Proceeds(Verdict(Candidates(r), r.state, clock), r.code)
                      THEN "exchange" ELSE "respond"
             next == [Consumed(r) EXCEPT !.phase = phase]
  <1>1. r \in Request
    BY DEF TypeOK
  <1>2. req' = [req EXCEPT ![b][t] = next]
    BY DEF VerifyState, Becomes
  <1>3. /\ r.phase = "callback"
        /\ UNCHANGED <<clock, session, cookie, codeState, redeemed, delivered, loggedOut>>
        /\ valid => logins' = [logins EXCEPT ![r.state] = UsedOnceMore(@)]
        /\ ~valid => logins' = logins
    BY DEF VerifyState, keycloakVars
  <1>4. phase \in {"exchange", "respond"} /\ (phase = "exchange" => r.code # {})
    BY DEF Proceeds
  <1> HIDE DEF r, valid, phase
  <1>5. /\ Consumed(r) \in Request
        /\ Consumed(r).state = r.state /\ Consumed(r).code = r.code /\ Consumed(r).link = r.link
        /\ Consumed(r).sess.exists = r.sess.exists /\ Consumed(r).sess.tokens = r.sess.tokens
        /\ found => /\ Consumed(r).sess.pending = Burn(r.sess.pending, r.state)
                    /\ Consumed(r).jar = {} /\ Consumed(r).dirty = TRUE
        /\ ~found => /\ Consumed(r).sess.pending = r.sess.pending
                     /\ Consumed(r).jar = r.jar /\ Consumed(r).dirty = r.dirty
    <2>1. CASE found
      <3> DEFINE kept == Burn(r.sess.pending, r.state)
                 w    == WithPending(r, kept)
      <3>1. kept \in SUBSET PendingState
        BY <1>1 DEF Burn, Request, Session
      <3>2. Consumed(r) = [w EXCEPT !.jar = {}, !.dirty = TRUE]
        BY <2>1 DEF Consumed
      <3> HIDE DEF kept
      <3>3. /\ w \in Request
            /\ w.state = r.state /\ w.code = r.code /\ w.link = r.link
            /\ w.sess.exists = r.sess.exists /\ w.sess.tokens = r.sess.tokens
            /\ w.sess.pending = kept
        BY <1>1, <3>1, WithPendingType
      <3> HIDE DEF w
      <3>4. /\ Consumed(r) \in Request
            /\ Consumed(r).state = w.state /\ Consumed(r).code = w.code /\ Consumed(r).link = w.link
            /\ Consumed(r).sess = w.sess /\ Consumed(r).jar = {} /\ Consumed(r).dirty = TRUE
        BY <3>2, <3>3 DEF Request
      <3> QED
        BY <2>1, <3>3, <3>4 DEF kept
    <2>2. CASE ~found
      BY <1>1, <2>2 DEF Consumed
    <2> QED
      BY <2>1, <2>2
  <1> HIDE DEF found
  <1>6. /\ next \in Request
        /\ next.phase = phase
        /\ next.state = Consumed(r).state /\ next.code = Consumed(r).code
        /\ next.link = Consumed(r).link /\ next.sess = Consumed(r).sess
        /\ next.jar = Consumed(r).jar /\ next.dirty = Consumed(r).dirty
    BY <1>4, <1>5 DEF Request, Phase
  <1> HIDE DEF next
  <1>7. /\ next.phase \in {"exchange", "respond"}
        /\ next.phase = "exchange" => r.code # {}
        /\ next.state = r.state /\ next.code = r.code /\ next.link = r.link
        /\ next.sess.exists = r.sess.exists /\ next.sess.tokens = r.sess.tokens
        /\ found => /\ next.sess.pending = Burn(r.sess.pending, r.state)
                    /\ next.jar = {} /\ next.dirty = TRUE
        /\ ~found => /\ next.sess.pending = r.sess.pending
                     /\ next.jar = r.jar /\ next.dirty = r.dirty
    BY <1>4, <1>5, <1>6
  <1> QED
    BY <1>2, <1>3, <1>6, <1>7 DEF r, found, valid

\* These go on to their next await and change nothing of the session.
LEMMA MoveEffect ==
    ASSUME TypeOK, NEW b \in Browsers, NEW t \in Tabs,
           RedeemCode(b, t) \/ RefuseCode(b, t) \/ RejectGrant(b, t) \/ RevokeSession(b, t)
    PROVE  LET r == req[b][t] IN
           /\ UNCHANGED <<clock, session, cookie, codeState, logins, delivered, loggedOut>>
           /\ \E next \in Request :
                /\ req' = [req EXCEPT ![b][t] = next]
                /\ next.sess = r.sess /\ next.jar = r.jar /\ next.dirty = r.dirty
                /\ next.link = r.link /\ next.state = r.state /\ next.code = r.code
                /\ \/ r.phase = "logout" /\ next.phase = "revoked" /\ UNCHANGED redeemed
                   \/ /\ r.phase \in {"exchange", "granted"} /\ next.phase = "respond"
                      /\ UNCHANGED redeemed
                   \/ /\ r.phase = "exchange" /\ next.phase \in {"granted", "respond"}
                      /\ r.code \cap redeemed = {} /\ redeemed' = redeemed \cup r.code
  <1> DEFINE r == req[b][t]
  <1>1. r \in Request
    BY DEF TypeOK
  <1>2. UNCHANGED <<clock, session, cookie, codeState, logins, delivered, loggedOut>>
    BY DEF RedeemCode, RefuseCode, RejectGrant, RevokeSession, keycloakVars, historyVars
  <1>3. PICK phase \in {"granted", "respond", "revoked"} :
           /\ req' = [req EXCEPT ![b][t] = [r EXCEPT !.phase = phase]]
           /\ \/ r.phase = "logout" /\ phase = "revoked" /\ UNCHANGED redeemed
              \/ r.phase \in {"exchange", "granted"} /\ phase = "respond" /\ UNCHANGED redeemed
              \/ /\ r.phase = "exchange" /\ phase \in {"granted", "respond"}
                 /\ r.code \cap redeemed = {} /\ redeemed' = redeemed \cup r.code
    BY DEF RedeemCode, RefuseCode, RejectGrant, RevokeSession, GoTo, Becomes, keycloakVars
  <1> DEFINE next == [r EXCEPT !.phase = phase]
  <1> HIDE DEF r
  <1>4. /\ next \in Request
        /\ next.phase = phase
        /\ next.sess = r.sess /\ next.jar = r.jar /\ next.dirty = r.dirty
        /\ next.link = r.link /\ next.state = r.state /\ next.code = r.code
    BY <1>1 DEF Request, Phase
  <1> HIDE DEF next
  <1>5. req' = [req EXCEPT ![b][t] = next]
    BY <1>3 DEF next
  <1> QED
    BY <1>2, <1>3, <1>4, <1>5 DEF r

LEMMA PersistGrantEffect ==
    ASSUME TypeOK, NEW b \in Browsers, NEW t \in Tabs, PersistGrant(b, t)
    PROVE  LET r == req[b][t] IN
           /\ r.phase = "granted"
           /\ UNCHANGED <<clock, session, cookie, codeState, redeemed, logins, delivered, loggedOut>>
           /\ \E next \in Request :
                /\ req' = [req EXCEPT ![b][t] = next]
                /\ next.phase = "respond" /\ next.state = r.state /\ next.code = r.code
                /\ next.link = r.link /\ next.jar = r.jar
                /\ next.sess.exists = r.sess.exists /\ next.sess.pending = r.sess.pending
                /\ \/ next.sess.tokens = r.sess.tokens /\ next.dirty = r.dirty
                   \/ r.sess.exists /\ next.sess.tokens = r.code /\ next.dirty = TRUE
  <1> DEFINE r    == req[b][t]
             w    == WithTokens(r, r.code)
             kept == [w EXCEPT !.phase = "respond", !.dirty = TRUE]
             same == [r EXCEPT !.phase = "respond"]
  <1>1. r \in Request
    BY DEF TypeOK
  <1>2. /\ r.phase = "granted"
        /\ UNCHANGED <<clock, session, cookie, codeState, redeemed, logins, delivered, loggedOut>>
    BY DEF PersistGrant, keycloakVars, historyVars
  <1>3. \/ req' = [req EXCEPT ![b][t] = kept] /\ r.sess.exists
        \/ req' = [req EXCEPT ![b][t] = same]
    BY DEF PersistGrant, Becomes, GoTo
  <1> HIDE DEF r
  <1>4. r.code \in SUBSET Codes
    BY <1>1 DEF Request
  <1>5. /\ w \in Request
        /\ w.state = r.state /\ w.code = r.code /\ w.link = r.link /\ w.jar = r.jar
        /\ w.sess.exists = r.sess.exists /\ w.sess.pending = r.sess.pending
        /\ w.sess.tokens = r.code
    BY <1>1, <1>4, WithTokensType
  <1> HIDE DEF w
  <1>6. /\ kept \in Request
        /\ kept.phase = "respond" /\ kept.dirty = TRUE
        /\ kept.state = w.state /\ kept.code = w.code /\ kept.link = w.link
        /\ kept.jar = w.jar /\ kept.sess = w.sess
    BY <1>5 DEF Request, Phase
  <1>7. /\ same \in Request
        /\ same.phase = "respond" /\ same.dirty = r.dirty
        /\ same.state = r.state /\ same.code = r.code /\ same.link = r.link
        /\ same.jar = r.jar /\ same.sess = r.sess
    BY <1>1 DEF Request, Phase
  <1> HIDE DEF kept, same
  <1> QED
    BY <1>2, <1>3, <1>5, <1>6, <1>7 DEF r

\* Logging out leaves the request without a session.
LEMMA ClearSessionEffect ==
    ASSUME TypeOK, NEW b \in Browsers, NEW t \in Tabs,
           ClearSession(b, t) \/ FailToClearSession(b, t)
    PROVE  LET r == req[b][t] IN
           /\ r.phase = "revoked"
           /\ UNCHANGED <<clock, cookie, codeState, redeemed, logins, delivered>>
           /\ \/ ClearSession(b, t) /\ loggedOut' = loggedOut \cup r.sess.tokens
                 /\ session' = IF r.link = "current" THEN [session EXCEPT ![b] = NoSession]
                               ELSE session
              \/ FailToClearSession(b, t) /\ UNCHANGED <<loggedOut, session>>
           /\ \E next \in Request :
                /\ req' = [req EXCEPT ![b][t] = next]
                /\ next.phase = "respond" /\ next.state = r.state /\ next.code = r.code
                /\ next.link = r.link /\ next.jar = r.jar
                /\ next.sess = NoSession /\ next.dirty = FALSE
  <1> DEFINE r    == req[b][t]
             next == Detached(r)
  <1>1. r \in Request
    BY DEF TypeOK
  <1>2. /\ r.phase = "revoked"
        /\ UNCHANGED <<clock, cookie, codeState, redeemed, logins, delivered>>
        /\ \/ ClearSession(b, t) /\ loggedOut' = loggedOut \cup r.sess.tokens
              /\ session' = IF r.link = "current" THEN [session EXCEPT ![b] = NoSession]
                            ELSE session
           \/ FailToClearSession(b, t) /\ UNCHANGED <<loggedOut, session>>
        /\ req' = [req EXCEPT ![b][t] = next]
    BY DEF ClearSession, FailToClearSession, Becomes, keycloakVars, historyVars
  <1> HIDE DEF r
  <1>3. /\ next \in Request
        /\ next.phase = "respond" /\ next.state = r.state /\ next.code = r.code
        /\ next.link = r.link /\ next.jar = r.jar
        /\ next.sess = NoSession /\ next.dirty = FALSE
    BY <1>1 DEF Detached, Request, Phase, NoSession, Session
  <1> HIDE DEF next
  <1> QED
    BY <1>2, <1>3 DEF r

LEMMA ClearPendingEffect ==
    ASSUME TypeOK, NEW b \in Browsers, NEW t \in Tabs, ClearPending(b, t)
    PROVE  LET r == req[b][t] IN
           /\ r.phase = "clear"
           /\ UNCHANGED <<clock, session, cookie, codeState, redeemed, logins, delivered, loggedOut>>
           /\ \E next \in Request :
                /\ req' = [req EXCEPT ![b][t] = next]
                /\ next.phase = "respond" /\ next.state = r.state /\ next.code = r.code
                /\ next.link = r.link /\ next.jar = {}
                /\ next.sess.exists = r.sess.exists /\ next.sess.tokens = r.sess.tokens
                /\ next.sess.pending = {}
                /\ next.dirty <=> r.link # "current" \/ r.sess.pending # {}
  <1> DEFINE r     == req[b][t]
             w     == WithPending(r, {})
             dirty == r.link # "current" \/ r.sess.pending # {}
             next  == [w EXCEPT !.phase = "respond", !.jar = {}, !.dirty = dirty]
  <1>1. r \in Request
    BY DEF TypeOK
  <1>2. /\ r.phase = "clear"
        /\ UNCHANGED <<clock, session, cookie, codeState, redeemed, logins, delivered, loggedOut>>
        /\ req' = [req EXCEPT ![b][t] = next]
    BY DEF ClearPending, Becomes, keycloakVars, historyVars
  <1>3. dirty \in BOOLEAN /\ (dirty <=> r.link # "current" \/ r.sess.pending # {})
    OBVIOUS
  <1> HIDE DEF r, dirty
  <1>4. /\ w \in Request
        /\ w.state = r.state /\ w.code = r.code /\ w.link = r.link
        /\ w.sess.exists = r.sess.exists /\ w.sess.tokens = r.sess.tokens
        /\ w.sess.pending = {}
    BY <1>1, WithPendingType
  <1> HIDE DEF w
  <1>5. /\ next \in Request
        /\ next.phase = "respond" /\ next.jar = {} /\ next.dirty = dirty
        /\ next.state = w.state /\ next.code = w.code /\ next.link = w.link
        /\ next.sess = w.sess
    BY <1>3, <1>4 DEF Request, Phase
  <1> HIDE DEF next
  <1> QED
    BY <1>2, <1>3, <1>4, <1>5 DEF r

-----------------------------------------------------------------------------
(* The invariant *)

\* Every entry has the number and the expiry of a login that was minted.
Recorded(minted, states) ==
    \A p \in states : /\ p.value \in 1..Len(minted)
                      /\ p.expiresAt = minted[p.value].expiresAt

Listed(minted, states) == Recorded(minted, states) /\ Cardinality(states) <= MaxPending

PendingInv ==
    /\ LoginInv
    /\ \A b \in Browsers :
         /\ Listed(logins, session[b].pending)
         /\ Recorded(logins, cookie[b])
         /\ \A t \in Tabs : /\ Listed(logins, req[b][t].sess.pending)
                            /\ Recorded(logins, req[b][t].jar)

LEMMA RecordedDistinct ==
    ASSUME NEW minted, Len(minted) \in Nat, NEW states \in SUBSET PendingState,
           Recorded(minted, states)
    PROVE  IsFiniteSet(states) /\ Distinct(states)
  <1>1. Distinct(states)
    BY DEF Distinct, Recorded, PendingState
  <1> DEFINE number == [p \in states |-> p.value]
  <1>2. number \in Injection(states, 1..Len(minted))
    BY <1>1 DEF Recorded, Distinct, Injection, IsInjective
  <1>3. IsFiniteSet(1..Len(minted))
    BY FS_Interval
  <1> QED
    BY <1>1, <1>2, <1>3, FS_Injection

LEMMA ListedSubset ==
    ASSUME NEW minted, Len(minted) \in Nat, NEW states \in SUBSET PendingState,
           Listed(minted, states), NEW fewer \in SUBSET states
    PROVE  Listed(minted, fewer)
  <1>1. IsFiniteSet(states)
    BY RecordedDistinct DEF Listed
  <1>2. /\ Cardinality(fewer) <= Cardinality(states)
        /\ Cardinality(fewer) \in Nat /\ Cardinality(states) \in Nat
    BY <1>1, FS_Subset, FS_CardinalityType
  <1> QED
    BY <1>2, MaxPendingAssumption DEF Listed, Recorded

LEMMA NothingListed ==
    ASSUME NEW minted
    PROVE  Listed(minted, {}) /\ Recorded(minted, {})
  BY FS_EmptySet, MaxPendingAssumption DEF Listed, Recorded

LEMMA RecordedGrows ==
    ASSUME Grows, NEW states
    PROVE  /\ Recorded(logins, states) => Recorded(logins', states)
           /\ Listed(logins, states) => Listed(logins', states)
  BY DEF Grows, Recorded, Listed

\* A list with the entry of a new login is recorded and no longer than the cap.
LEMMA AddPendingListed ==
    ASSUME NEW minted \in Seq(Login), NEW login \in Login, NEW now \in Nat,
           NEW states \in SUBSET PendingState, Listed(minted, states),
           NEW entry \in PendingState, entry.value = Len(minted) + 1,
           entry.expiresAt = login.expiresAt
    PROVE  /\ Listed(Append(minted, login), AddPending(states, entry, now))
           /\ Recorded(Append(minted, login), {entry})
           /\ LET full == Unexpired(states, now) \cup {entry} IN
              /\ full \in SUBSET PendingState
              /\ IsFiniteSet(full) /\ Distinct(full)
              /\ \A p \in full : p.value <= Len(minted) + 1
  <1> DEFINE more == Append(minted, login)
             full == Unexpired(states, now) \cup {entry}
  <1>1. /\ Len(more) = Len(minted) + 1 /\ Len(minted) \in Nat
        /\ \A i \in 1..Len(minted) : more[i] = minted[i]
        /\ more[Len(minted) + 1] = login
    OBVIOUS
  <1> HIDE DEF more
  <1>2. full \in SUBSET PendingState
    BY DEF Unexpired
  <1>3. Recorded(more, full)
    <2>1. ASSUME NEW p \in Unexpired(states, now)
          PROVE  p.value \in 1..Len(more) /\ p.expiresAt = more[p.value].expiresAt
      BY <1>1 DEF Unexpired, Listed, Recorded
    <2>2. entry.value \in 1..Len(more) /\ entry.expiresAt = more[entry.value].expiresAt
      BY <1>1
    <2> QED
      BY <2>1, <2>2 DEF Recorded
  <1>4. IsFiniteSet(full) /\ Distinct(full)
    BY <1>1, <1>2, <1>3, RecordedDistinct
  <1>5. Listed(more, Newest(full))
    <2>1. Cardinality(Newest(full)) <= MaxPending
      BY <1>2, <1>4, NewestBounded
    <2>2. Newest(full) \subseteq full
      BY DEF Newest
    <2> QED
      BY <1>3, <2>1, <2>2 DEF Listed, Recorded
  <1>6. \A p \in full : p.value <= Len(minted) + 1
    BY <1>1, <1>3 DEF Recorded
  <1>7. Recorded(more, {entry})
    BY <1>3 DEF Recorded
  <1> QED
    BY <1>2, <1>4, <1>5, <1>6, <1>7 DEF AddPending, more

-----------------------------------------------------------------------------
(* Every step keeps the invariant. *)

\* What a step leaves alone
LEMMA StoreListed ==
    ASSUME PendingInv, Grows, NEW b \in Browsers
    PROVE  /\ Listed(logins', session[b].pending)
           /\ Recorded(logins', cookie[b])
           /\ \A t \in Tabs : /\ Listed(logins', req[b][t].sess.pending)
                              /\ Recorded(logins', req[b][t].jar)
  BY RecordedGrows DEF PendingInv

LEMMA OwnRequestListed ==
    ASSUME PendingInv, Grows, LoginInv', UNCHANGED <<session, cookie>>,
           NEW b \in Browsers, NEW t \in Tabs, NEW next \in Request,
           req' = [req EXCEPT ![b][t] = next],
           Listed(logins', next.sess.pending), Recorded(logins', next.jar)
    PROVE  PendingInv'
  <1>1. ASSUME NEW d \in Browsers, NEW u \in Tabs
        PROVE  Listed(logins', req'[d][u].sess.pending) /\ Recorded(logins', req'[d][u].jar)
    <2>1. req'[d][u] \in {next, req[d][u]} /\ (req'[d][u] # next => req'[d][u] = req[d][u])
      BY DEF PendingInv, LoginInv, TypeOK
    <2> QED
      BY <2>1, StoreListed
  <1>2. ASSUME NEW d \in Browsers
        PROVE  Listed(logins', session'[d].pending) /\ Recorded(logins', cookie'[d])
    BY StoreListed
  <1> QED
    BY <1>1, <1>2 DEF PendingInv

\* A request whose handler only takes pending states away
LEMMA FewerListed ==
    ASSUME PendingInv, Grows, LoginInv', UNCHANGED <<session, cookie>>,
           NEW b \in Browsers, NEW t \in Tabs, NEW next \in Request,
           req' = [req EXCEPT ![b][t] = next],
           next.sess.pending \in SUBSET req[b][t].sess.pending,
           next.jar \in SUBSET req[b][t].jar
    PROVE  PendingInv'
  <1>1. /\ Listed(logins', req[b][t].sess.pending) /\ Recorded(logins', req[b][t].jar)
        /\ Len(logins') \in Nat
        /\ req[b][t].sess.pending \in SUBSET PendingState
    BY StoreListed DEF PendingInv, LoginInv, TypeOK, Request, Session, Grows
  <1>2. Listed(logins', next.sess.pending)
    BY <1>1, ListedSubset
  <1>3. Recorded(logins', next.jar)
    BY <1>1 DEF Recorded
  <1> QED
    BY <1>2, <1>3, OwnRequestListed

LEMMA ArriveListed ==
    ASSUME PendingInv, Grows, LoginInv', NEW b \in Browsers, NEW t \in Tabs, Arrive(b, t)
    PROVE  PendingInv'
  <1>1. TypeOK
    BY DEF PendingInv, LoginInv
  <1>2. PICK next \in Request :
           /\ req' = [req EXCEPT ![b][t] = next]
           /\ next.sess = LoadedSession(b) /\ next.jar = SentCookie(b)
    BY <1>1, ArriveEffect
  <1>3. Listed(logins', next.sess.pending)
    BY <1>2, StoreListed, NothingListed DEF LoadedSession
  <1>4. Recorded(logins', next.jar)
    BY <1>2, StoreListed DEF SentCookie, Unexpired, Recorded
  <1>5. UNCHANGED <<session, cookie>>
    BY <1>1, ArriveEffect
  <1> QED
    BY <1>2, <1>3, <1>4, <1>5, OwnRequestListed

LEMMA StartLoginListed ==
    ASSUME PendingInv, Grows, LoginInv', NEW b \in Browsers, NEW t \in Tabs, StartLogin(b, t)
    PROVE  PendingInv'
  <1> DEFINE r     == req[b][t]
             entry == [value |-> Len(logins) + 1, expiresAt |-> clock + Ttl]
             login == [browser |-> b, expiresAt |-> clock + Ttl, uses |-> 0]
  <1>1. TypeOK /\ logins \in Seq(Login) /\ clock \in Nat /\ login \in Login
    BY TtlAssumption DEF PendingInv, LoginInv, TypeOK, Login
  <1>2. PICK next \in Request :
           /\ req' = [req EXCEPT ![b][t] = next]
           /\ r.sess.exists => /\ next.sess.pending = AddPending(r.sess.pending, entry, clock)
                               /\ next.jar = r.jar
           /\ ~r.sess.exists => next.sess.pending = r.sess.pending /\ next.jar = {entry}
    BY <1>1, StartLoginEffect
  <1>3. /\ entry \in PendingState /\ logins' = Append(logins, login)
        /\ UNCHANGED <<session, cookie>>
    BY <1>1, StartLoginEffect
  <1>4. entry.value = Len(logins) + 1 /\ entry.expiresAt = login.expiresAt
    OBVIOUS
  <1>5. r.sess.pending \in SUBSET PendingState /\ Listed(logins, r.sess.pending)
    BY <1>1 DEF PendingInv, TypeOK, Request, Session
  <1> HIDE DEF r, entry, login
  <1>6. /\ Listed(logins', AddPending(r.sess.pending, entry, clock))
        /\ Recorded(logins', {entry})
    BY <1>1, <1>3, <1>4, <1>5, AddPendingListed
  <1>7. Listed(logins', r.sess.pending) /\ Recorded(logins', r.jar)
    BY StoreListed DEF r
  <1>8. Listed(logins', next.sess.pending) /\ Recorded(logins', next.jar)
    BY <1>2, <1>6, <1>7
  <1> QED
    BY <1>2, <1>3, <1>8, OwnRequestListed

LEMMA VerifyStateListed ==
    ASSUME PendingInv, Grows, LoginInv', NEW b \in Browsers, NEW t \in Tabs, VerifyState(b, t)
    PROVE  PendingInv'
  <1>1. TypeOK
    BY DEF PendingInv, LoginInv
  <1> DEFINE r     == req[b][t]
             found == r.state # Missing /\ Matches(Candidates(r), r.state)
  <1>2. PICK next \in Request :
           /\ req' = [req EXCEPT ![b][t] = next]
           /\ next.phase \in {"exchange", "respond"}
           /\ next.phase = "exchange" => r.code # {}
           /\ next.state = r.state /\ next.code = r.code /\ next.link = r.link
           /\ next.sess.exists = r.sess.exists /\ next.sess.tokens = r.sess.tokens
           /\ found => /\ next.sess.pending = Burn(r.sess.pending, r.state)
                       /\ next.jar = {} /\ next.dirty = TRUE
           /\ ~found => /\ next.sess.pending = r.sess.pending
                        /\ next.jar = r.jar /\ next.dirty = r.dirty
    BY <1>1, VerifyStateEffect
  <1> HIDE DEF found
  <1>3. next.sess.pending \in SUBSET r.sess.pending /\ next.jar \in SUBSET r.jar
    BY <1>2 DEF Burn
  <1>4. UNCHANGED <<session, cookie>>
    BY <1>1, VerifyStateEffect
  <1> QED
    BY <1>2, <1>3, <1>4, FewerListed

LEMMA OtherHandlersListed ==
    ASSUME PendingInv, Grows, LoginInv', NEW b \in Browsers, NEW t \in Tabs,
           \/ RedeemCode(b, t) \/ RefuseCode(b, t) \/ RejectGrant(b, t) \/ RevokeSession(b, t)
           \/ PersistGrant(b, t) \/ ClearPending(b, t)
    PROVE  PendingInv'
  <1>1. TypeOK
    BY DEF PendingInv, LoginInv
  <1>2. /\ UNCHANGED <<session, cookie>>
        /\ \E next \in Request :
             /\ req' = [req EXCEPT ![b][t] = next]
             /\ next.sess.pending \in {req[b][t].sess.pending, {}}
             /\ next.jar \in {req[b][t].jar, {}}
    <2>1. CASE PersistGrant(b, t)
      <3>1. PICK next \in Request :
              /\ req' = [req EXCEPT ![b][t] = next]
              /\ next.jar = req[b][t].jar /\ next.sess.pending = req[b][t].sess.pending
        BY <1>1, <2>1, PersistGrantEffect
      <3>2. UNCHANGED <<session, cookie>>
        BY <1>1, <2>1, PersistGrantEffect
      <3> QED
        BY <3>1, <3>2
    <2>2. CASE ClearPending(b, t)
      BY <1>1, <2>2, ClearPendingEffect
    <2>3. CASE RedeemCode(b, t) \/ RefuseCode(b, t) \/ RejectGrant(b, t) \/ RevokeSession(b, t)
      BY <1>1, <2>3, MoveEffect
    <2> QED
      BY <2>1, <2>2, <2>3
  <1>3. PICK next \in Request :
          /\ req' = [req EXCEPT ![b][t] = next]
          /\ next.sess.pending \in SUBSET req[b][t].sess.pending
          /\ next.jar \in SUBSET req[b][t].jar
    BY <1>2
  <1> QED
    BY <1>2, <1>3, FewerListed

LEMMA ClearSessionListed ==
    ASSUME PendingInv, Grows, LoginInv', NEW b \in Browsers, NEW t \in Tabs,
           ClearSession(b, t) \/ FailToClearSession(b, t)
    PROVE  PendingInv'
  <1>1. TypeOK
    BY DEF PendingInv, LoginInv
  <1>2. /\ cookie' = cookie
        /\ session' \in {session, [session EXCEPT ![b] = NoSession]}
        /\ \E next \in Request : /\ req' = [req EXCEPT ![b][t] = next]
                                 /\ next.sess = NoSession /\ next.jar = req[b][t].jar
    BY <1>1, ClearSessionEffect
  <1>3. PICK next \in Request : /\ req' = [req EXCEPT ![b][t] = next]
                                /\ next.sess = NoSession /\ next.jar = req[b][t].jar
    BY <1>2
  <1>4. NoSession.pending = {}
    BY DEF NoSession
  <1>5. ASSUME NEW d \in Browsers
        PROVE  Listed(logins', session'[d].pending) /\ Recorded(logins', cookie'[d])
    <2>1. session'[d] \in {session[d], NoSession}
      BY <1>1, <1>2 DEF TypeOK
    <2> QED
      BY <1>2, <1>4, <2>1, StoreListed, NothingListed
  <1>6. ASSUME NEW d \in Browsers, NEW u \in Tabs
        PROVE  Listed(logins', req'[d][u].sess.pending) /\ Recorded(logins', req'[d][u].jar)
    <2>1. \/ req'[d][u] = req[d][u]
          \/ /\ req'[d][u].sess.pending = {}
             /\ req'[d][u].jar = req[d][u].jar
      BY <1>1, <1>3, <1>4 DEF TypeOK
    <2> QED
      BY <2>1, StoreListed, NothingListed
  <1> QED
    BY <1>5, <1>6 DEF PendingInv

LEMMA RespondListed ==
    ASSUME PendingInv, Grows, LoginInv', NEW b \in Browsers, NEW t \in Tabs, Respond(b, t)
    PROVE  PendingInv'
  <1> DEFINE r == req[b][t]
  <1>1. TypeOK /\ r \in Request
    BY DEF PendingInv, LoginInv, TypeOK
  <1>2. /\ session' \in {session, [session EXCEPT ![b] = r.sess]}
        /\ cookie' \in {cookie, [cookie EXCEPT ![b] = r.jar]}
    BY DEF Respond
  <1>3. ASSUME NEW d \in Browsers
        PROVE  Listed(logins', session'[d].pending) /\ Recorded(logins', cookie'[d])
    <2>1. \/ session'[d] = session[d]
          \/ d = b /\ session'[d] = r.sess
      BY <1>1, <1>2 DEF TypeOK
    <2>2. \/ cookie'[d] = cookie[d]
          \/ d = b /\ cookie'[d] = r.jar
      BY <1>1, <1>2 DEF TypeOK
    <2> QED
      BY <2>1, <2>2, StoreListed
  <1>4. ASSUME NEW d \in Browsers, NEW u \in Tabs
        PROVE  Listed(logins', req'[d][u].sess.pending) /\ Recorded(logins', req'[d][u].jar)
    <2>1. \/ req'[d][u] = req[d][u]
          \/ req'[d][u] = Idle
          \/ req'[d][u] = [req[d][u] EXCEPT !.link = "orphan"]
      BY <1>1 DEF Respond, TypeOK
    <2>2. Idle.sess.pending = {} /\ Idle.jar = {}
      BY DEF Idle, NoSession
    <2>3. /\ [req[d][u] EXCEPT !.link = "orphan"].sess = req[d][u].sess
          /\ [req[d][u] EXCEPT !.link = "orphan"].jar = req[d][u].jar
      BY <1>1 DEF TypeOK, Request
    <2> QED
      BY <2>1, <2>2, <2>3, StoreListed, NothingListed
  <1> QED
    BY <1>3, <1>4 DEF PendingInv

LEMMA PendingInvStep ==
    PendingInv /\ [Next]_vars => PendingInv'
  <1> SUFFICES ASSUME PendingInv, [Next]_vars
               PROVE  PendingInv'
    OBVIOUS
  <1>1. LoginInv' /\ Grows
    BY LoginInvStep, LoginsGrow DEF PendingInv, LoginInv, TypeInv
  <1>2. ASSUME NEW b \in Browsers, NEW t \in Tabs, Arrive(b, t) \/ Handle(b, t)
        PROVE  PendingInv'
    BY <1>1, <1>2, ArriveListed, StartLoginListed, VerifyStateListed, OtherHandlersListed,
       ClearSessionListed, RespondListed DEF Handle
  <1>3. ASSUME UNCHANGED <<session, cookie, req>>
        PROVE  PendingInv'
    BY <1>1, <1>3, StoreListed DEF PendingInv
  <1> QED
    BY <1>2, <1>3 DEF Next, Authenticate, Tick, vars

LEMMA PendingInvInit == Init => PendingInv
  <1> SUFFICES ASSUME Init
               PROVE  PendingInv
    OBVIOUS
  <1>1. ASSUME NEW b \in Browsers
        PROVE  /\ session[b].pending = {} /\ cookie[b] = {}
               /\ \A t \in Tabs : req[b][t].sess.pending = {} /\ req[b][t].jar = {}
    BY DEF Init, NoSession, Idle
  <1> QED
    BY <1>1, LoginInvInit, NothingListed DEF PendingInv

-----------------------------------------------------------------------------
(* Theorems *)

\* Every pending state, in the store, in a cookie or in a copy, has the number
\* and the expiry of a minted login, and no list is longer than the cap.
THEOREM PendingInvariant == Spec => []PendingInv
  BY PendingInvInit, PendingInvStep, PTL DEF Spec

\* MAX_PENDING_STATES caps the list in the store and in every copy of it, for
\* any number of tabs that write their copies back in any order.
THEOREM ListsAreBounded == Spec => []PendingBounded
  <1>1. PendingInv => PendingBounded
    BY DEF PendingInv, Listed, PendingBounded
  <1> QED
    BY <1>1, PendingInvariant, PTL

\* A callback is accepted in time and from the browser its state was minted for,
\* with a session or with the cookie, for any number of tabs.
THEOREM StatesAcceptedFromOwner == Spec => AcceptedFromOwner
  <1> DEFINE Changed(s) == logins'[s].uses # logins[s].uses
             Owner(s)   == \E t \in Tabs : LET mine == req[logins[s].browser][t] IN
                              mine.phase = "callback" /\ mine.state = s
                                /\ mine # req'[logins[s].browser][t]
  <1>1. ASSUME PendingInv, [Next]_vars, NEW s \in 1..Len(logins), Changed(s)
        PROVE  clock < logins[s].expiresAt /\ Owner(s)
    <2>1. TypeOK /\ logins \in Seq(Login) /\ clock \in Nat
      BY <1>1 DEF PendingInv, LoginInv, TypeOK
    <2>2. PICK b \in Browsers, t \in Tabs : VerifyState(b, t)
      <3>1. ASSUME NEW b \in Browsers, NEW t \in Tabs, StartLogin(b, t)
            PROVE  FALSE
        <4>1. logins' = Append(logins, [browser |-> b, expiresAt |-> clock + Ttl, uses |-> 0])
          BY <2>1, <3>1, StartLoginEffect
        <4> QED
          BY <1>1, <2>1, <4>1
      <3>2. ASSUME NEW b \in Browsers, NEW t \in Tabs, Arrive(b, t)
            PROVE  UNCHANGED logins
        BY <3>2 DEF Arrive, SendLogin, SendCallback, SendLogout, SendClear, Send, historyVars
      <3>3. ASSUME NEW b \in Browsers, NEW t \in Tabs, Handle(b, t),
                   ~StartLogin(b, t), ~VerifyState(b, t)
            PROVE  UNCHANGED logins
        BY <3>3 DEF Handle, RedeemCode, RefuseCode, PersistGrant, RejectGrant, RevokeSession,
                    ClearSession, FailToClearSession, ClearPending, Respond, historyVars
      <3>4. Tick \/ UNCHANGED vars \/ (\E c \in Codes : Authenticate(c)) => UNCHANGED logins
        BY DEF Tick, vars, Authenticate, historyVars
      <3> QED
        BY <1>1, <3>1, <3>2, <3>3, <3>4 DEF Next
    <2> DEFINE r == req[b][t]
               valid == Verdict(Candidates(r), r.state, clock) = "valid"
    <2>3. /\ r.phase = "callback"
          /\ valid => logins' = [logins EXCEPT ![r.state] = UsedOnceMore(@)]
          /\ ~valid => logins' = logins
      BY <2>1, <2>2, VerifyStateEffect
    <2>4. valid /\ r.state = s
      BY <1>1, <2>1, <2>3
    <2>5. PICK p \in Candidates(r) : p.value = s /\ ~(p.expiresAt <= clock)
      BY <2>4 DEF Verdict, Matches
    <2>6. /\ Recorded(logins, Candidates(r)) /\ Owned(logins, Candidates(r), b)
          /\ Candidates(r) \subseteq PendingState
      BY <1>1, <2>1
      DEF PendingInv, LoginInv, RequestsFit, Fits, Listed, Candidates, Recorded, Owned,
          TypeOK, Request, Session
    <2>7. /\ logins[s].browser = b /\ p.expiresAt = logins[s].expiresAt
          /\ p.expiresAt \in Nat
      BY <2>5, <2>6 DEF Recorded, Owned, PendingState
    <2>8. req'[b][t] # r
      <3>1. PICK next \in Request :
              req' = [req EXCEPT ![b][t] = next] /\ next.phase \in {"exchange", "respond"}
        BY <2>1, <2>2, VerifyStateEffect
      <3> QED
        BY <2>1, <2>3, <3>1 DEF TypeOK
    <2> QED
      BY <2>1, <2>3, <2>4, <2>5, <2>7, <2>8
  <1>2. PendingInv /\ [Next]_vars =>
          [\A s \in 1..Len(logins) : logins'[s].uses # logins[s].uses =>
             /\ clock < logins[s].expiresAt
             /\ \E t \in Tabs : LET mine == req[logins[s].browser][t] IN
                  mine.phase = "callback" /\ mine.state = s
                    /\ mine # req'[logins[s].browser][t]]_vars
    BY <1>1
  <1> QED
    BY <1>2, PendingInvariant, PTL DEF Spec, AcceptedFromOwner

=============================================================================
