------------------------------ MODULE TicketProofs ------------------------------
(***************************************************************************)
(* With express-session and one request of a browser at a time, LoginFlow  *)
(* implements LoginTickets, for every set of browsers and codes, every cap *)
(* and time to live.  The tickets a browser holds are the values in the    *)
(* copy its request works on, and in the stored record between requests.   *)
(* SerialProofs shows that the two agree until the handler changes the     *)
(* copy; so a handler issues, accepts or loses tickets when it runs, and a *)
(* reply moves none.                                                       *)
(***************************************************************************)
EXTENDS SerialProofs

\* The tickets a request and a record stand for
Values(states) == {s.value : s \in states}

HeldOf(stored, r) == Values(IF r.sess.exists THEN r.sess.pending ELSE stored.pending)

LEMMA HeldIs ==
    ASSUME NEW b
    PROVE  Held(b) = HeldOf(session[b], Only(b)) /\ Held(b)' = HeldOf(session'[b], Only(b)')
  BY DEF Held, HeldOf, Values, Only

LEMMA HeldMoves ==
    ASSUME OneTab, TypeOK, NEW b \in Browsers, NEW next \in Request,
           req' = [req EXCEPT ![b][TheTab] = next],
           \A d \in Browsers \ {b} : session'[d] = session[d]
    PROVE  /\ \A d \in Browsers \ {b} : Held(d)' = Held(d)
           /\ Held(b) = HeldOf(session[b], req[b][TheTab])
           /\ Held(b)' = HeldOf(session'[b], next)
  <1>1. /\ Only(b)' = next /\ Only(b) = req[b][TheTab]
        /\ \A d \in Browsers \ {b} : Only(d)' = Only(d)
    BY OnlyMoves DEF Only
  <1>2. ASSUME NEW d \in Browsers \ {b}
        PROVE  Held(d)' = Held(d)
    BY <1>1, HeldIs
  <1> QED
    BY <1>1, <1>2, HeldIs

\* A handler that only takes tickets away loses them, or does nothing.
LEMMA LosesTickets ==
    ASSUME UNCHANGED <<clock, logins>>, NEW b \in Browsers,
           \A d \in Browsers \ {b} : Held(d)' = Held(d), Held(b)' \subseteq Held(b)
    PROVE  [Tickets!Next]_Tickets!vars
  <1> DEFINE held == [d \in Browsers |-> Held(d)]
  <1>1. held' = [held EXCEPT ![b] = Held(b)'] /\ held[b] = Held(b)
    OBVIOUS
  <1>2. CASE Held(b)' = Held(b)
    <2>1. held' = held
      BY <1>2
    <2> QED
      BY <2>1 DEF Tickets!vars
  <1>3. CASE Held(b)' # Held(b)
    <2>1. Tickets!Lose(b) <=>
            \E kept \in SUBSET held[b] :
               /\ kept # held[b]
               /\ held' = [held EXCEPT ![b] = kept]
               /\ UNCHANGED <<clock, logins>>
      BY DEF Tickets!Lose
    <2> HIDE DEF held
    <2>2. Tickets!Lose(b)
      BY <1>1, <1>3, <2>1
    <2> QED
      BY <2>2 DEF Tickets!Next
  <1> QED
    BY <1>2, <1>3

LEMMA ValuesCounted ==
    ASSUME NEW states, IsFiniteSet(states), Distinct(states)
    PROVE  IsFiniteSet(Values(states)) /\ Cardinality(Values(states)) = Cardinality(states)
  <1> DEFINE number == [s \in states |-> s.value]
  <1>1. number \in Bijection(states, Values(states))
    BY DEF Distinct, Values, Bijection, Injection, Surjection, IsInjective
  <1>2. ExistsBijection(states, Values(states))
    BY <1>1 DEF ExistsBijection
  <1> QED
    BY <1>2, FS_Bijection

-----------------------------------------------------------------------------
(* The steps that issue or accept a ticket *)

LEMMA StartLoginIssues ==
    ASSUME OneTab, SessionInstalled, UsesInv, NEW b \in Browsers, StartLogin(b, TheTab)
    PROVE  Tickets!Issue(b)
  <1> DEFINE r      == req[b][TheTab]
             entry  == [value |-> Len(logins) + 1, expiresAt |-> clock + Ttl]
             login  == [browser |-> b, expiresAt |-> clock + Ttl, uses |-> 0]
             full   == Unexpired(r.sess.pending, clock) \cup {entry}
             newest == Newest(full)
             kept   == Values(newest \ {entry})
  <1>1. /\ TypeOK /\ TheTab \in Tabs /\ logins \in Seq(Login) /\ clock \in Nat
        /\ Serial(clock, session[b], cookie[b], r) /\ r \in Request
        /\ r.sess.pending \in SUBSET PendingState /\ Listed(logins, r.sess.pending)
    BY TheOnlyTab
    DEF UsesInv, SerialInv, PendingInv, LoginInv, TypeOK, Only, Request, Session
  <1>2. PICK next \in Request :
           /\ req' = [req EXCEPT ![b][TheTab] = next]
           /\ next.phase = "redirect" /\ next.state = Len(logins) + 1
           /\ next.code = r.code /\ next.link = r.link /\ next.dirty = TRUE
           /\ next.sess.exists = r.sess.exists /\ next.sess.tokens = r.sess.tokens
           /\ r.sess.exists => /\ next.sess.pending = AddPending(r.sess.pending, entry, clock)
                               /\ next.jar = r.jar
           /\ ~r.sess.exists => next.sess.pending = r.sess.pending /\ next.jar = {entry}
    BY <1>1, StartLoginEffect
  <1>3. /\ r.phase = "login" /\ entry \in PendingState /\ logins' = Append(logins, login)
        /\ UNCHANGED <<clock, session>>
    BY <1>1, StartLoginEffect
  <1>4. r.sess.exists
    BY <1>1, <1>3 DEF Serial, Attached
  <1>5. /\ login \in Login /\ Len(logins) \in Nat /\ Len(logins) + 1 \in Nat
        /\ entry.value = Len(logins) + 1 /\ entry.expiresAt = login.expiresAt
    BY <1>1, TtlAssumption DEF Login
  <1>6. AddPending(r.sess.pending, entry, clock) = newest
    BY DEF AddPending
  <1>7. full \subseteq r.sess.pending \cup {entry} /\ newest \subseteq full
    BY DEF Newest, Unexpired
  <1>8. ASSUME NEW p \in r.sess.pending \ full
        PROVE  p.expiresAt <= clock
    BY <1>1, <1>8 DEF Unexpired, PendingState
  <1> HIDE DEF login, entry
  <1>9. /\ full \in SUBSET PendingState /\ IsFiniteSet(full) /\ Distinct(full)
        /\ \A p \in full : p.value <= Len(logins) + 1
    BY <1>1, <1>3, <1>5, AddPendingListed
  <1>10. entry \in full
    OBVIOUS
  <1> HIDE DEF r, full
  <1>11. entry \in newest
    <2>1. {p \in full : p.value > entry.value} = {}
      BY <1>5, <1>9 DEF PendingState
    <2> QED
      BY <1>10, <2>1, FS_EmptySet, MaxPendingAssumption DEF Newest
  <1>12. /\ IsFiniteSet(newest) /\ Distinct(newest) /\ Cardinality(newest) \in Nat
         /\ Cardinality(newest) <= MaxPending
    <2>1. newest \in SUBSET full
      BY <1>7
    <2>2. IsFiniteSet(newest) /\ Cardinality(newest) <= MaxPending
      BY <1>9, <2>1, NewestBounded, FS_Subset
    <2> QED
      BY <1>9, <2>1, <2>2, FS_CardinalityType DEF Distinct
  <1>13. Cardinality(kept) = Cardinality(newest) - 1
    <2>1. /\ IsFiniteSet(newest \ {entry}) /\ Distinct(newest \ {entry})
          /\ Cardinality(newest \ {entry}) = Cardinality(newest) - 1
      BY <1>11, <1>12, FS_RemoveElement DEF Distinct
    <2> QED
      BY <2>1, ValuesCounted
  <1>14. /\ Held(b) = Values(r.sess.pending)
         /\ Held(b)' = Values(newest)
         /\ \A d \in Browsers \ {b} : Held(d)' = Held(d)
    BY <1>1, <1>2, <1>3, <1>4, <1>6, HeldMoves DEF HeldOf, r
  <1>15. Values(newest) = kept \cup {Len(logins) + 1}
    BY <1>5, <1>11 DEF Values
  <1>16. kept \in SUBSET Held(b) /\ Cardinality(kept) < MaxPending
    BY <1>7, <1>12, <1>13, <1>14, MaxPendingAssumption DEF Values
  <1>17. ASSUME NEW s \in Held(b) \ kept
         PROVE  \/ logins[s].expiresAt <= clock
                \/ Cardinality({k \in kept : k > s}) = MaxPending - 1
    <2>1. PICK p \in r.sess.pending : p.value = s
      BY <1>14 DEF Values
    <2>2. p.expiresAt = logins[s].expiresAt /\ p \notin newest \ {entry} /\ p # entry
      <3>1. p.value \in 1..Len(logins) /\ p.expiresAt = logins[p.value].expiresAt
        BY <1>1 DEF Listed, Recorded
      <3>2. p # entry
        BY <1>5, <3>1
      <3> QED
        BY <1>17, <2>1, <3>1, <3>2 DEF Values
    <2>3. CASE p \notin full
      BY <1>8, <2>2, <2>3
    <2>4. CASE p \in full
      <3>1. p \in full \ newest
        BY <2>2, <2>4
      <3>2. Cardinality(newest) = MaxPending /\ \A q \in newest : q.value > p.value
        BY <1>5, <1>9, <3>1, NewestFull
      <3>3. {k \in kept : k > s} = kept
        BY <2>1, <3>2 DEF Values
      <3> QED
        BY <1>13, <3>2, <3>3
    <2> QED
      BY <2>3, <2>4
  <1> DEFINE held == [d \in Browsers |-> Held(d)]
  <1>18. /\ held[b] = Held(b)
         /\ held' = [held EXCEPT ![b] = kept \cup {Len(logins) + 1}]
    BY <1>14, <1>15
  <1>19. Tickets!Issue(b) <=>
           \E fewer \in SUBSET held[b] :
              /\ \A s \in held[b] \ fewer :
                    \/ logins[s].expiresAt <= clock
                    \/ Tickets!Cardinality({k \in fewer : k > s}) = MaxPending - 1
              /\ Tickets!Cardinality(fewer) < MaxPending
              /\ logins' = Append(logins, login)
              /\ held' = [held EXCEPT ![b] = fewer \cup {Len(logins) + 1}]
              /\ UNCHANGED clock
    BY DEF Tickets!Issue, login
  <1>20. \A S : Tickets!Cardinality(S) = Cardinality(S)
    BY DEF Tickets!Cardinality, Cardinality
  <1> HIDE DEF kept, held
  <1> QED
    BY <1>3, <1>16, <1>17, <1>18, <1>19, <1>20

LEMMA ValidAccepts ==
    ASSUME OneTab, SessionInstalled, UsesInv, NEW b \in Browsers, VerifyState(b, TheTab),
           Verdict(Candidates(req[b][TheTab]), req[b][TheTab].state, clock) = "valid"
    PROVE  Tickets!Accept(b)
  <1> DEFINE r     == req[b][TheTab]
             found == r.state # Missing /\ Matches(Candidates(r), r.state)
             valid == Verdict(Candidates(r), r.state, clock) = "valid"
             held  == [d \in Browsers |-> Held(d)]
  <1>1. /\ TypeOK /\ TheTab \in Tabs /\ logins \in Seq(Login) /\ Len(logins) \in Nat
        /\ clock \in Nat
        /\ Serial(clock, session[b], cookie[b], r)
        /\ Unspent(logins, session[b], cookie[b], r)
        /\ Recorded(logins, r.sess.pending) /\ Owned(logins, r.sess.pending, b)
        /\ r.sess.pending \in SUBSET PendingState
    BY TheOnlyTab
    DEF UsesInv, SerialInv, PendingInv, LoginInv, TypeOK, Only, Listed, RequestsFit, Fits,
        Request, Session
  <1>2. PICK next \in Request :
           /\ req' = [req EXCEPT ![b][TheTab] = next]
           /\ next.phase \in {"exchange", "respond"}
           /\ next.phase = "exchange" => r.code # {}
           /\ next.state = r.state /\ next.code = r.code /\ next.link = r.link
           /\ next.sess.exists = r.sess.exists /\ next.sess.tokens = r.sess.tokens
           /\ found => /\ next.sess.pending = Burn(r.sess.pending, r.state)
                       /\ next.jar = {} /\ next.dirty = TRUE
           /\ ~found => /\ next.sess.pending = r.sess.pending
                        /\ next.jar = r.jar /\ next.dirty = r.dirty
    BY <1>1, VerifyStateEffect
  <1>0. valid
    OBVIOUS
  <1>3. /\ UNCHANGED <<clock, session>> /\ r.phase = "callback"
        /\ logins' = [logins EXCEPT ![r.state] = UsedOnceMore(@)]
    BY <1>0 DEF VerifyState
  <1>4. r.sess.exists /\ Candidates(r) = r.sess.pending
    BY <1>1, <1>3 DEF Serial, Attached, Candidates
  <1>5. found /\ \E p \in r.sess.pending : p.value = r.state /\ ~(p.expiresAt <= clock)
    BY <1>0, <1>4 DEF Verdict, Matches
  <1>6. /\ Held(b) = Values(r.sess.pending)
        /\ Held(b)' = Values(Burn(r.sess.pending, r.state))
        /\ \A d \in Browsers \ {b} : Held(d)' = Held(d)
    BY <1>1, <1>2, <1>3, <1>4, <1>5, HeldMoves DEF HeldOf
  <1> HIDE DEF r, found, valid
  <1>7. /\ r.state \in 1..Len(logins) /\ logins[r.state].uses = 0
        /\ logins[r.state].browser = b /\ clock < logins[r.state].expiresAt
    BY <1>1, <1>5 DEF Recorded, Owned, Unspent, Unused, PendingState
  <1>8. logins' = [logins EXCEPT ![r.state].uses = 1]
    <2>1. logins[r.state] \in Login
      BY <1>1, <1>7
    <2>2. UsedOnceMore(logins[r.state]) = [logins[r.state] EXCEPT !.uses = 1]
      BY <1>7, <2>1 DEF UsedOnceMore, Login
    <2> QED
      BY <1>0, <1>3, <2>2
  <1>9. r.state \in Held(b) /\ Held(b)' = Held(b) \ {r.state}
    BY <1>5, <1>6 DEF Values, Burn
  <1>10. held[b] = Held(b) /\ held' = [held EXCEPT ![b] = @ \ {r.state}]
    BY <1>6, <1>9
  <1> QED
    BY <1>3, <1>7, <1>8, <1>9, <1>10 DEF Tickets!Accept

-----------------------------------------------------------------------------
(* The steps that lose tickets or do nothing to them *)

LEMMA ArriveHolds ==
    ASSUME OneTab, UsesInv, NEW b \in Browsers, Arrive(b, TheTab)
    PROVE  [Tickets!Next]_Tickets!vars
  <1> DEFINE r == req[b][TheTab]
  <1>1. /\ TypeOK /\ TheTab \in Tabs /\ Serial(clock, session[b], cookie[b], r)
    BY TheOnlyTab DEF UsesInv, SerialInv, PendingInv, LoginInv, Only
  <1>2. PICK next \in Request :
           req' = [req EXCEPT ![b][TheTab] = next] /\ next.sess = LoadedSession(b)
    BY <1>1, ArriveEffect
  <1>3. UNCHANGED <<clock, logins, session>> /\ r.phase = "idle"
    BY <1>1, ArriveEffect
  <1>4. /\ Held(b) = HeldOf(session[b], r) /\ Held(b)' = HeldOf(session'[b], next)
        /\ \A d \in Browsers \ {b} : Held(d)' = Held(d)
    BY <1>1, <1>2, <1>3, HeldMoves
  <1>5. ~r.sess.exists
    BY <1>1, <1>3 DEF Serial, Attached, Idle, NoSession
  <1>6. next.sess.exists => next.sess.pending \in {session[b].pending, {}}
    BY <1>2 DEF LoadedSession
  <1> HIDE DEF r
  <1>7. Held(b)' \subseteq Held(b)
    BY <1>3, <1>4, <1>5, <1>6 DEF HeldOf, Values
  <1> QED
    BY <1>3, <1>4, <1>7, LosesTickets

LEMMA RefusedHolds ==
    ASSUME OneTab, UsesInv, NEW b \in Browsers, VerifyState(b, TheTab),
           Verdict(Candidates(req[b][TheTab]), req[b][TheTab].state, clock) # "valid"
    PROVE  [Tickets!Next]_Tickets!vars
  <1> DEFINE r     == req[b][TheTab]
             found == r.state # Missing /\ Matches(Candidates(r), r.state)
             valid == Verdict(Candidates(r), r.state, clock) = "valid"
  <1>1. TypeOK /\ TheTab \in Tabs /\ ~valid
    BY TheOnlyTab DEF UsesInv, SerialInv, PendingInv, LoginInv
  <1>2. PICK next \in Request :
           /\ req' = [req EXCEPT ![b][TheTab] = next]
           /\ next.phase \in {"exchange", "respond"}
           /\ next.phase = "exchange" => r.code # {}
           /\ next.state = r.state /\ next.code = r.code /\ next.link = r.link
           /\ next.sess.exists = r.sess.exists /\ next.sess.tokens = r.sess.tokens
           /\ found => /\ next.sess.pending = Burn(r.sess.pending, r.state)
                       /\ next.jar = {} /\ next.dirty = TRUE
           /\ ~found => /\ next.sess.pending = r.sess.pending
                        /\ next.jar = r.jar /\ next.dirty = r.dirty
    BY <1>1, VerifyStateEffect
  <1>3. /\ UNCHANGED <<clock, session>>
        /\ valid => logins' = [logins EXCEPT ![r.state] = UsedOnceMore(@)]
        /\ ~valid => logins' = logins
    BY <1>1, VerifyStateEffect
  <1>4. /\ Held(b) = HeldOf(session[b], r) /\ Held(b)' = HeldOf(session'[b], next)
        /\ \A d \in Browsers \ {b} : Held(d)' = Held(d)
    BY <1>1, <1>2, <1>3, HeldMoves
  <1>5. UNCHANGED <<clock, logins>>
    BY <1>1, <1>3
  <1> HIDE DEF r, found, valid
  <1>6. next.sess.pending \subseteq r.sess.pending
    BY <1>2 DEF Burn
  <1>7. Held(b)' \subseteq Held(b)
    BY <1>2, <1>3, <1>4, <1>6 DEF HeldOf, Values
  <1> QED
    BY <1>4, <1>5, <1>7, LosesTickets

LEMMA OtherHolds ==
    ASSUME OneTab, UsesInv, NEW b \in Browsers,
           \/ RedeemCode(b, TheTab) \/ RefuseCode(b, TheTab)
           \/ RejectGrant(b, TheTab) \/ RevokeSession(b, TheTab)
           \/ PersistGrant(b, TheTab) \/ ClearPending(b, TheTab)
    PROVE  [Tickets!Next]_Tickets!vars
  <1> DEFINE r == req[b][TheTab]
  <1>1. TypeOK /\ TheTab \in Tabs
    BY TheOnlyTab DEF UsesInv, SerialInv, PendingInv, LoginInv
  <1>2. /\ UNCHANGED <<clock, logins, session>>
        /\ \E next \in Request :
             /\ req' = [req EXCEPT ![b][TheTab] = next]
             /\ next.sess.exists = r.sess.exists
             /\ next.sess.pending \in {r.sess.pending, {}}
    <2>1. CASE \/ RedeemCode(b, TheTab) \/ RefuseCode(b, TheTab)
               \/ RejectGrant(b, TheTab) \/ RevokeSession(b, TheTab)
      <3>1. PICK next \in Request :
              req' = [req EXCEPT ![b][TheTab] = next] /\ next.sess = r.sess
        BY <1>1, <2>1, MoveEffect
      <3>2. UNCHANGED <<clock, logins, session>>
        BY <1>1, <2>1, MoveEffect
      <3> QED
        BY <3>1, <3>2
    <2>2. CASE PersistGrant(b, TheTab)
      <3>1. PICK next \in Request :
              /\ req' = [req EXCEPT ![b][TheTab] = next]
              /\ next.sess.exists = r.sess.exists /\ next.sess.pending = r.sess.pending
        BY <1>1, <2>2, PersistGrantEffect
      <3>2. UNCHANGED <<clock, logins, session>>
        BY <1>1, <2>2, PersistGrantEffect
      <3> QED
        BY <3>1, <3>2
    <2>3. CASE ClearPending(b, TheTab)
      <3>1. PICK next \in Request :
              /\ req' = [req EXCEPT ![b][TheTab] = next]
              /\ next.sess.exists = r.sess.exists /\ next.sess.pending = {}
        BY <1>1, <2>3, ClearPendingEffect
      <3>2. UNCHANGED <<clock, logins, session>>
        BY <1>1, <2>3, ClearPendingEffect
      <3> QED
        BY <3>1, <3>2
    <2> QED
      BY <2>1, <2>2, <2>3
  <1>3. PICK next \in Request :
          /\ req' = [req EXCEPT ![b][TheTab] = next]
          /\ next.sess.exists = r.sess.exists
          /\ next.sess.pending \in {r.sess.pending, {}}
    BY <1>2
  <1>4. /\ Held(b) = HeldOf(session[b], r) /\ Held(b)' = HeldOf(session'[b], next)
        /\ \A d \in Browsers \ {b} : Held(d)' = Held(d)
    BY <1>1, <1>2, <1>3, HeldMoves
  <1> HIDE DEF r
  <1>5. Held(b)' \subseteq Held(b)
    BY <1>2, <1>3, <1>4 DEF HeldOf, Values
  <1> QED
    BY <1>2, <1>4, <1>5, LosesTickets

LEMMA ClearSessionHolds ==
    ASSUME OneTab, SessionInstalled, UsesInv, NEW b \in Browsers,
           ClearSession(b, TheTab) \/ FailToClearSession(b, TheTab)
    PROVE  [Tickets!Next]_Tickets!vars
  <1> DEFINE stored == session[b]
             r      == req[b][TheTab]
  <1>1. TypeOK /\ TheTab \in Tabs /\ Serial(clock, stored, cookie[b], r)
    BY TheOnlyTab DEF UsesInv, SerialInv, PendingInv, LoginInv, Only
  <1>2. PICK next \in Request :
           req' = [req EXCEPT ![b][TheTab] = next] /\ next.sess = NoSession
    BY <1>1, ClearSessionEffect
  <1>3. /\ UNCHANGED <<clock, logins>> /\ r.phase = "revoked"
        /\ session' \in {session, [session EXCEPT ![b] = NoSession]}
    BY <1>1, ClearSessionEffect
  <1>4. /\ \A d \in Browsers \ {b} : session'[d] = session[d]
        /\ session'[b] \in {stored, NoSession}
    BY <1>1, <1>3 DEF TypeOK
  <1>5. /\ Held(b) = HeldOf(stored, r) /\ Held(b)' = HeldOf(session'[b], next)
        /\ \A d \in Browsers \ {b} : Held(d)' = Held(d)
    BY <1>1, <1>2, <1>4, HeldMoves
  <1> HIDE DEF stored, r
  <1>6. r.sess.exists /\ r.sess.pending = stored.pending
    BY <1>1, <1>3 DEF Serial, Attached, Arrived
  <1>7. ~NoSession.exists /\ NoSession.pending = {}
    BY DEF NoSession
  <1>8. Held(b)' \subseteq Held(b)
    BY <1>2, <1>4, <1>5, <1>6, <1>7 DEF HeldOf, Values
  <1> QED
    BY <1>3, <1>5, <1>8, LosesTickets

LEMMA RespondHolds ==
    ASSUME OneTab, SessionInstalled, UsesInv, NEW b \in Browsers, Respond(b, TheTab)
    PROVE  [Tickets!Next]_Tickets!vars
  <1> DEFINE stored == session[b]
             r      == req[b][TheTab]
  <1>1. /\ TypeOK /\ TheTab \in Tabs /\ r \in Request /\ Idle \in Request
        /\ Serial(clock, stored, cookie[b], r)
    BY TheOnlyTab, IdleType DEF UsesInv, SerialInv, PendingInv, LoginInv, TypeOK, Only
  <1>2. /\ UNCHANGED <<clock, logins>> /\ req' = [req EXCEPT ![b][TheTab] = Idle]
        /\ r.phase \in {"redirect", "respond"}
    BY <1>1, RespondEffect
  <1>3. PICK arrives \in {TRUE, ~LossyReplies} :
          /\ Saves(r, arrives) => session' = [session EXCEPT ![b] = r.sess]
          /\ ~Saves(r, arrives) => session' = session
          /\ arrives /\ r.dirty /\ ~r.sess.exists => cookie' = [cookie EXCEPT ![b] = r.jar]
          /\ ~(arrives /\ r.dirty /\ ~r.sess.exists) => cookie' = cookie
    BY <1>1, RespondEffect
  <1>4. /\ Saves(r, arrives) => session'[b] = r.sess
        /\ ~Saves(r, arrives) => session'[b] = stored
        /\ \A d \in Browsers \ {b} : session'[d] = session[d]
    BY <1>1, <1>3 DEF TypeOK
  <1>5. /\ Held(b) = HeldOf(stored, r) /\ Held(b)' = HeldOf(session'[b], Idle)
        /\ \A d \in Browsers \ {b} : Held(d)' = Held(d)
    BY <1>1, <1>2, <1>4, HeldMoves
  <1>6. ~Idle.sess.exists /\ NoSession.pending = {}
    BY DEF Idle, NoSession
  <1> HIDE DEF stored, r
  <1>7. Held(b)' \subseteq Held(b)
    <2>1. CASE Saves(r, arrives)
      BY <1>4, <1>5, <1>6, <2>1 DEF Saves, HeldOf
    <2>2. CASE ~Saves(r, arrives) /\ ~r.sess.exists
      BY <1>4, <1>5, <1>6, <2>2 DEF HeldOf
    <2>3. CASE ~Saves(r, arrives) /\ r.sess.exists
      <3>1. r.link \in {"current", "fresh"}
        BY <1>1, <1>2 DEF Serial, Attached, Request
      <3>2. stored.pending \subseteq r.sess.pending
        BY <1>1, <1>2, <1>6, <2>3, <3>1 DEF Serial, Attached, Saves
      <3> QED
        BY <1>4, <1>5, <1>6, <2>3, <3>2 DEF HeldOf, Values
    <2> QED
      BY <2>1, <2>2, <2>3
  <1> QED
    BY <1>2, <1>5, <1>7, LosesTickets

-----------------------------------------------------------------------------
(* The refinement *)

LEMMA TicketsStep ==
    ASSUME OneTab, SessionInstalled
    PROVE  UsesInv /\ [Next]_vars => [Tickets!Next]_Tickets!vars
  <1> SUFFICES ASSUME UsesInv, [Next]_vars
               PROVE  [Tickets!Next]_Tickets!vars
    OBVIOUS
  <1>1. TheTab \in Tabs /\ Tabs = {TheTab}
    BY TheOnlyTab
  <1>2. ASSUME NEW b \in Browsers, StartLogin(b, TheTab)
        PROVE  [Tickets!Next]_Tickets!vars
    BY <1>2, StartLoginIssues DEF Tickets!Next
  <1>3. ASSUME NEW b \in Browsers, VerifyState(b, TheTab)
        PROVE  [Tickets!Next]_Tickets!vars
    BY <1>3, ValidAccepts, RefusedHolds DEF Tickets!Next
  <1>4. ASSUME NEW b \in Browsers, Arrive(b, TheTab) \/ Handle(b, TheTab)
        PROVE  [Tickets!Next]_Tickets!vars
    <2>1. CASE Arrive(b, TheTab)
      BY <2>1, ArriveHolds
    <2>2. CASE StartLogin(b, TheTab) \/ VerifyState(b, TheTab)
      BY <1>2, <1>3, <2>2
    <2>3. CASE \/ RedeemCode(b, TheTab) \/ RefuseCode(b, TheTab)
               \/ RejectGrant(b, TheTab) \/ RevokeSession(b, TheTab)
               \/ PersistGrant(b, TheTab) \/ ClearPending(b, TheTab)
      BY <2>3, OtherHolds
    <2>4. CASE ClearSession(b, TheTab) \/ FailToClearSession(b, TheTab)
      BY <2>4, ClearSessionHolds
    <2>5. CASE Respond(b, TheTab)
      BY <2>5, RespondHolds
    <2> QED
      BY <1>4, <2>1, <2>2, <2>3, <2>4, <2>5 DEF Handle
  <1>5. ASSUME UNCHANGED <<session, req>>
        PROVE  \A d \in Browsers : Held(d)' = Held(d)
    BY <1>5 DEF Held
  <1>6. CASE \E b \in Browsers, t \in Tabs : Arrive(b, t) \/ Handle(b, t)
    BY <1>1, <1>4, <1>6
  <1>7. CASE Tick
    <2>1. clock' = clock + 1 /\ UNCHANGED logins /\ \A d \in Browsers : Held(d)' = Held(d)
      BY <1>5, <1>7 DEF Tick, historyVars
    <2> QED
      BY <2>1 DEF Tickets!Next, Tickets!Tick
  <1>8. CASE (\E c \in Codes : Authenticate(c)) \/ UNCHANGED vars
    <2>1. UNCHANGED <<clock, logins>> /\ \A d \in Browsers : Held(d)' = Held(d)
      BY <1>5, <1>8 DEF Authenticate, vars, historyVars
    <2> QED
      BY <2>1 DEF Tickets!vars
  <1> QED
    BY <1>6, <1>7, <1>8 DEF Next

LEMMA TicketsInit ==
    ASSUME OneTab
    PROVE  Init => Tickets!Init
  <1> SUFFICES ASSUME Init
               PROVE  Tickets!Init
    OBVIOUS
  <1>1. ASSUME NEW b \in Browsers
        PROVE  Held(b) = {}
    <2>1. session[b] = NoSession /\ Only(b) = Idle
      BY TheOnlyTab DEF Init, Only
    <2> QED
      BY <2>1, HeldIs DEF HeldOf, Values, Idle, NoSession
  <1> QED
    BY <1>1 DEF Init, Tickets!Init

\* With express-session and one request of a browser at a time, the flow
\* implements the tickets: a state is accepted at most once, from the browser
\* it was issued to, before it expires, and one that left its hands never
\* returns.
THEOREM FlowImplementsTickets ==
    ASSUME OneTab, SessionInstalled
    PROVE  Spec => ImplementsTickets
  <1>1. BurnsArrive
    BY DEF BurnsArrive
  <1>2. UsesInv /\ [Next]_vars => UsesInv'
    BY <1>1, UsesInvStep
  <1> QED
    BY <1>2, UsesInvInit, TicketsInit, TicketsStep, PTL DEF Spec, ImplementsTickets, Tickets!Spec

=============================================================================
