---------------------------- MODULE GrantServiceProofs ----------------------------
(***************************************************************************)
(* Proofs about GrantService, for every set of services and calls, every   *)
(* set of methods and any number of tokens.                                *)
(*                                                                         *)
(* A call keeps a token or a grant across its awaits while other calls     *)
(* clear, renew and replace what the request shares, so what a step may    *)
(* rely on is what no other call can take away.  BaseInv says what that    *)
(* is: no reference dangles, and the phase a call waits in tells what it   *)
(* has at hand.                                                            *)
(***************************************************************************)
EXTENDS GrantService, FiniteSetTheorems, SequenceTheorems, TLAPS

-----------------------------------------------------------------------------
(* The invariant *)

\* No token, or one that was issued
Known == 0..Len(tokens)

KnownSession == {record \in Session : record.access \in Known /\ record.refresh \in Known}
KnownService == {fields \in Service : fields.access \in Known /\ fields.refresh \in Known}
KnownGrant == {grant \in Grant : grant.access \in Known /\ grant.refresh \in Known}
KnownCall == {r \in Call : r.token \in Known}

Typed ==
    /\ given \in Conditions
    /\ tokens \in Seq(Issued) /\ Len(tokens) \in 1..MaxTokens
    /\ Bearers => Len(tokens) >= 2
    /\ alive \subseteq Tokens /\ verified \subseteq Tokens /\ ended \subseteq Tokens
    /\ stored \in KnownSession /\ session \in KnownSession
    /\ header \in Known /\ roles \in Known
    /\ kauth \in Grants \cup {None}
    /\ service \in [Services -> KnownService]
    /\ heap \in [Grants -> KnownGrant]
    /\ call \in [Calls -> KnownCall]

\* Every grant that somebody holds was made from an access token.
Filled == \A g \in Referenced \ {None} : heap[g].access # None

GettingOps == {"getGrant", "forceGrant"}
GettingPhases == {"resolve", "refresh", "validate", "verify", "roles", "finish"}

\* Where a call of each method may be waiting
Staged(r) ==
    /\ r.op = "none" <=> r.phase \in {"settled", "failed"}
    /\ r.op \in GettingOps => r.phase \in GettingPhases
    /\ r.op \in InfoOps => r.phase \in GettingPhases \cup {"fetch"}
    /\ r.op \in LoginOps \cup {"refreshTokenGrant"} => r.phase \in {"exchange", "build", "roles"}
    /\ r.op = "logout" => r.phase \in {"revoke", "clear", "destroy"}

\* What a call has at hand where it waits
Equipped(r, issued) ==
    /\ r.phase \in {"refresh", "fetch", "build", "revoke"} => r.token # None
    /\ r.phase \in {"refresh", "validate", "verify", "roles"} => r.grant # None
    /\ r.phase \in {"resolve", "exchange", "build"} => r.grant = None
    /\ r.op = "refreshTokenGrant" /\ r.phase = "exchange" => r.token # None
    /\ r.phase = "revoke" /\ r.token # None => r.logins = {issued[r.token].login}

CallFits(r, issued) == Staged(r) /\ Equipped(r, issued)

BaseInv == Typed /\ Filled /\ \A c \in Calls : CallFits(call[c], tokens)

\* What a single service has cached is what the request shares.  Its access
\* token is the one of the grant, unless the grant has been renewed in place:
\* then the call that renewed it is still to validate it, and to adopt or to
\* clear it.
CacheInv ==
    \A s \in Services :
        /\ service[s].grant = kauth
        /\ kauth # None /\ service[s].access # heap[kauth].access =>
             \E c \in Calls : call[c].phase \in {"validate", "verify"} /\ call[c].grant = kauth

\* What is cached about the user is about the user of the token handlers get.
Agrees(s) == service[s].userInfo \subseteq InjectUserId /\ roles = InjectAccessToken

\* With one call at a time this holds but from a renewal to its last step.
IdentityInv ==
    \A c \in Calls, s \in Services :
        /\ call[c].phase \notin {"validate", "verify", "roles"} => Agrees(s)
        /\ call[c].phase = "roles" => service[s].userInfo = {} /\ kauth = call[c].grant
        /\ call[c].phase = "fetch" => kauth # None /\ call[c].token = heap[kauth].access

\* Grants that are held, and calls that wait to adopt one or to set its roles,
\* have access tokens that were found valid in this request.
Verified(g) == g # None => heap[g].access \in verified

VerifiedInv ==
    /\ Verified(kauth) /\ \A s \in Services : Verified(service[s].grant)
    /\ \A c \in Calls : call[c].phase \in {"verify", "roles"} => Verified(call[c].grant)
    /\ roles # None => roles \in verified

\* A token of this Keycloak session, if there is one, is of none that a logout
\* has ended.
NotEnded(t) == t # None => tokens[t].login \notin ended

\* A logout that Keycloak has answered leaves its session dead, one that waits
\* for the store has detached the session of the request, and a login writes no
\* token of an ended session to a session that is there.
Ending(c) ==
    /\ call[c].phase \in {"clear", "destroy"} => call[c].logins \subseteq DOMAIN tokens \ alive
    /\ call[c].phase = "destroy" => session = NoSession
    /\ call[c].phase = "build" /\ session.exists => NotEnded(call[c].token)

\* Keycloak names its sessions by tokens that were issued: a new one has ended
\* at no logout.
LogoutInv ==
    /\ ended \cap alive = {} /\ ended \cup alive \subseteq DOMAIN tokens
    /\ \A t \in DOMAIN tokens : tokens[t].login \in DOMAIN tokens
    /\ NotEnded(stored.access) /\ NotEnded(stored.refresh)
    /\ NotEnded(session.access) /\ NotEnded(session.refresh)
    /\ \A c \in Calls : Ending(c)

\* Without rotation no refresh token is ever spent, and without faults a grant
\* that can be renewed is fresh when its validation is due.
Unspent == \A t \in DOMAIN tokens : ~tokens[t].spent
Renewed(c) ==
    call[c].phase = "validate" =>
        heap[call[c].grant].refresh = None \/ Fresh(heap[call[c].grant].access)
RenewedInv ==
    /\ ~rotation => Unspent
    /\ ~faults => \A c \in Calls : Renewed(c)

-----------------------------------------------------------------------------
(* A step of one call *)

\* Tokens stay those of the user and the Keycloak session they were issued for.
OwnersKept ==
    \A t \in DOMAIN tokens : tokens'[t].user = tokens[t].user /\ tokens'[t].login = tokens[t].login

\* Issuing tokens extends what is known, and changes no token's owner.
LEMMA KnownGrows ==
    ASSUME tokens' \in Seq(Issued), Len(tokens) \in Nat, Len(tokens') >= Len(tokens)
    PROVE  /\ Known \subseteq Known'
           /\ KnownSession \subseteq KnownSession' /\ KnownService \subseteq KnownService'
           /\ KnownGrant \subseteq KnownGrant' /\ KnownCall \subseteq KnownCall'
  <1>1. Known \subseteq Known'
    BY DEF Known
  <1> QED
    BY <1>1 DEF KnownSession, KnownService, KnownGrant, KnownCall

LEMMA TokensKnown ==
    ASSUME Typed
    PROVE  /\ DOMAIN tokens = 1..Len(tokens) /\ Known = DOMAIN tokens \cup {None}
           /\ None \notin DOMAIN tokens
           /\ \A t \in DOMAIN tokens : /\ tokens[t] \in Issued /\ tokens[t].user \in Users
                                       /\ tokens[t].login \in Tokens
                                       /\ tokens[t].fresh \in BOOLEAN
                                       /\ tokens[t].renewable \in BOOLEAN
                                       /\ tokens[t].spent \in BOOLEAN
  <1>1. Len(tokens) \in Nat /\ DOMAIN tokens = 1..Len(tokens)
    BY GrantServiceAssumption DEF Typed
  <1>2. Known = DOMAIN tokens \cup {None} /\ None \notin DOMAIN tokens
    BY <1>1 DEF Known, None
  <1>3. \A t \in DOMAIN tokens : tokens[t] \in Issued
    BY <1>1 DEF Typed
  <1> QED
    BY <1>1, <1>2, <1>3 DEF Issued

LEMMA CallType ==
    ASSUME Typed, NEW c \in Calls
    PROVE  /\ call[c] \in KnownCall /\ call[c].service \in Services /\ call[c].op \in Ops \cup {"none"}
           /\ call[c].grant \in Grants \cup {None} /\ call[c].token \in Known
           /\ call[c].logins \subseteq Tokens
  BY DEF Typed, KnownCall, Call

\* Two ways to end a call
LEMMA EndedCall ==
    ASSUME NEW s \in Services, NEW t \in Known, Typed
    PROVE  /\ Settled(s, t) \in KnownCall /\ CallFits(Settled(s, t), tokens)
           /\ Settled(s, t).grant = None /\ Settled(s, t).op = "none"
           /\ Settled(s, t).phase = "settled" /\ Settled(s, t).token = t
           /\ Settled(s, t).service = s /\ Settled(s, t).logins = {}
           /\ Failed(s) \in KnownCall /\ CallFits(Failed(s), tokens)
           /\ Failed(s).grant = None /\ Failed(s).op = "none"
           /\ Failed(s).phase = "failed"
  <1>1. t \in Tokens \cup {None} /\ None \in Known /\ None \in Tokens \cup {None}
    BY GrantServiceAssumption DEF Typed, Known, Tokens, None
  <1>2. Settled(s, t) \in Call /\ Failed(s) \in Call /\ Failed(s).token = None
    BY <1>1 DEF Settled, Failed, Call
  <1> QED
    BY <1>1, <1>2 DEF Settled, Failed, KnownCall, CallFits, Staged, Equipped, GettingOps, InfoOps,
       LoginOps, GettingPhases

\* Nobody gets hold of a grant that nobody held.
LEMMA CallStep ==
    ASSUME BaseInv, NEW c \in Calls, NEW r \in KnownCall, Goes(c, r),
           CallFits(r, tokens), r.grant \in Referenced \cup {None},
           UNCHANGED <<given, tokens, heap>>,
           alive' \subseteq Tokens, verified' \subseteq Tokens, ended' \subseteq Tokens,
           stored' \in KnownSession, session' \in KnownSession,
           header' \in Known, roles' \in Known,
           kauth' \in Referenced \cup {None},
           service' \in [Services -> KnownService],
           \A s \in Services : service'[s].grant \in Referenced \cup {None}
    PROVE  BaseInv'
  <1>1. /\ call \in [Calls -> KnownCall] /\ call' = [call EXCEPT ![c] = r]
        /\ service \in [Services -> KnownService]
    BY DEF BaseInv, Typed, Goes
  <1>2. /\ KnownSession' = KnownSession /\ KnownService' = KnownService
        /\ KnownGrant' = KnownGrant /\ KnownCall' = KnownCall /\ Known' = Known
    BY DEF KnownSession, KnownService, KnownGrant, KnownCall, Known
  <1>3. Referenced \subseteq Grants \cup {None}
    BY <1>1 DEF Referenced, BaseInv, Typed, KnownService, KnownCall, Service, Call
  <1>4. Typed'
    BY <1>1, <1>2, <1>3 DEF BaseInv, Typed, given
  <1>5. Referenced' \subseteq Referenced \cup {None}
    BY <1>1 DEF Referenced
  <1>6. Filled'
    BY <1>5 DEF Filled, BaseInv
  <1>7. \A d \in Calls : CallFits(call'[d], tokens')
    BY <1>1 DEF BaseInv
  <1> QED
    BY <1>4, <1>6, <1>7 DEF BaseInv

\* Whoever makes a grant finds one that nobody holds, as long as the request or
\* some call has none.
LEMMA NewGrantIsNew ==
    ASSUME Typed, None \in {kauth} \cup {call[c].grant : c \in Calls}
    PROVE  NewGrant \in Grants /\ NewGrant \notin Referenced
  <1> DEFINE held == {service[s].grant : s \in Services}
             waiting == {call[c].grant : c \in Calls}
             cached == [s \in Services |-> service[s].grant]
             kept == [c \in Calls |-> call[c].grant]
             others == Referenced \ {None}
  <1>1. IsFiniteSet(held) /\ Cardinality(held) <= Cardinality(Services)
    <2>1. cached \in Surjection(Services, held)
      BY DEF Surjection
    <2> QED
      BY <2>1, FS_Surjection, GrantServiceAssumption
  <1>2. IsFiniteSet(waiting) /\ Cardinality(waiting) <= Cardinality(Calls)
    <2>1. kept \in Surjection(Calls, waiting)
      BY DEF Surjection
    <2> QED
      BY <2>1, FS_Surjection, GrantServiceAssumption
  <1>3. Referenced = (held \cup waiting) \cup {kauth} /\ None \in Referenced
    BY DEF Referenced
  <1> HIDE DEF held, waiting
  <1>4. /\ Cardinality(Services) \in Nat /\ Cardinality(Calls) \in Nat
        /\ Cardinality(held) \in Nat /\ Cardinality(waiting) \in Nat
    BY <1>1, <1>2, FS_CardinalityType, GrantServiceAssumption
  <1>5. /\ IsFiniteSet(held \cup waiting)
        /\ Cardinality(held \cup waiting) <= Cardinality(Services) + Cardinality(Calls)
        /\ Cardinality(held \cup waiting) \in Nat
    <2>1. /\ IsFiniteSet(held \cup waiting)
          /\ Cardinality(held \cup waiting)
               = Cardinality(held) + Cardinality(waiting) - Cardinality(held \cap waiting)
      BY <1>1, <1>2, FS_Union
    <2>2. IsFiniteSet(held \cap waiting)
      BY <1>1, FS_Intersection
    <2>3. Cardinality(held \cup waiting) \in Nat /\ Cardinality(held \cap waiting) \in Nat
      BY <2>1, <2>2, FS_CardinalityType
    <2> QED
      BY <1>1, <1>2, <1>4, <2>1, <2>3
  <1>6. /\ IsFiniteSet(Referenced)
        /\ Cardinality(Referenced) <= Cardinality(Services) + Cardinality(Calls) + 1
        /\ Cardinality(Referenced) \in Nat
    <2>1. /\ IsFiniteSet(Referenced)
          /\ Cardinality(Referenced) = IF kauth \in held \cup waiting
                                       THEN Cardinality(held \cup waiting)
                                       ELSE Cardinality(held \cup waiting) + 1
      BY <1>3, <1>5, FS_AddElement
    <2> QED
      BY <1>4, <1>5, <2>1
  <1>7. /\ IsFiniteSet(others)
        /\ Cardinality(others) <= Cardinality(Services) + Cardinality(Calls)
    <2>1. IsFiniteSet(others) /\ Cardinality(others) = Cardinality(Referenced) - 1
      BY <1>3, <1>6, FS_RemoveElement
    <2> QED
      BY <1>4, <1>6, <2>1
  <1>8. /\ IsFiniteSet(Grants)
        /\ Cardinality(Grants) = Cardinality(Services) + Cardinality(Calls) + 1
    <2> DEFINE n == Cardinality(Services) + Cardinality(Calls) + 1
    <2>1. n \in Int /\ 1 \in Int /\ n >= 1 /\ n - 1 + 1 = n
      BY <1>4
    <2>2. Grants = 1..n
      BY DEF Grants
    <2> HIDE DEF n
    <2>3. IsFiniteSet(1..n) /\ Cardinality(1..n) = IF 1 > n THEN 0 ELSE n - 1 + 1
      BY <2>1, FS_Interval
    <2>4. IsFiniteSet(1..n) /\ Cardinality(1..n) = n
      BY <2>1, <2>3
    <2> QED
      BY <2>2, <2>4 DEF n
  <1>9. ~(Grants \subseteq others)
    <2>1. SUFFICES ASSUME Grants \subseteq others
                   PROVE  FALSE
      OBVIOUS
    <2>2. Cardinality(Grants) <= Cardinality(others) /\ Cardinality(others) \in Nat
      BY <1>7, <2>1, FS_Subset, FS_CardinalityType
    <2> QED
      BY <1>4, <1>7, <1>8, <2>2
  <1>10. \E g \in Grants : g \notin Referenced
    BY <1>4, <1>9 DEF Grants, None
  <1> QED
    BY <1>10 DEF NewGrant

\* What a step leaves alone stays as CallStep asks for it.
LEMMA SameRequest ==
    ASSUME BaseInv
    PROVE  /\ alive \subseteq Tokens /\ verified \subseteq Tokens /\ ended \subseteq Tokens
           /\ stored \in KnownSession /\ session \in KnownSession
           /\ header \in Known /\ roles \in Known /\ None \in Known
           /\ kauth \in Referenced \cup {None}
           /\ service \in [Services -> KnownService]
           /\ \A s \in Services : service[s].grant \in Referenced \cup {None}
  <1>1. None \in Known
    BY GrantServiceAssumption DEF BaseInv, Typed, Known, None
  <1> QED
    BY <1>1 DEF BaseInv, Typed, Referenced

\* A step that changes nothing but the call
LEMMA OwnStep ==
    ASSUME BaseInv, NEW c \in Calls, NEW r \in KnownCall, Goes(c, r),
           CallFits(r, tokens), r.grant \in Referenced \cup {None},
           UNCHANGED <<given, tokens, alive, stored, requestVars, histories>>
    PROVE  BaseInv'
  <1>1. /\ UNCHANGED <<given, tokens, heap>>
        /\ alive' = alive /\ verified' = verified /\ ended' = ended /\ stored' = stored /\ session' = session
        /\ header' = header /\ roles' = roles /\ kauth' = kauth /\ service' = service
    BY DEF requestVars, histories
  <1> QED
    BY <1>1, CallStep, SameRequest

-----------------------------------------------------------------------------
(* The actions of one call *)

LEMMA StartGrantStep ==
    ASSUME BaseInv, NEW c \in Calls, NEW s \in Services, NEW op \in GettingOps \cup InfoOps,
           NEW looked \in BOOLEAN, op \in Ops, StartGrant(c, s, op, looked),
           UNCHANGED <<given, tokens, alive, stored, requestVars, histories>>
    PROVE  BaseInv'
  <1> DEFINE cached == service[s].grant # None /\ op # "forceGrant"
             begun == [Settled(s, None) EXCEPT !.op = op, !.looked = looked]
             r == [begun EXCEPT !.phase = IF cached THEN "finish" ELSE "resolve"]
  <1>1. /\ Settled(s, None) \in Call /\ Settled(s, None).grant = None
        /\ Settled(s, None).token = None /\ None \in Known
    BY SameRequest, EndedCall DEF BaseInv, KnownCall
  <1>2. Goes(c, r)
    BY DEF StartGrant
  <1>3. /\ r \in Call /\ r.phase = (IF cached THEN "finish" ELSE "resolve") /\ r.op = op
        /\ r.grant = None /\ r.token = None
    BY <1>1 DEF Call
  <1> HIDE DEF r
  <1>4. r \in KnownCall
    BY <1>1, <1>3 DEF KnownCall
  <1>5. CallFits(r, tokens)
    BY <1>3 DEF CallFits, Staged, Equipped, GettingOps, InfoOps, LoginOps, GettingPhases
  <1> QED
    BY <1>2, <1>3, <1>4, <1>5, OwnStep

LEMMA CallGetGrantStep ==
    ASSUME BaseInv, NEW c \in Calls, NEW s \in Services, CallGetGrant(c, s)
    PROVE  BaseInv'
  <1>1. PICK op \in Ops \cap {"getGrant", "forceGrant", "getUserInfo", "forceUserInfo"} :
          StartGrant(c, s, op, FALSE)
    BY DEF CallGetGrant
  <1>2. op \in GettingOps \cup InfoOps /\ op \in Ops /\ FALSE \in BOOLEAN
    BY DEF GettingOps, InfoOps
  <1> QED
    BY <1>1, <1>2, StartGrantStep DEF CallGetGrant

LEMMA CallLoginStep ==
    ASSUME BaseInv, NEW c \in Calls, NEW s \in Services, CallLogin(c, s)
    PROVE  BaseInv'
  <1>1. PICK op \in Ops \cap LoginOps :
          Goes(c, [Settled(s, None) EXCEPT !.op = op, !.phase = "exchange"])
    BY DEF CallLogin
  <1> DEFINE r == [Settled(s, None) EXCEPT !.op = op, !.phase = "exchange"]
  <1>2. /\ Settled(s, None) \in Call /\ Settled(s, None).grant = None
        /\ Settled(s, None).token = None /\ None \in Known
    BY SameRequest, EndedCall DEF BaseInv, KnownCall
  <1>3. /\ r \in Call /\ r.phase = "exchange" /\ r.op = op
        /\ r.grant = None /\ r.token = None
    BY <1>2 DEF Call
  <1>4. Goes(c, r)
    BY <1>1
  <1> HIDE DEF r
  <1>5. r \in KnownCall
    BY <1>2, <1>3 DEF KnownCall
  <1>6. CallFits(r, tokens)
    BY <1>3 DEF CallFits, Staged, Equipped, GettingOps, InfoOps, LoginOps, GettingPhases
  <1> QED
    BY <1>3, <1>4, <1>5, <1>6, OwnStep DEF CallLogin

\* The refresh tokens that a login or a logout takes are known.
LEMMA RefreshTokenKnown ==
    ASSUME BaseInv, NEW s \in Services
    PROVE  RefreshToken(s) \in Known
  BY DEF BaseInv, Typed, RefreshToken, KnownService, KnownSession

LEMMA CallRefreshTokenGrantStep ==
    ASSUME BaseInv, NEW c \in Calls, NEW s \in Services, CallRefreshTokenGrant(c, s)
    PROVE  BaseInv'
  <1> DEFINE token == RefreshToken(s)
             r == [Settled(s, None) EXCEPT !.op = "refreshTokenGrant", !.phase = "exchange",
                     !.token = token]
  <1>1. /\ Goes(c, r) /\ token # None /\ "refreshTokenGrant" \in Ops
        /\ UNCHANGED <<given, tokens, alive, stored, requestVars, histories>>
    BY DEF CallRefreshTokenGrant
  <1>2. /\ Settled(s, None) \in Call /\ Settled(s, None).grant = None
        /\ Settled(s, None).token = None /\ None \in Known
    BY SameRequest, EndedCall DEF BaseInv, KnownCall
  <1>3. token \in Known
    BY RefreshTokenKnown
  <1>4. token \in Tokens
    BY <1>1, <1>3, GrantServiceAssumption DEF BaseInv, Typed, Known, Tokens, None
  <1> HIDE DEF token
  <1>5. /\ r \in Call /\ r.phase = "exchange" /\ r.op = "refreshTokenGrant"
        /\ r.grant = None /\ r.token = token
    BY <1>1, <1>2, <1>4 DEF Call
  <1> HIDE DEF r
  <1>6. r \in KnownCall
    BY <1>3, <1>5 DEF KnownCall
  <1>7. CallFits(r, tokens)
    BY <1>1, <1>5 DEF CallFits, Staged, Equipped, GettingOps, InfoOps, LoginOps, GettingPhases
  <1> QED
    BY <1>1, <1>5, <1>6, <1>7, OwnStep

\* A logout takes a token that was issued, or none, and knows its session.
LEMMA LogoutTokenKnown ==
    ASSUME BaseInv, NEW s \in Services
    PROVE  /\ LogoutToken(s) \in Known
           /\ LogoutToken(s) # None => LoggedOut(s) = {tokens[LogoutToken(s)].login}
           /\ LogoutToken(s) = None => LoggedOut(s) = {}
           /\ LoggedOut(s) \subseteq Tokens
  <1>1. /\ session.refresh \in Known /\ None \in Known
        /\ service[s].grant \in Grants \cup {None}
        /\ service[s].grant # None => heap[service[s].grant].refresh \in Known
    BY SameRequest DEF BaseInv, Typed, KnownService, Service, KnownSession, KnownGrant
  <1>2. LogoutToken(s) \in Known
    BY <1>1 DEF LogoutToken
  <1>3. LoggedOut(s) = {tokens[t].login : t \in {LogoutToken(s)} \ {None}}
    <2>1. CASE session.refresh # None
      BY <2>1 DEF LogoutToken, LoggedOut
    <2>2. CASE session.refresh = None /\ service[s].grant # None
      BY <2>2 DEF LogoutToken, LoggedOut
    <2>3. CASE session.refresh = None /\ service[s].grant = None
      BY <2>3 DEF LogoutToken, LoggedOut
    <2> QED
      BY <2>1, <2>2, <2>3
  <1>4. LogoutToken(s) # None => tokens[LogoutToken(s)].login \in Tokens
    BY <1>2, TokensKnown DEF BaseInv
  <1> QED
    BY <1>2, <1>3, <1>4

LEMMA CallLogoutStep ==
    ASSUME BaseInv, NEW c \in Calls, NEW s \in Services, CallLogout(c, s)
    PROVE  BaseInv'
  <1> DEFINE token == LogoutToken(s)
             logins == LoggedOut(s)
             phase == IF token # None THEN "revoke" ELSE "clear"
             r == [Settled(s, None) EXCEPT !.op = "logout", !.logins = logins,
                     !.token = token, !.phase = phase]
  <1>1. /\ Goes(c, r) /\ "logout" \in Ops
        /\ UNCHANGED <<given, tokens, alive, stored, requestVars, histories>>
    BY DEF CallLogout
  <1>2. /\ Settled(s, None) \in Call /\ Settled(s, None).grant = None
        /\ Settled(s, None).token = None /\ None \in Known
    BY SameRequest, EndedCall DEF BaseInv, KnownCall
  <1>3. /\ token \in Known /\ token \in Tokens \cup {None} /\ logins \in SUBSET Tokens
        /\ phase = IF token # None THEN "revoke" ELSE "clear"
        /\ token # None => logins = {tokens[token].login}
    BY LogoutTokenKnown, GrantServiceAssumption DEF BaseInv, Typed, Known, Tokens, None
  <1> HIDE DEF token, logins, phase
  <1>4. /\ r \in Call /\ r.phase = phase /\ r.op = "logout"
        /\ r.grant = None /\ r.token = token /\ r.logins = logins
    BY <1>1, <1>2, <1>3 DEF Call
  <1> HIDE DEF r
  <1>5. r \in KnownCall
    BY <1>3, <1>4 DEF KnownCall
  <1>6. CallFits(r, tokens)
    BY <1>3, <1>4 DEF CallFits, Staged, Equipped, GettingOps, InfoOps, LoginOps, GettingPhases
  <1> QED
    BY <1>1, <1>4, <1>5, <1>6, OwnStep

LEMMA ResolveSharedStep ==
    ASSUME BaseInv, NEW c \in Calls, ResolveShared(c)
    PROVE  BaseInv'
  <1> DEFINE phase == RenewalDue(heap[kauth])
             token == heap[kauth].refresh
             r == [call[c] EXCEPT !.phase = phase, !.grant = kauth, !.token = token]
  <1>1. /\ Goes(c, r) /\ call[c].phase = "resolve" /\ kauth # None
        /\ UNCHANGED <<given, tokens, alive, stored, requestVars, histories>>
    BY DEF ResolveShared
  <1>2. /\ call[c] \in Call /\ CallFits(call[c], tokens) /\ kauth \in Grants
        /\ token \in Known /\ token \in Tokens \cup {None} /\ kauth \in Referenced
    BY <1>1, SameRequest, CallType
       DEF BaseInv, Typed, KnownCall, KnownGrant, Grant, Referenced
  <1>3. phase \in {"refresh", "validate"} /\ (phase = "refresh" => token # None)
    BY DEF RenewalDue
  <1> HIDE DEF phase, token
  <1>4. /\ r \in Call /\ r.phase = phase /\ r.op = call[c].op
        /\ r.grant = kauth /\ r.token = token
    BY <1>1, <1>2, <1>3 DEF Call
  <1> HIDE DEF r
  <1>5. r \in KnownCall
    BY <1>2, <1>4 DEF KnownCall
  <1>6. CallFits(r, tokens)
    BY <1>1, <1>2, <1>3, <1>4
       DEF CallFits, Staged, Equipped, GettingOps, InfoOps, LoginOps, GettingPhases
  <1> QED
    BY <1>1, <1>2, <1>4, <1>5, <1>6, OwnStep

\* What getGrant returns is the access token of the cached grant.
LEMMA CachedToken ==
    ASSUME BaseInv, NEW s \in Services, service[s].grant # None
    PROVE  /\ service[s].grant \in Grants /\ service[s].grant \in Referenced
           /\ heap[service[s].grant].access \in Known \ {None}
           /\ heap[service[s].grant].access \in Tokens
  <1>1. service[s].grant \in Grants /\ service[s].grant \in Referenced
    BY DEF BaseInv, Typed, KnownService, Service, Referenced
  <1>2. heap[service[s].grant].access \in Known \ {None}
    BY <1>1 DEF BaseInv, Typed, Filled, KnownGrant
  <1> QED
    BY <1>1, <1>2, GrantServiceAssumption DEF BaseInv, Typed, Known, Tokens, None

\* getUserInfo goes on to ask Keycloak, to look again, or returns; a getGrant
\* returns the token.
LEMMA FinishGrantEffect ==
    ASSUME NEW c \in Calls, FinishGrant(c)
    PROVE  LET s     == call[c].service
               token == heap[service[s].grant].access
           IN  /\ call[c].phase = "finish" /\ service[s].grant # None
               /\ UNCHANGED <<given, tokens, alive, stored, requestVars, histories>>
               /\ \/ Goes(c, Settled(s, token))
                  \/ /\ call[c].op \in InfoOps
                     /\ Goes(c, [call[c] EXCEPT !.phase = "fetch", !.grant = None, !.token = token])
                  \/ call[c].op \in InfoOps /\ Goes(c, Settled(s, None))
                  \/ call[c].op \in InfoOps /\ StartGrant(c, s, call[c].op, TRUE)
  <1> DEFINE s == call[c].service
             token == heap[service[s].grant].access
             r == [call[c] EXCEPT !.phase = "fetch", !.grant = None, !.token = token]
  <1>1. /\ call[c].phase = "finish" /\ service[s].grant # None
        /\ UNCHANGED <<given, tokens, alive, stored, requestVars, histories>>
    BY Zenon DEF FinishGrant
  <1>2. CASE call[c].op \notin InfoOps
    <2>1. Goes(c, Settled(s, token))
      BY <1>2 DEF FinishGrant
    <2> QED
      BY <1>1, <2>1
  <1>3. CASE call[c].op \in InfoOps /\ call[c].looked
    <2>1. Goes(c, IF Fresh(token) THEN r ELSE Settled(s, None))
      BY <1>3 DEF FinishGrant
    <2>2. Goes(c, r) \/ Goes(c, Settled(s, None))
      <3> HIDE DEF r, s, token
      <3> QED
        BY <2>1
    <2> QED
      BY <1>1, <1>3, <2>2
  <1>4. CASE call[c].op \in InfoOps /\ ~call[c].looked
    <2>1. IF service[s].userInfo # {} /\ call[c].op = "getUserInfo"
          THEN Goes(c, Settled(s, token)) ELSE StartGrant(c, s, call[c].op, TRUE)
      BY <1>4, Zenon DEF FinishGrant
    <2> QED
      BY <1>1, <1>4, <2>1
  <1> QED
    BY <1>2, <1>3, <1>4

LEMMA FinishGrantStep ==
    ASSUME BaseInv, NEW c \in Calls, FinishGrant(c)
    PROVE  BaseInv'
  <1> DEFINE s == call[c].service
             token == heap[service[s].grant].access
             r == [call[c] EXCEPT !.phase = "fetch", !.grant = None, !.token = token]
  <1>1. /\ call[c].phase = "finish" /\ service[s].grant # None
        /\ UNCHANGED <<given, tokens, alive, stored, requestVars, histories>>
        /\ \/ Goes(c, Settled(s, token))
           \/ call[c].op \in InfoOps /\ Goes(c, r)
           \/ call[c].op \in InfoOps /\ Goes(c, Settled(s, None))
           \/ call[c].op \in InfoOps /\ StartGrant(c, s, call[c].op, TRUE)
    BY FinishGrantEffect
  <1>2. s \in Services /\ call[c] \in Call /\ CallFits(call[c], tokens) /\ None \in Known
    BY SameRequest, CallType DEF BaseInv, KnownCall
  <1>3. token \in Known /\ token # None /\ token \in Tokens
    BY <1>1, <1>2, CachedToken
  <1>4. CASE Goes(c, Settled(s, token))
    BY <1>1, <1>2, <1>3, <1>4, EndedCall, OwnStep DEF BaseInv
  <1>5. CASE call[c].op \in InfoOps /\ Goes(c, r)
    <2> HIDE DEF token
    <2>1. /\ r \in Call /\ r.phase = "fetch" /\ r.op = call[c].op
          /\ r.grant = None /\ r.token = token
      BY <1>2, <1>3 DEF Call
    <2> HIDE DEF r
    <2>2. r \in KnownCall
      BY <1>3, <2>1 DEF KnownCall
    <2>3. CallFits(r, tokens)
      BY <1>3, <1>5, <2>1
         DEF CallFits, Staged, Equipped, GettingOps, InfoOps, LoginOps, GettingPhases
    <2> QED
      BY <1>1, <1>5, <2>1, <2>2, <2>3, OwnStep
  <1>6. CASE Goes(c, Settled(s, None))
    BY <1>1, <1>2, <1>6, EndedCall, OwnStep DEF BaseInv
  <1>7. CASE call[c].op \in InfoOps /\ StartGrant(c, s, call[c].op, TRUE)
    <2>1. call[c].op \in GettingOps \cup InfoOps /\ call[c].op \in Ops /\ TRUE \in BOOLEAN
      BY <1>7, CallType DEF BaseInv, InfoOps
    <2> QED
      BY <1>1, <1>2, <1>7, <2>1, StartGrantStep
  <1> QED
    BY <1>1, <1>4, <1>5, <1>6, <1>7

\* Calls that fail and leave what the service has cached
LEMMA FailedStep ==
    ASSUME BaseInv, NEW c \in Calls, Goes(c, Failed(call[c].service)),
           UNCHANGED <<given, tokens, alive, stored, requestVars, histories>>
    PROVE  BaseInv'
  <1>1. call[c].service \in Services /\ None \in Known
    BY SameRequest, CallType DEF BaseInv
  <1> QED
    BY <1>1, EndedCall, OwnStep DEF BaseInv

LEMMA RevocationFailsStep ==
    ASSUME BaseInv, NEW c \in Calls, RevocationFails(c)
    PROVE  BaseInv'
  <1> DEFINE r == [call[c] EXCEPT !.phase = "clear", !.logins = {}]
  <1>1. /\ Goes(c, r) /\ call[c].phase = "revoke"
        /\ UNCHANGED <<given, tokens, alive, stored, requestVars, histories>>
    BY DEF RevocationFails
  <1>2. call[c] \in KnownCall /\ CallFits(call[c], tokens)
    BY CallType DEF BaseInv
  <1>3. /\ r \in KnownCall /\ r.phase = "clear" /\ r.op = call[c].op
        /\ r.grant = call[c].grant /\ r.token = call[c].token
    BY <1>2 DEF KnownCall, Call
  <1> HIDE DEF r
  <1>4. CallFits(r, tokens)
    BY <1>1, <1>2, <1>3
       DEF CallFits, Staged, Equipped, GettingOps, InfoOps, LoginOps, GettingPhases
  <1> QED
    BY <1>1, <1>3, <1>4, OwnStep DEF Referenced

LEMMA RevokedStep ==
    ASSUME BaseInv, NEW c \in Calls, Revoked(c)
    PROVE  BaseInv'
  <1> DEFINE r == [call[c] EXCEPT !.phase = "clear"]
  <1>1. /\ Goes(c, r) /\ call[c].phase = "revoke" /\ alive' \subseteq alive
        /\ UNCHANGED <<given, tokens, stored, requestVars, histories>>
    BY DEF Revoked, Enters
  <1>2. call[c] \in KnownCall /\ CallFits(call[c], tokens)
    BY CallType DEF BaseInv
  <1>3. /\ r \in KnownCall /\ r.phase = "clear" /\ r.op = call[c].op
        /\ r.grant = call[c].grant /\ r.token = call[c].token
    BY <1>2 DEF KnownCall, Call
  <1> HIDE DEF r
  <1>4. CallFits(r, tokens)
    BY <1>1, <1>2, <1>3
       DEF CallFits, Staged, Equipped, GettingOps, InfoOps, LoginOps, GettingPhases
  <1>5. /\ UNCHANGED <<given, tokens, heap>> /\ alive' \subseteq Tokens
        /\ verified' = verified /\ ended' = ended /\ stored' = stored /\ session' = session
        /\ header' = header /\ roles' = roles /\ kauth' = kauth /\ service' = service
    BY <1>1, SameRequest DEF requestVars, histories
  <1> QED
    BY <1>1, <1>3, <1>4, <1>5, CallStep, SameRequest DEF Referenced

LEMMA DestroyedStep ==
    ASSUME BaseInv, NEW c \in Calls, Destroyed(c)
    PROVE  BaseInv'
  <1>1. /\ Goes(c, Settled(call[c].service, None)) /\ stored' = NoSession
        /\ ended' = ended \cup call[c].logins
        /\ UNCHANGED <<given, tokens, alive, requestVars, verified>>
    BY DEF Destroyed
  <1>2. call[c].service \in Services /\ call[c].logins \subseteq Tokens /\ None \in Known
    BY SameRequest, CallType DEF BaseInv
  <1>3. NoSession \in KnownSession
    BY <1>2 DEF NoSession, KnownSession, Session
  <1>4. /\ UNCHANGED <<given, tokens, heap>> /\ alive' = alive /\ verified' = verified
        /\ session' = session /\ header' = header /\ roles' = roles /\ kauth' = kauth /\ service' = service
    BY <1>1 DEF requestVars, histories
  <1>5. ended' \subseteq Tokens
    BY <1>1, <1>2, SameRequest
  <1> QED
    BY <1>1, <1>2, <1>3, <1>4, <1>5, EndedCall, CallStep, SameRequest DEF BaseInv

\* Clearing takes what the service and the request share, and nothing else.
LEMMA ClearGrantEffect ==
    ASSUME Typed, NEW s \in Services, ClearGrant(s)
    PROVE  /\ kauth' = None /\ roles' = None
           /\ service' = [service EXCEPT ![s] = NewService]
           /\ service' \in [Services -> KnownService]
           /\ service'[s].grant = None /\ service'[s].userInfo = {}
           /\ \A x \in Services : service'[x].grant \in {service[x].grant, None}
  <1>1. NewService \in KnownService /\ NewService.grant = None /\ NewService.userInfo = {}
    BY GrantServiceAssumption DEF NewService, KnownService, Service, Known, Typed, None
  <1>2. service \in [Services -> KnownService]
    BY DEF Typed
  <1> QED
    BY <1>1, <1>2 DEF ClearGrant

LEMMA ClearStep ==
    ASSUME BaseInv, NEW c \in Calls, NEW s \in Services, NEW r \in KnownCall,
           ClearGrant(s), Goes(c, r), CallFits(r, tokens), r.grant \in Referenced \cup {None},
           UNCHANGED <<given, tokens, alive, stored, header, heap, histories>>,
           session' \in KnownSession
    PROVE  BaseInv'
  <1>1. /\ kauth' = None /\ roles' = None /\ service' \in [Services -> KnownService]
        /\ \A x \in Services : service'[x].grant \in Referenced \cup {None}
    BY ClearGrantEffect, SameRequest DEF BaseInv
  <1>2. /\ UNCHANGED <<given, tokens, heap>> /\ alive' = alive /\ verified' = verified /\ ended' = ended
        /\ stored' = stored /\ header' = header
    BY DEF histories
  <1> QED
    BY <1>1, <1>2, CallStep, SameRequest

\* The catch blocks of getGrant
LEMMA FailsStep ==
    ASSUME BaseInv, NEW c \in Calls, Fails(c),
           UNCHANGED <<given, tokens, alive, stored, session, header, heap, histories>>
    PROVE  BaseInv'
  <1>1. call[c].service \in Services /\ None \in Known
    BY SameRequest, CallType DEF BaseInv
  <1> QED
    BY <1>1, EndedCall, ClearStep, SameRequest DEF BaseInv, Fails

\* A getGrant that returns nothing, in a phase of the methods that call it
LEMMA GetsNothingEffect ==
    ASSUME BaseInv, NEW c \in Calls, GetsNothing(c), call[c].phase \in {"resolve", "finish"}
    PROVE  /\ ClearGrant(call[c].service)
           /\ \/ Goes(c, Settled(call[c].service, None))
              \/ \E r \in KnownCall :
                   /\ Goes(c, r) /\ CallFits(r, tokens)
                   /\ r.phase = "resolve" /\ r.op = call[c].op /\ r.op \in InfoOps
                   /\ r.grant = None /\ r.token = call[c].token
                   /\ r.service = call[c].service
  <1> DEFINE r == [call[c] EXCEPT !.phase = "resolve", !.looked = TRUE, !.grant = None]
             again == call[c].op \in InfoOps /\ ~call[c].looked
  <1>1. /\ ClearGrant(call[c].service)
        /\ Goes(c, IF again THEN r ELSE Settled(call[c].service, None))
    BY DEF GetsNothing
  <1>2. CASE again
    <2>1. call[c] \in KnownCall
      BY CallType DEF BaseInv
    <2>2. /\ r \in KnownCall /\ r.phase = "resolve" /\ r.op = call[c].op /\ r.grant = None
          /\ r.token = call[c].token /\ r.service = call[c].service
      BY <2>1 DEF KnownCall, Call
    <2>3. Goes(c, r)
      BY <1>1, <1>2
    <2> HIDE DEF r
    <2>4. CallFits(r, tokens)
      BY <1>2, <2>2 DEF CallFits, Staged, Equipped, GettingOps, InfoOps, LoginOps, GettingPhases
    <2> QED
      BY <1>1, <1>2, <2>2, <2>3, <2>4
  <1>3. CASE ~again
    BY <1>1, <1>3
  <1> QED
    BY <1>2, <1>3

LEMMA GetsNothingStep ==
    ASSUME BaseInv, NEW c \in Calls, GetsNothing(c), call[c].phase \in {"resolve", "finish"},
           UNCHANGED <<given, tokens, alive, stored, session, header, heap, histories>>
    PROVE  BaseInv'
  <1>1. call[c].service \in Services /\ None \in Known /\ session' \in KnownSession
    BY SameRequest, CallType DEF BaseInv
  <1>2. CASE Goes(c, Settled(call[c].service, None))
    BY <1>1, <1>2, EndedCall, ClearStep, GetsNothingEffect DEF BaseInv
  <1>3. CASE ~Goes(c, Settled(call[c].service, None))
    <2>1. PICK r \in KnownCall : Goes(c, r) /\ CallFits(r, tokens) /\ r.grant = None
      BY <1>3, GetsNothingEffect
    <2> QED
      BY <1>1, <2>1, ClearStep, GetsNothingEffect
  <1> QED
    BY <1>2, <1>3

LEMMA ClearSessionStep ==
    ASSUME BaseInv, NEW c \in Calls, ClearSession(c)
    PROVE  BaseInv'
  <1> DEFINE r == [call[c] EXCEPT !.phase = "destroy", !.token = None]
  <1>1. /\ call[c].phase = "clear" /\ ClearGrant(call[c].service) /\ session' = NoSession
        /\ Goes(c, IF session.exists THEN r ELSE Settled(call[c].service, None))
        /\ UNCHANGED <<given, tokens, alive, stored, header, heap, histories>>
    BY DEF ClearSession, DetachSession
  <1>2. /\ call[c] \in KnownCall /\ CallFits(call[c], tokens) /\ call[c].service \in Services
        /\ None \in Known
    BY SameRequest, CallType DEF BaseInv
  <1>3. session' \in KnownSession
    BY <1>1, <1>2 DEF NoSession, KnownSession, Session
  <1>4. CASE session.exists
    <2>1. /\ r \in KnownCall /\ r.phase = "destroy" /\ r.op = call[c].op
          /\ r.grant = call[c].grant /\ Goes(c, r)
      BY <1>1, <1>2, <1>4 DEF KnownCall, Call
    <2> HIDE DEF r
    <2>2. CallFits(r, tokens)
      BY <1>1, <1>2, <2>1
         DEF CallFits, Staged, Equipped, GettingOps, InfoOps, LoginOps, GettingPhases
    <2>3. r.grant \in Referenced
      BY <2>1 DEF Referenced
    <2> QED
      BY <1>1, <1>2, <1>3, <2>1, <2>2, <2>3, ClearStep
  <1>5. CASE ~session.exists
    BY <1>1, <1>2, <1>3, <1>5, EndedCall, ClearStep DEF BaseInv
  <1> QED
    BY <1>4, <1>5

\* A grant's refresh token replaces that of the service only if it has one.
LEMMA AfterGrantEffect ==
    ASSUME service \in [Services -> KnownService], NEW s \in Services, NEW g \in Grants,
           NEW grant \in KnownGrant', Known \subseteq Known', KnownService \subseteq KnownService',
           AfterGrant(s, g, grant)
    PROVE  /\ kauth' = g /\ service' \in [Services -> KnownService']
           /\ service'[s].grant = g /\ service'[s].access = grant.access
           /\ service'[s].userInfo = {}
           /\ \A x \in Services \ {s} : service'[x] = service[x]
  <1> DEFINE fields == [grant |-> g, access |-> grant.access, userInfo |-> {},
                        refresh |-> IF grant.refresh # None THEN grant.refresh
                                    ELSE service[s].refresh]
  <1>1. service' = [service EXCEPT ![s] = fields] /\ kauth' = g
    BY DEF AfterGrant
  <1>2. /\ service[s].refresh \in Tokens \cup {None} /\ service[s].refresh \in Known'
        /\ grant.access \in Tokens \cup {None} /\ grant.access \in Known'
        /\ grant.refresh \in Tokens \cup {None} /\ grant.refresh \in Known'
    BY DEF KnownService, KnownGrant, Service, Grant
  <1>3. fields \in KnownService'
    <2>1. fields \in Service
      BY <1>2 DEF Service
    <2>2. fields.access \in Known' /\ fields.refresh \in Known'
      BY <1>2
    <2> HIDE DEF fields
    <2> QED
      BY <2>1, <2>2 DEF KnownService
  <1>4. /\ fields.grant = g /\ fields.access = grant.access /\ fields.userInfo = {}
    OBVIOUS
  <1> HIDE DEF fields
  <1> QED
    BY <1>1, <1>3, <1>4

LEMMA LookedValidStep ==
    ASSUME BaseInv, NEW c \in Calls, LookedValid(c)
    PROVE  BaseInv'
  <1> DEFINE r == [call[c] EXCEPT !.phase = "verify"]
             access == heap[call[c].grant].access
  <1>1. /\ Goes(c, r) /\ call[c].phase = "validate"
        /\ verified' = verified \cup {t \in {access} : Fresh(t)}
        /\ UNCHANGED <<given, tokens, alive, stored, requestVars, ended>>
    BY DEF LookedValid, Enters
  <1>2. /\ call[c] \in KnownCall /\ CallFits(call[c], tokens)
        /\ call[c].grant \in Grants /\ call[c].grant \in Referenced
    <2>1. /\ call[c] \in KnownCall /\ CallFits(call[c], tokens)
          /\ call[c].grant \in Grants \cup {None} /\ call[c].grant \in Referenced
      BY CallType DEF BaseInv, Referenced
    <2> QED
      BY <1>1, <2>1 DEF CallFits, Equipped
  <1>3. access \in Tokens
    <2>1. access \in Known /\ access # None
      BY <1>2 DEF BaseInv, Typed, Filled, KnownGrant, None, Grants
    <2> HIDE DEF access
    <2> QED
      BY <2>1, GrantServiceAssumption DEF BaseInv, Typed, Known, Tokens, None
  <1>4. /\ r \in KnownCall /\ r.phase = "verify" /\ r.op = call[c].op
        /\ r.grant = call[c].grant /\ r.token = call[c].token
    BY <1>2 DEF KnownCall, Call
  <1> HIDE DEF r, access
  <1>5. CallFits(r, tokens)
    BY <1>1, <1>2, <1>4
       DEF CallFits, Staged, Equipped, GettingOps, InfoOps, LoginOps, GettingPhases
  <1>6. /\ UNCHANGED <<given, tokens, heap>> /\ alive' = alive /\ ended' = ended
        /\ stored' = stored /\ session' = session /\ header' = header /\ roles' = roles
        /\ kauth' = kauth /\ service' = service /\ verified' \subseteq Tokens
    BY <1>1, <1>3, SameRequest DEF requestVars, histories
  <1> QED
    BY <1>1, <1>2, <1>4, <1>5, <1>6, CallStep, SameRequest

LEMMA ValidatedStep ==
    ASSUME BaseInv, NEW c \in Calls, Validated(c)
    PROVE  BaseInv'
  <1> DEFINE r == [call[c] EXCEPT !.phase = "roles"]
             s == call[c].service
             g == call[c].grant
  <1>1. /\ Goes(c, r) /\ call[c].phase = "verify" /\ AfterGrant(s, g, heap[g])
        /\ UNCHANGED <<given, tokens, alive, stored, session, header, roles, heap, histories>>
    BY DEF Validated, Enters
  <1>2. /\ call[c] \in KnownCall /\ CallFits(call[c], tokens) /\ s \in Services
        /\ g \in Grants /\ g \in Referenced /\ heap[g] \in KnownGrant
    <2>1. call[c] \in KnownCall /\ CallFits(call[c], tokens) /\ s \in Services
          /\ g \in Grants \cup {None} /\ g \in Referenced
      BY CallType DEF BaseInv, Referenced
    <2>2. g # None
      BY <1>1, <2>1 DEF CallFits, Equipped
    <2> QED
      BY <2>1, <2>2 DEF BaseInv, Typed
  <1>3. /\ r \in KnownCall /\ r.phase = "roles" /\ r.op = call[c].op
        /\ r.grant = g /\ r.token = call[c].token
    BY <1>2 DEF KnownCall, Call
  <1>4. Known' = Known /\ KnownService' = KnownService /\ KnownGrant' = KnownGrant
    BY <1>1 DEF Known, KnownService, KnownGrant
  <1>5. /\ service \in [Services -> KnownService]
        /\ \A x \in Services : service[x].grant \in Referenced \cup {None}
    BY SameRequest
  <1> HIDE DEF r, s, g
  <1>6. CallFits(r, tokens)
    BY <1>1, <1>2, <1>3
       DEF CallFits, Staged, Equipped, GettingOps, InfoOps, LoginOps, GettingPhases, s, g
  <1>7. /\ kauth' = g /\ service' \in [Services -> KnownService'] /\ service'[s].grant = g
        /\ \A x \in Services \ {s} : service'[x] = service[x]
    BY <1>1, <1>2, <1>4, <1>5, AfterGrantEffect
  <1>8. \A x \in Services : service'[x].grant \in Referenced \cup {None}
    BY <1>2, <1>5, <1>7
  <1>9. /\ UNCHANGED <<given, tokens, heap>> /\ alive' = alive /\ verified' = verified /\ ended' = ended
        /\ stored' = stored /\ session' = session /\ header' = header /\ roles' = roles
    BY <1>1 DEF histories
  <1> QED
    BY <1>1, <1>2, <1>3, <1>4, <1>6, <1>7, <1>8, <1>9, CallStep, SameRequest

LEMMA SetRolesStep ==
    ASSUME BaseInv, NEW c \in Calls, SetRoles(c)
    PROVE  BaseInv'
  <1> DEFINE s == call[c].service
             token == heap[call[c].grant].access
             r == [call[c] EXCEPT !.phase = "finish"]
  <1>1. /\ call[c].phase = "roles" /\ roles' = token
        /\ UNCHANGED <<given, tokens, alive, stored, session, header, kauth, service, heap, histories>>
        /\ \/ Goes(c, Settled(s, token))
           \/ call[c].op \notin LoginOps \cup {"refreshTokenGrant"} /\ Goes(c, r)
    BY DEF SetRoles, Enters
  <1>2. /\ call[c] \in KnownCall /\ CallFits(call[c], tokens) /\ s \in Services
        /\ call[c].grant \in Grants /\ call[c].grant \in Referenced
    <2>1. call[c] \in KnownCall /\ CallFits(call[c], tokens) /\ s \in Services
          /\ call[c].grant \in Grants \cup {None} /\ call[c].grant \in Referenced
      BY CallType DEF BaseInv, Referenced
    <2> QED
      BY <1>1, <2>1 DEF CallFits, Equipped
  <1>3. token \in Known
    BY <1>2 DEF BaseInv, Typed, KnownGrant
  <1>4. /\ UNCHANGED <<given, tokens, heap>> /\ alive' = alive /\ verified' = verified /\ ended' = ended
        /\ stored' = stored /\ session' = session /\ header' = header
        /\ kauth' = kauth /\ service' = service /\ roles' \in Known
    BY <1>1, <1>3 DEF histories
  <1>5. CASE Goes(c, Settled(s, token))
    BY <1>2, <1>3, <1>4, <1>5, EndedCall, CallStep, SameRequest DEF BaseInv
  <1>6. CASE call[c].op \notin LoginOps \cup {"refreshTokenGrant"} /\ Goes(c, r)
    <2>1. /\ r \in KnownCall /\ r.phase = "finish" /\ r.op = call[c].op
          /\ r.grant = call[c].grant /\ r.token = call[c].token
      BY <1>2 DEF KnownCall, Call
    <2>2. Goes(c, r)
      BY <1>6
    <2> HIDE DEF r
    <2>3. CallFits(r, tokens)
      BY <1>1, <1>2, <1>6, <2>1
         DEF CallFits, Staged, Equipped, GettingOps, InfoOps, LoginOps, GettingPhases
    <2> QED
      BY <1>2, <1>4, <2>1, <2>2, <2>3, CallStep, SameRequest
  <1> QED
    BY <1>1, <1>5, <1>6

LEMMA FetchedUserInfoStep ==
    ASSUME BaseInv, NEW c \in Calls, FetchedUserInfo(c)
    PROVE  BaseInv'
  <1> DEFINE s == call[c].service
             fields == [service[s] EXCEPT !.userInfo = UserInfo(call[c].token)]
  <1>1. /\ call[c].phase = "fetch" /\ service' = [service EXCEPT ![s] = fields]
        /\ Goes(c, Settled(s, call[c].token))
        /\ UNCHANGED <<given, tokens, alive, stored, session, header, kauth, roles, heap, histories>>
    BY DEF FetchedUserInfo
  <1>2. /\ CallFits(call[c], tokens) /\ s \in Services /\ call[c].token \in Known
    BY CallType DEF BaseInv
  <1>3. UserInfo(call[c].token) \in SUBSET Users
    BY <1>1, <1>2, TokensKnown DEF BaseInv, CallFits, Equipped, UserInfo
  <1>4. fields \in KnownService /\ fields.grant = service[s].grant
    <2>1. service[s] \in KnownService
      BY <1>2 DEF BaseInv, Typed
    <2> QED
      BY <1>3, <2>1 DEF KnownService, Service
  <1> HIDE DEF fields
  <1>5. /\ service' \in [Services -> KnownService]
        /\ \A x \in Services : service'[x].grant \in Referenced \cup {None}
    BY <1>1, <1>2, <1>4, SameRequest
  <1>6. /\ UNCHANGED <<given, tokens, heap>> /\ alive' = alive /\ verified' = verified /\ ended' = ended
        /\ stored' = stored /\ session' = session /\ header' = header
        /\ kauth' = kauth /\ roles' = roles
    BY <1>1 DEF histories
  <1> QED
    BY <1>1, <1>2, <1>5, <1>6, EndedCall, CallStep, SameRequest DEF BaseInv

\* Using a refresh token changes no token but in that.
LEMMA SpentEffect ==
    ASSUME Typed, NEW with
    PROVE  /\ Spent(with) \in Seq(Issued) /\ Len(Spent(with)) = Len(tokens)
           /\ \A t \in DOMAIN tokens : /\ Spent(with)[t].user = tokens[t].user
                                       /\ Spent(with)[t].login = tokens[t].login
                                       /\ Spent(with)[t].fresh = tokens[t].fresh
                                       /\ ~rotation => Spent(with)[t] = tokens[t]
  <1> DEFINE spent(t) == IF t = with /\ rotation THEN [tokens[t] EXCEPT !.spent = TRUE]
                         ELSE tokens[t]
             used == [t \in DOMAIN tokens |-> spent(t)]
  <1>1. Len(tokens) \in Nat /\ DOMAIN tokens = 1..Len(tokens) /\ Spent(with) = used
    BY TokensKnown, GrantServiceAssumption DEF Typed, Spent
  <1>2. \A t \in DOMAIN tokens :
          /\ spent(t) \in Issued /\ spent(t).user = tokens[t].user /\ spent(t).login = tokens[t].login
          /\ spent(t).fresh = tokens[t].fresh /\ (~rotation => spent(t) = tokens[t])
    BY TokensKnown DEF Issued
  <1> HIDE DEF spent
  <1>3. used \in [1..Len(tokens) -> Issued]
    BY <1>1, <1>2
  <1>4. used \in Seq(Issued) /\ Len(used) = Len(tokens)
    BY <1>1, <1>3, SeqDef
  <1>5. \A t \in DOMAIN tokens : used[t] = spent(t)
    OBVIOUS
  <1> HIDE DEF used
  <1> QED
    BY <1>1, <1>2, <1>4, <1>5

\* A token pair more, and the same owners as before
LEMMA IssueEffect ==
    ASSUME Typed, NEW user \in Users, NEW login \in Tokens, NEW with, Issue(user, login, with)
    PROVE  /\ tokens' \in Seq(Issued) /\ Len(tokens') = NewToken
           /\ Len(tokens') \in 1..MaxTokens /\ Len(tokens') >= Len(tokens)
           /\ OwnersKept
           /\ \A t \in DOMAIN tokens : /\ t \in DOMAIN tokens'
                                       /\ tokens'[t].user = tokens[t].user
                                       /\ tokens'[t].login = tokens[t].login
                                       /\ tokens'[t].fresh = tokens[t].fresh
                                       /\ ~rotation => tokens'[t] = tokens[t]
           /\ NewToken \in DOMAIN tokens' /\ DOMAIN tokens' = DOMAIN tokens \cup {NewToken}
           /\ NewToken \in Tokens /\ NewToken \in Known' /\ NewToken # None /\ NewToken \notin Known
           /\ tokens'[NewToken] = Pair(user, login, TRUE)
  <1> DEFINE used == Spent(with)
             pair == Pair(user, login, TRUE)
  <1>1. Len(tokens) < MaxTokens /\ tokens' = Append(used, pair)
    BY DEF Issue
  <1>2. Len(tokens) \in Nat /\ DOMAIN tokens = 1..Len(tokens) /\ Len(tokens) >= 1
    BY GrantServiceAssumption DEF Typed
  <1>3. /\ used \in Seq(Issued) /\ Len(used) = Len(tokens)
        /\ \A t \in DOMAIN tokens : /\ used[t].user = tokens[t].user
                                    /\ used[t].login = tokens[t].login
                                    /\ used[t].fresh = tokens[t].fresh
                                    /\ ~rotation => used[t] = tokens[t]
    BY SpentEffect
  <1>4. pair \in Issued
    BY DEF Issued, Pair
  <1> HIDE DEF used, pair
  <1>5. /\ tokens' \in Seq(Issued) /\ Len(tokens') = Len(tokens) + 1
        /\ \A t \in 1..Len(tokens) : tokens'[t] = used[t]
        /\ tokens'[Len(tokens) + 1] = pair
    BY <1>1, <1>2, <1>3, <1>4, AppendProperties
  <1>6. DOMAIN tokens' = 1..(Len(tokens) + 1)
    BY <1>5
  <1>7. /\ NewToken \in DOMAIN tokens' /\ DOMAIN tokens' = DOMAIN tokens \cup {NewToken}
        /\ NewToken \in Tokens /\ NewToken \in Known' /\ NewToken # None /\ NewToken \notin Known
        /\ Len(tokens') \in 1..MaxTokens /\ Len(tokens') >= Len(tokens)
    BY <1>1, <1>2, <1>5, <1>6, GrantServiceAssumption DEF NewToken, Tokens, Known, None
  <1>8. \A t \in DOMAIN tokens : tokens'[t] = used[t] /\ t \in DOMAIN tokens'
    BY <1>2, <1>5, <1>7
  <1> QED
    BY <1>3, <1>5, <1>7, <1>8 DEF NewToken, pair, OwnersKept

\* A step that makes or renews a grant, and may have Keycloak issue tokens
LEMMA MakeStep ==
    ASSUME BaseInv, NEW c \in Calls, NEW r \in KnownCall', Goes(c, r), CallFits(r, tokens'),
           given' = given,
           tokens' \in Seq(Issued), Len(tokens') \in 1..MaxTokens, Len(tokens') >= Len(tokens),
           OwnersKept,
           heap' \in [Grants -> KnownGrant'],
           \A g \in Grants : heap[g].access # None => heap'[g].access # None,
           alive' \subseteq Tokens, verified' \subseteq Tokens, ended' \subseteq Tokens,
           stored' \in KnownSession', session' \in KnownSession',
           header' \in Known', roles' \in Known',
           service' \in [Services -> KnownService'],
           \A g \in {kauth', r.grant} \cup {service'[s].grant : s \in Services} :
             g # None => g \in Grants /\ (heap'[g].access # None \/ g \in Referenced)
    PROVE  BaseInv'
  <1>1. /\ call \in [Calls -> KnownCall] /\ call' = [call EXCEPT ![c] = r]
        /\ KnownCall \subseteq KnownCall'
    <2>1. Len(tokens) \in Nat
      BY GrantServiceAssumption DEF BaseInv, Typed
    <2> QED
      BY <2>1, KnownGrows DEF BaseInv, Typed, Goes
  <1>2. call' \in [Calls -> KnownCall'] /\ kauth' \in Grants \cup {None}
    BY <1>1
  <1>3. Typed'
    BY <1>2 DEF BaseInv, Typed, given
  <1>4. ASSUME NEW g \in Referenced' \ {None}
        PROVE  heap'[g].access # None
    <2>1. g \in Grants
      BY <1>3 DEF Referenced, Typed, KnownService, KnownCall, Service, Call
    <2>2. \/ g \in {kauth', r.grant} \cup {service'[s].grant : s \in Services}
          \/ \E d \in Calls : g = call[d].grant
      BY <1>1 DEF Referenced
    <2>3. heap'[g].access # None \/ g \in Referenced
      BY <2>2 DEF Referenced
    <2> QED
      BY <2>1, <2>3 DEF BaseInv, Filled
  <1>5. ASSUME NEW d \in Calls
        PROVE  CallFits(call'[d], tokens')
    <2>1. CASE d = c
      BY <1>1, <2>1
    <2>2. CASE d # c
      <3>1. call'[d] = call[d] /\ CallFits(call[d], tokens)
        BY <1>1, <2>2 DEF BaseInv
      <3>2. call[d].token # None => tokens'[call[d].token].login = tokens[call[d].token].login
        BY CallType, TokensKnown DEF BaseInv, OwnersKept
      <3> QED
        BY <3>1, <3>2 DEF CallFits, Equipped
    <2> QED
      BY <2>1, <2>2
  <1> QED
    BY <1>3, <1>4, <1>5 DEF BaseInv, Filled

\* The tokens of the request
LEMMA RequestTokens ==
    ASSUME BaseInv, NEW s \in Services
    PROVE  /\ AccessToken(s) \in Known /\ AccessToken(s) \in Tokens \cup {None}
           /\ RefreshToken(s) \in Known /\ RefreshToken(s) \in Tokens \cup {None}
  <1>1. service[s] \in KnownService /\ session \in KnownSession /\ header \in Known
    BY DEF BaseInv, Typed
  <1>2. AccessToken(s) \in Known /\ RefreshToken(s) \in Known
    BY <1>1 DEF AccessToken, RefreshToken, KnownService, KnownSession
  <1> QED
    BY <1>2, GrantServiceAssumption DEF BaseInv, Typed, Known, Tokens, None

LEMMA ResolveTokensStep ==
    ASSUME BaseInv, NEW c \in Calls, ResolveTokens(c)
    PROVE  BaseInv'
  <1> DEFINE s == call[c].service
             access == AccessToken(s)
             refresh == RefreshToken(s)
             grant == [access |-> access,
                       refresh |-> IF EnsureFreshness THEN refresh ELSE None]
             fields == [service[s] EXCEPT !.access = access, !.refresh = refresh]
             r == [call[c] EXCEPT !.phase = RenewalDue(grant), !.grant = NewGrant,
                                  !.token = grant.refresh]
  <1>1. /\ call[c].phase = "resolve" /\ kauth = None /\ access # None
        /\ heap' = [heap EXCEPT ![NewGrant] = grant]
        /\ service' = [service EXCEPT ![s] = fields]
        /\ Goes(c, r)
        /\ UNCHANGED <<given, tokens, alive, stored, session, header, kauth, roles, histories>>
    BY DEF ResolveTokens
  <1>2. s \in Services /\ call[c] \in Call /\ CallFits(call[c], tokens)
    BY CallType DEF BaseInv, KnownCall
  <1>3. NewGrant \in Grants /\ NewGrant \notin Referenced
    BY <1>1, NewGrantIsNew DEF BaseInv
  <1>4. /\ access \in Known /\ access \in Tokens \cup {None}
        /\ refresh \in Known /\ refresh \in Tokens \cup {None} /\ None \in Known
    BY <1>2, RequestTokens, SameRequest
  <1> HIDE DEF s, access, refresh
  <1>5. grant \in KnownGrant /\ grant.access # None /\ grant.refresh \in Tokens \cup {None}
        /\ grant.refresh \in Known
    BY <1>1, <1>4 DEF KnownGrant, Grant
  <1>6. RenewalDue(grant) \in {"refresh", "validate"}
        /\ (RenewalDue(grant) = "refresh" => grant.refresh # None)
    BY DEF RenewalDue
  <1> HIDE DEF grant
  <1>7. /\ r \in Call /\ r.phase = RenewalDue(grant) /\ r.op = call[c].op
        /\ r.grant = NewGrant /\ r.token = grant.refresh
    BY <1>2, <1>3, <1>5, <1>6 DEF Call
  <1> HIDE DEF r
  <1>8. r \in KnownCall /\ CallFits(r, tokens)
    <2>1. r \in KnownCall
      BY <1>5, <1>7 DEF KnownCall
    <2>2. NewGrant # None
      BY <1>3 DEF Grants, None
    <2> QED
      BY <1>1, <1>2, <1>6, <1>7, <2>1, <2>2
         DEF CallFits, Staged, Equipped, GettingOps, InfoOps, LoginOps, GettingPhases
  <1>9. fields \in KnownService /\ fields.grant = service[s].grant
    <2>1. service[s] \in KnownService
      BY <1>2 DEF BaseInv, Typed
    <2> QED
      BY <1>4, <2>1 DEF KnownService, Service
  <1> HIDE DEF fields
  <1>10. /\ service \in [Services -> KnownService] /\ heap \in [Grants -> KnownGrant]
         /\ Typed
    BY DEF BaseInv, Typed
  <1>11. /\ service' \in [Services -> KnownService]
         /\ \A x \in Services : service'[x].grant = service[x].grant
    BY <1>1, <1>2, <1>9, <1>10
  <1>12. /\ heap' \in [Grants -> KnownGrant] /\ heap'[NewGrant].access # None
         /\ \A g \in Grants : heap[g].access # None => heap'[g].access # None
    BY <1>1, <1>3, <1>5, <1>10
  <1>13. /\ KnownSession' = KnownSession /\ KnownService' = KnownService
         /\ KnownGrant' = KnownGrant /\ KnownCall' = KnownCall /\ Known' = Known
    BY <1>1 DEF KnownSession, KnownService, KnownGrant, KnownCall, Known
  <1>14. \A g \in {kauth', r.grant} \cup {service'[x].grant : x \in Services} :
           g # None => g \in Grants /\ (heap'[g].access # None \/ g \in Referenced)
    <2>1. \A x \in Services : service[x].grant \in Grants \cup {None}
      BY <1>10 DEF KnownService, Service
    <2> QED
      BY <1>1, <1>3, <1>7, <1>11, <1>12, <2>1 DEF Referenced
  <1>15. /\ tokens' \in Seq(Issued) /\ Len(tokens') \in 1..MaxTokens /\ Len(tokens') >= Len(tokens)
         /\ OwnersKept
    BY <1>1, <1>10, GrantServiceAssumption DEF Typed, OwnersKept
  <1>16. /\ alive' \subseteq Tokens /\ verified' \subseteq Tokens /\ ended' \subseteq Tokens
         /\ stored' \in KnownSession /\ session' \in KnownSession
         /\ header' \in Known /\ roles' \in Known /\ given' = given /\ tokens' = tokens
    BY <1>1, SameRequest DEF histories
  <1> QED
    BY <1>1, <1>8, <1>11, <1>12, <1>13, <1>14, <1>15, <1>16, MakeStep

\* What is typed stays so when tokens are issued.
LEMMA StillTyped ==
    ASSUME BaseInv, tokens' \in Seq(Issued), Len(tokens') >= Len(tokens)
    PROVE  /\ Known \subseteq Known' /\ KnownSession \subseteq KnownSession'
           /\ KnownService \subseteq KnownService' /\ KnownGrant \subseteq KnownGrant'
           /\ KnownCall \subseteq KnownCall'
           /\ stored \in KnownSession' /\ session \in KnownSession'
           /\ header \in Known' /\ roles \in Known' /\ None \in Known'
           /\ service \in [Services -> KnownService'] /\ heap \in [Grants -> KnownGrant']
  <1>1. Len(tokens) \in Nat
    BY GrantServiceAssumption DEF BaseInv, Typed
  <1> QED
    BY <1>1, KnownGrows, SameRequest DEF BaseInv, Typed

LEMMA RefreshedStep ==
    ASSUME BaseInv, NEW c \in Calls, Refreshed(c)
    PROVE  BaseInv'
  <1> DEFINE token == call[c].token
             user == tokens[token].user
             login == tokens[token].login
             g == call[c].grant
             renewed == [access |-> NewToken, refresh |-> NewToken]
             r == [call[c] EXCEPT !.phase = "validate"]
  <1>1. /\ call[c].phase = "refresh" /\ Issue(user, login, token)
        /\ heap' = [heap EXCEPT ![g] = renewed]
        /\ Goes(c, r) /\ verified' = verified \cup {NewToken}
        /\ UNCHANGED <<given, alive, stored, session, header, kauth, roles, service, ended>>
    BY DEF Refreshed, Enters
  <1>2. /\ call[c] \in KnownCall /\ CallFits(call[c], tokens) /\ token \in Known /\ token # None
        /\ user \in Users /\ login \in Tokens /\ g \in Grants /\ Typed
    <2>1. /\ call[c] \in KnownCall /\ CallFits(call[c], tokens) /\ token \in Known
          /\ g \in Grants \cup {None} /\ Typed
      BY CallType DEF BaseInv
    <2>2. token # None /\ g # None
      BY <1>1, <2>1 DEF CallFits, Equipped
    <2> QED
      BY <2>1, <2>2, TokensKnown
  <1>3. /\ tokens' \in Seq(Issued) /\ Len(tokens') \in 1..MaxTokens /\ Len(tokens') >= Len(tokens)
        /\ OwnersKept
        /\ NewToken \in Known' /\ NewToken # None /\ NewToken \in Tokens
        /\ token \in DOMAIN tokens
    BY <1>1, <1>2, IssueEffect, TokensKnown
  <1>4. /\ renewed \in KnownGrant' /\ renewed.access # None
    BY <1>3 DEF KnownGrant, Grant
  <1>5. /\ r \in KnownCall /\ r.phase = "validate" /\ r.op = call[c].op
        /\ r.grant = g /\ r.token = token
    BY <1>2 DEF KnownCall, Call
  <1> HIDE DEF r, renewed
  <1>6. /\ heap' \in [Grants -> KnownGrant'] /\ heap \in [Grants -> KnownGrant']
        /\ \A x \in Grants : heap[x].access # None => heap'[x].access # None
    BY <1>1, <1>2, <1>3, <1>4, StillTyped
  <1>7. CallFits(r, tokens')
    BY <1>1, <1>2, <1>5
       DEF CallFits, Staged, Equipped, GettingOps, InfoOps, LoginOps, GettingPhases, g
  <1>8. r \in KnownCall'
    BY <1>3, <1>5, StillTyped
  <1>9. \A x \in {kauth', r.grant} \cup {service'[s].grant : s \in Services} :
          x # None => x \in Grants /\ (heap'[x].access # None \/ x \in Referenced)
    <2>1. /\ \A s \in Services : service[s].grant \in Grants \cup {None}
          /\ kauth \in Grants \cup {None}
      BY <1>2 DEF Typed, KnownService, Service
    <2> QED
      BY <1>1, <1>2, <1>5, <2>1 DEF Referenced
  <1>10. /\ alive' \subseteq Tokens /\ verified' \subseteq Tokens /\ ended' \subseteq Tokens
         /\ stored' \in KnownSession' /\ session' \in KnownSession'
         /\ header' \in Known' /\ roles' \in Known' /\ given' = given
         /\ service' \in [Services -> KnownService']
    BY <1>1, <1>3, StillTyped, SameRequest
  <1> QED
    BY <1>1, <1>3, <1>6, <1>7, <1>8, <1>9, <1>10, MakeStep

LEMMA RefreshLostStep ==
    ASSUME BaseInv, NEW c \in Calls, RefreshLost(c)
    PROVE  BaseInv'
  <1> DEFINE s == call[c].service
             r == Failed(s)
  <1>1. /\ tokens' = Spent(call[c].token) /\ ClearGrant(s) /\ Goes(c, r)
        /\ UNCHANGED <<given, alive, stored, session, header, heap, histories>>
    BY DEF RefreshLost, Fails
  <1>2. /\ s \in Services /\ None \in Known /\ Typed
    BY SameRequest, CallType DEF BaseInv
  <1>3. /\ tokens' \in Seq(Issued) /\ Len(tokens') = Len(tokens) /\ OwnersKept
        /\ Len(tokens) \in 1..MaxTokens
    BY <1>1, <1>2, SpentEffect DEF OwnersKept, Typed
  <1>4. /\ Len(tokens') \in 1..MaxTokens /\ Len(tokens') >= Len(tokens)
    BY <1>3, GrantServiceAssumption
  <1>5. /\ r \in KnownCall /\ r.grant = None /\ CallFits(r, tokens')
    BY <1>2, EndedCall DEF Failed, Settled, CallFits, Staged, Equipped
  <1>6. /\ kauth' = None /\ roles' = None /\ service' \in [Services -> KnownService]
        /\ \A x \in Services : service'[x].grant \in Referenced \cup {None}
    BY <1>1, <1>2, ClearGrantEffect, SameRequest
  <1>7. \A g \in {kauth', r.grant} \cup {service'[x].grant : x \in Services} :
          g # None => g \in Grants /\ (heap'[g].access # None \/ g \in Referenced)
    <2>1. \A x \in Services : service'[x].grant \in Grants \cup {None}
      BY <1>6 DEF KnownService, Service
    <2> QED
      BY <1>5, <1>6, <2>1
  <1>8. /\ heap' \in [Grants -> KnownGrant'] /\ r \in KnownCall'
        /\ service' \in [Services -> KnownService']
        /\ stored' \in KnownSession' /\ session' \in KnownSession'
        /\ header' \in Known' /\ roles' \in Known'
        /\ \A g \in Grants : heap[g].access # None => heap'[g].access # None
    BY <1>1, <1>3, <1>4, <1>5, <1>6, StillTyped
  <1>9. /\ alive' \subseteq Tokens /\ verified' \subseteq Tokens /\ ended' \subseteq Tokens
        /\ given' = given
    BY <1>1, SameRequest DEF histories
  <1> HIDE DEF r
  <1> QED
    BY <1>1, <1>3, <1>4, <1>5, <1>7, <1>8, <1>9, MakeStep

\* Tokens that were obtained are written to a session that is there.
LEMMA SessionSetTokensEffect ==
    ASSUME session \in KnownSession', NEW op, NEW grant \in KnownGrant', SessionSetTokens(op, grant)
    PROVE  /\ session' \in KnownSession'
           /\ session'.access \in {session.access, grant.access}
           /\ session'.refresh \in {session.refresh, grant.refresh}
           /\ ~session.exists => session' = session
  <1> DEFINE updated == [session EXCEPT !.access = grant.access,
                                        !.refresh = IF grant.refresh # None THEN grant.refresh ELSE @]
  <1>1. session' = IF session.exists /\ op # "loginUnsaved" THEN updated ELSE session
    BY DEF SessionSetTokens
  <1>2. /\ session \in Session /\ session.access \in Known' /\ session.refresh \in Known'
        /\ grant.access \in Tokens \cup {None} /\ grant.access \in Known'
        /\ grant.refresh \in Tokens \cup {None} /\ grant.refresh \in Known'
    BY DEF KnownSession, KnownGrant, Grant
  <1>3. /\ updated \in Session /\ updated.access = grant.access
        /\ updated.refresh \in {session.refresh, grant.refresh}
    BY <1>2 DEF Session
  <1> HIDE DEF updated
  <1>4. updated \in KnownSession'
    BY <1>2, <1>3 DEF KnownSession
  <1> QED
    BY <1>1, <1>3, <1>4

LEMMA ExchangedStep ==
    ASSUME BaseInv, NEW c \in Calls, Exchanged(c)
    PROVE  BaseInv'
  <1> DEFINE r == [call[c] EXCEPT !.phase = "build", !.token = NewToken]
  <1>1. /\ call[c].phase = "exchange" /\ Goes(c, r)
        /\ UNCHANGED <<given, stored, requestVars, histories>>
    BY DEF Exchanged
  <1>2. PICK user \in Users, login \in alive \cup {NewToken} :
          Issue(user, login, call[c].token) /\ alive' = alive \cup {login}
    BY DEF Exchanged
  <1>3. /\ call[c] \in KnownCall /\ CallFits(call[c], tokens) /\ call[c].grant = None /\ Typed
        /\ alive \subseteq Tokens
    BY <1>1, CallType, SameRequest DEF BaseInv, CallFits, Equipped
  <1>4. NewToken \in Tokens
    BY <1>2, <1>3, GrantServiceAssumption DEF Issue, NewToken, Tokens, Typed
  <1>5. /\ tokens' \in Seq(Issued) /\ Len(tokens') \in 1..MaxTokens /\ Len(tokens') >= Len(tokens)
        /\ OwnersKept /\ NewToken \in Known' /\ NewToken # None
    BY <1>2, <1>3, <1>4, IssueEffect
  <1>6. /\ r \in Call /\ r.phase = "build" /\ r.op = call[c].op /\ r.grant = None /\ r.token = NewToken
    BY <1>3, <1>4 DEF KnownCall, Call
  <1> HIDE DEF r
  <1>7. r \in KnownCall' /\ CallFits(r, tokens')
    <2>1. r \in KnownCall'
      BY <1>5, <1>6 DEF KnownCall
    <2> QED
      BY <1>1, <1>3, <1>5, <1>6, <2>1
         DEF CallFits, Staged, Equipped, GettingOps, InfoOps, LoginOps, GettingPhases
  <1>8. /\ heap' \in [Grants -> KnownGrant'] /\ service' \in [Services -> KnownService']
        /\ stored' \in KnownSession' /\ session' \in KnownSession'
        /\ header' \in Known' /\ roles' \in Known'
        /\ \A g \in Grants : heap[g].access # None => heap'[g].access # None
    BY <1>1, <1>5, StillTyped DEF requestVars, histories
  <1>9. /\ alive' \subseteq Tokens /\ verified' \subseteq Tokens /\ ended' \subseteq Tokens
        /\ given' = given
    BY <1>1, <1>2, <1>3, <1>4, SameRequest DEF histories
  <1>10. \A x \in {kauth', r.grant} \cup {service'[y].grant : y \in Services} :
           x # None => x \in Grants /\ (heap'[x].access # None \/ x \in Referenced)
    <2>1. /\ \A y \in Services : service[y].grant \in Grants \cup {None}
          /\ kauth \in Grants \cup {None}
      BY <1>3 DEF Typed, KnownService, Service
    <2> QED
      BY <1>1, <1>6, <2>1 DEF Referenced, requestVars
  <1> QED
    BY <1>1, <1>5, <1>7, <1>8, <1>9, <1>10, MakeStep

LEMMA BuiltStep ==
    ASSUME BaseInv, NEW c \in Calls, Built(c)
    PROVE  BaseInv'
  <1> DEFINE grant == Granted(call[c].op, call[c].token)
             s == call[c].service
             g == NewGrant
             token == call[c].token
             r == [call[c] EXCEPT !.phase = "roles", !.grant = g]
  <1>1. /\ call[c].phase = "build" /\ SessionSetTokens(call[c].op, grant)
        /\ heap' = [heap EXCEPT ![g] = grant] /\ AfterGrant(s, g, grant) /\ Goes(c, r)
        /\ verified' = verified \cup {token}
        /\ UNCHANGED <<given, tokens, alive, stored, header, roles, ended>>
    BY DEF Built
  <1>2. Typed /\ Len(tokens) \in 1..MaxTokens /\ None \in Known
    BY SameRequest DEF BaseInv, Typed
  <1>3. /\ call[c] \in KnownCall /\ CallFits(call[c], tokens) /\ token \in Known /\ token # None
        /\ s \in Services /\ call[c].grant = None
    BY <1>1, CallType DEF BaseInv, CallFits, Equipped
  <1>4. g \in Grants /\ g \notin Referenced
    BY <1>2, <1>3, NewGrantIsNew
  <1>5. /\ tokens' \in Seq(Issued) /\ Len(tokens') \in 1..MaxTokens /\ Len(tokens') >= Len(tokens)
        /\ OwnersKept
        /\ token \in Known' /\ token \in Tokens
    BY <1>1, <1>2, <1>3, GrantServiceAssumption DEF OwnersKept, Typed, Known, Tokens, None
  <1>6. grant \in KnownGrant' /\ grant.access # None
    <2>1. None \in Known'
      BY <1>5, StillTyped
    <2> QED
      BY <1>3, <1>5, <2>1 DEF Granted, KnownGrant, Grant
  <1>7. /\ r \in KnownCall /\ r.phase = "roles" /\ r.op = call[c].op
        /\ r.grant = g /\ r.token = token
    BY <1>3, <1>4 DEF KnownCall, Call
  <1> HIDE DEF grant, s, g, r
  <1>8. g # None
    BY <1>4 DEF Grants, None
  <1>9. r \in KnownCall' /\ CallFits(r, tokens')
    <2>1. r \in KnownCall'
      BY <1>5, <1>7, StillTyped
    <2> QED
      BY <1>1, <1>3, <1>7, <1>8, <2>1
         DEF CallFits, Staged, Equipped, GettingOps, InfoOps, LoginOps, GettingPhases
  <1>10. /\ kauth' = g /\ service' \in [Services -> KnownService'] /\ service'[s].grant = g
         /\ \A x \in Services \ {s} : service'[x] = service[x]
    <2>1. /\ service \in [Services -> KnownService] /\ Known \subseteq Known'
          /\ KnownService \subseteq KnownService'
      BY <1>2, <1>5, StillTyped DEF Typed
    <2> QED
      BY <1>1, <1>3, <1>4, <1>6, <2>1, AfterGrantEffect
  <1>11. session' \in KnownSession'
    BY <1>1, <1>5, <1>6, SessionSetTokensEffect, StillTyped
  <1>12. /\ heap' \in [Grants -> KnownGrant'] /\ heap'[g].access # None
         /\ \A x \in Grants : heap[x].access # None => heap'[x].access # None
    <2>1. heap \in [Grants -> KnownGrant']
      BY <1>5, StillTyped
    <2> QED
      BY <1>1, <1>4, <1>6, <2>1
  <1>13. \A x \in {kauth', r.grant} \cup {service'[y].grant : y \in Services} :
           x # None => x \in Grants /\ (heap'[x].access # None \/ x \in Referenced)
    <2>1. \A y \in Services : service[y].grant \in Grants \cup {None}
      BY <1>2 DEF Typed, KnownService, Service
    <2>2. \A y \in Services : service'[y].grant \in {g, service[y].grant}
      BY <1>10
    <2> QED
      BY <1>4, <1>7, <1>10, <1>12, <2>1, <2>2 DEF Referenced
  <1>14. /\ alive' \subseteq Tokens /\ verified' \subseteq Tokens /\ ended' \subseteq Tokens
         /\ stored' \in KnownSession' /\ header' \in Known' /\ roles' \in Known' /\ given' = given
    BY <1>1, <1>5, StillTyped, SameRequest
  <1> QED
    BY <1>1, <1>5, <1>9, <1>10, <1>11, <1>12, <1>13, <1>14, MakeStep

-----------------------------------------------------------------------------
(* The other actions *)

LEMMA NextRequestStep ==
    ASSUME BaseInv, NextRequest
    PROVE  BaseInv'
  <1>1. /\ \A c \in Calls : call[c].service \in Services
        /\ stored \in KnownSession /\ session \in KnownSession /\ None \in Known
        /\ Len(tokens) \in Nat /\ Typed
    BY SameRequest, CallType, GrantServiceAssumption DEF BaseInv, Typed
  <1>2. /\ stored' \in KnownSession /\ session' = Opened(stored')
        /\ header' \in IF Bearers THEN {None, 2} ELSE {None}
        /\ kauth' = None /\ roles' = None /\ verified' = {}
        /\ service' = [s \in Services |-> NewService]
        /\ heap' = [g \in Grants |-> NoGrant]
        /\ call' = [c \in Calls |-> Settled(call[c].service, None)]
        /\ UNCHANGED <<given, tokens, alive, ended>>
    BY <1>1 DEF NextRequest
  <1>3. /\ KnownSession' = KnownSession /\ KnownService' = KnownService
        /\ KnownGrant' = KnownGrant /\ KnownCall' = KnownCall /\ Known' = Known
    BY <1>2 DEF KnownSession, KnownService, KnownGrant, KnownCall, Known
  <1>4. session' \in KnownSession
    <2>1. EmptySession \in KnownSession
      BY <1>1 DEF EmptySession, NoSession, KnownSession, Session
    <2>2. session' \in {EmptySession, stored'}
      BY <1>2 DEF Opened
    <2> QED
      BY <1>2, <2>1, <2>2
  <1>5. header' \in Known
    BY <1>1, <1>2 DEF Typed, Known, None
  <1>6. service' \in [Services -> KnownService]
    BY <1>1, <1>2 DEF NewService, KnownService, Service
  <1>7. heap' \in [Grants -> KnownGrant]
    BY <1>1, <1>2 DEF NoGrant, KnownGrant, Grant
  <1>8. /\ call' \in [Calls -> KnownCall]
        /\ \A c \in Calls : CallFits(call'[c], tokens) /\ call'[c].grant = None
    BY <1>1, <1>2, EndedCall
  <1>9. Typed'
    BY <1>1, <1>2, <1>3, <1>4, <1>5, <1>6, <1>7, <1>8 DEF Typed, given
  <1>10. Referenced' \subseteq {None}
    BY <1>2, <1>8 DEF Referenced, NewService
  <1> QED
    BY <1>2, <1>8, <1>9, <1>10 DEF BaseInv, Filled

\* Expiry changes neither the user nor the Keycloak session of a token.
LEMMA ExpiredStep ==
    ASSUME BaseInv, NEW t \in DOMAIN tokens, NEW pair \in Issued,
           pair.user = tokens[t].user, pair.login = tokens[t].login,
           tokens' = [tokens EXCEPT ![t] = pair],
           UNCHANGED <<given, alive, stored, requestVars, call, histories>>
    PROVE  BaseInv'
  <1>1. /\ tokens' \in Seq(Issued) /\ Len(tokens') = Len(tokens) /\ DOMAIN tokens' = DOMAIN tokens
        /\ OwnersKept
    <2>1. tokens \in Seq(Issued)
      BY DEF BaseInv, Typed
    <2> QED
      BY <2>1, ExceptSeq DEF OwnersKept
  <1>2. /\ KnownSession' = KnownSession /\ KnownService' = KnownService
        /\ KnownGrant' = KnownGrant /\ KnownCall' = KnownCall /\ Known' = Known
    BY <1>1 DEF KnownSession, KnownService, KnownGrant, KnownCall, Known
  <1>3. Typed'
    BY <1>1, <1>2 DEF BaseInv, Typed, requestVars, given, histories
  <1>4. Filled'
    BY DEF BaseInv, Filled, Referenced, requestVars
  <1>5. ASSUME NEW c \in Calls
        PROVE  CallFits(call'[c], tokens')
    <2>1. call'[c] = call[c] /\ CallFits(call[c], tokens)
      BY DEF BaseInv
    <2>2. call[c].token # None => tokens'[call[c].token].login = tokens[call[c].token].login
      BY <1>1, CallType, TokensKnown DEF BaseInv, OwnersKept
    <2> QED
      BY <2>1, <2>2 DEF CallFits, Equipped
  <1> QED
    BY <1>3, <1>4, <1>5 DEF BaseInv

LEMMA ExpireStep ==
    ASSUME BaseInv, Expire \/ ExpireRefresh
    PROVE  BaseInv'
  <1>1. CASE Expire
    <2>1. PICK t \in DOMAIN tokens : tokens' = [tokens EXCEPT ![t] = [@ EXCEPT !.fresh = FALSE]]
      BY <1>1 DEF Expire
    <2> DEFINE pair == [tokens[t] EXCEPT !.fresh = FALSE]
    <2>2. pair \in Issued /\ pair.user = tokens[t].user /\ pair.login = tokens[t].login
      BY TokensKnown DEF BaseInv, Issued
    <2>3. tokens' = [tokens EXCEPT ![t] = pair]
      BY <2>1
    <2> HIDE DEF pair
    <2> QED
      BY <1>1, <2>2, <2>3, ExpiredStep DEF Expire
  <1>2. CASE ExpireRefresh
    <2>1. PICK t \in DOMAIN tokens : tokens' = [tokens EXCEPT ![t] = [@ EXCEPT !.renewable = FALSE]]
      BY <1>2 DEF ExpireRefresh
    <2> DEFINE pair == [tokens[t] EXCEPT !.renewable = FALSE]
    <2>2. pair \in Issued /\ pair.user = tokens[t].user /\ pair.login = tokens[t].login
      BY TokensKnown DEF BaseInv, Issued
    <2>3. tokens' = [tokens EXCEPT ![t] = pair]
      BY <2>1
    <2> HIDE DEF pair
    <2> QED
      BY <1>2, <2>2, <2>3, ExpiredStep DEF ExpireRefresh
  <1> QED
    BY <1>1, <1>2

LEMMA SessionEndsStep ==
    ASSUME BaseInv, SessionEnds
    PROVE  BaseInv'
  <1>1. alive' \subseteq alive /\ UNCHANGED <<given, tokens, stored, requestVars, call, histories>>
    BY DEF SessionEnds
  <1>2. /\ KnownSession' = KnownSession /\ KnownService' = KnownService
        /\ KnownGrant' = KnownGrant /\ KnownCall' = KnownCall /\ Known' = Known
    BY <1>1 DEF KnownSession, KnownService, KnownGrant, KnownCall, Known
  <1>3. Typed'
    BY <1>1, <1>2 DEF BaseInv, Typed, requestVars, given, histories
  <1> QED
    BY <1>1, <1>3 DEF BaseInv, Filled, Referenced, requestVars

-----------------------------------------------------------------------------
(* BaseInv is an invariant *)

LEMMA InitBase == Init => BaseInv
  <1> SUFFICES ASSUME Init
               PROVE  BaseInv
    OBVIOUS
  <1>1. given \in Conditions
    <2>1. PICK condition \in Conditions :
            rotation = condition[1] /\ faults = condition[2] /\ installed = condition[3]
      BY DEF Init
    <2>2. condition \in BOOLEAN \X BOOLEAN \X BOOLEAN
      BY GrantServiceAssumption
    <2>3. given = condition
      BY <2>1, <2>2 DEF given
    <2> QED
      BY <2>3
  <1>2. /\ tokens \in Seq(Issued) /\ Len(tokens) \in {1, 2} /\ (Bearers => Len(tokens) = 2)
        /\ DOMAIN tokens = 1..Len(tokens)
    <2>1. PICK freshOfSession, freshOfBearer \in BOOLEAN :
            tokens = IF Bearers
                     THEN <<Pair(SessionUser, 1, freshOfSession), Pair(BearerUser, 2, freshOfBearer)>>
                     ELSE <<Pair(SessionUser, 1, freshOfSession)>>
      BY DEF Init
    <2> DEFINE x == Pair(SessionUser, 1, freshOfSession)
               y == Pair(BearerUser, 2, freshOfBearer)
    <2>2. 1 \in Tokens /\ 2 \in Tokens
      BY GrantServiceAssumption DEF Tokens
    <2>3. x \in Issued /\ y \in Issued /\ tokens = IF Bearers THEN <<x, y>> ELSE <<x>>
      BY <2>1, <2>2 DEF Issued, Users, Pair
    <2> HIDE DEF x, y
    <2>4. CASE Bearers
      BY <2>3, <2>4
    <2>5. CASE ~Bearers
      BY <2>3, <2>5
    <2> QED
      BY <2>4, <2>5
  <1>3. /\ {0, 1} \subseteq Known /\ (Bearers => 2 \in Known) /\ {1, 2} \subseteq Tokens
        /\ Len(tokens) \in 1..MaxTokens /\ DOMAIN tokens \subseteq Tokens
    <2>1. PICK n \in {1, 2} : n = Len(tokens)
      BY <1>2
    <2>2. MaxTokens \in Nat /\ MaxTokens >= 2
      BY GrantServiceAssumption
    <2>3. /\ n \in 1..MaxTokens /\ {0, 1} \subseteq 0..n /\ (n = 2 => 2 \in 0..n)
          /\ 1..n \subseteq 1..MaxTokens /\ {1, 2} \subseteq 1..MaxTokens
      BY <2>2
    <2>4. Known = 0..n /\ Tokens = 1..MaxTokens /\ DOMAIN tokens = 1..n
      BY <1>2, <2>1 DEF Known, Tokens
    <2> QED
      BY <1>2, <2>1, <2>3, <2>4, Zenon
  <1>4. stored \in KnownSession /\ session \in KnownSession
    <2>1. stored \in {NoSession, [exists |-> TRUE, access |-> 1, refresh |-> 1]}
      BY DEF Init
    <2>2. session \in {EmptySession, stored}
      BY DEF Init, Opened
    <2>3. NoSession \in KnownSession /\ EmptySession \in KnownSession
      BY <1>3 DEF EmptySession, NoSession, KnownSession, Session, None
    <2>4. [exists |-> TRUE, access |-> 1, refresh |-> 1] \in KnownSession
      BY <1>3 DEF KnownSession, Session
    <2> QED
      BY <2>1, <2>2, <2>3, <2>4
  <1>5. header \in Known /\ roles \in Known /\ kauth \in Grants \cup {None}
    BY <1>3 DEF Init, None
  <1>6. service \in [Services -> KnownService] /\ \A s \in Services : service[s].grant = None
    BY <1>3 DEF Init, NewService, KnownService, Service, None
  <1>7. heap \in [Grants -> KnownGrant]
    BY <1>3 DEF Init, NoGrant, KnownGrant, Grant, None
  <1>8. \A s \in Services : /\ Settled(s, None) \in KnownCall /\ CallFits(Settled(s, None), tokens)
                            /\ Settled(s, None).grant = None
    <2>1. None \in Known /\ None \in Tokens \cup {None}
      BY <1>3 DEF None
    <2>2. \A s \in Services : Settled(s, None) \in Call
      BY <2>1 DEF Settled, Call
    <2> QED
      BY <2>1, <2>2 DEF Settled, KnownCall, CallFits, Staged, Equipped, GettingOps, InfoOps,
         LoginOps, GettingPhases
  <1>9. call \in [Calls -> KnownCall] /\ \A c \in Calls : CallFits(call[c], tokens) /\ call[c].grant = None
    BY <1>8 DEF Init
  <1>10. Typed
    <2>1. alive \subseteq Tokens /\ verified \subseteq Tokens /\ ended \subseteq Tokens
      BY <1>3 DEF Init
    <2> QED
      BY <1>1, <1>2, <1>3, <1>4, <1>5, <1>6, <1>7, <1>9, <2>1 DEF Typed
  <1>11. Referenced \subseteq {None}
    BY <1>6, <1>9 DEF Referenced, Init
  <1> QED
    BY <1>9, <1>10, <1>11 DEF BaseInv, Filled

LEMMA BeginStep ==
    ASSUME BaseInv, NEW c \in Calls, Begin(c)
    PROVE  BaseInv'
  BY CallGetGrantStep, CallLoginStep, CallRefreshTokenGrantStep, CallLogoutStep DEF Begin

LEMMA ContinueStep ==
    ASSUME BaseInv, NEW c \in Calls, Continue(c)
    PROVE  BaseInv'
  <1>1. CASE ResolveShared(c)
    BY <1>1, ResolveSharedStep
  <1>2. CASE ResolveTokens(c)
    BY <1>2, ResolveTokensStep
  <1>3. CASE ResolveNothing(c)
    BY <1>3, GetsNothingStep DEF ResolveNothing
  <1>4. CASE Refreshed(c)
    BY <1>4, RefreshedStep
  <1>5. CASE RefreshRefused(c)
    BY <1>5, FailsStep DEF RefreshRefused
  <1>6. CASE Validated(c)
    BY <1>6, ValidatedStep
  <1>7. CASE Invalid(c)
    BY <1>7, FailsStep DEF Invalid
  <1>8. CASE SetRoles(c)
    BY <1>8, SetRolesStep
  <1>9. CASE FinishCleared(c)
    BY <1>9, GetsNothingStep DEF FinishCleared
  <1>10. CASE FinishGrant(c)
    BY <1>10, FinishGrantStep
  <1>11. CASE FetchedUserInfo(c)
    BY <1>11, FetchedUserInfoStep
  <1>12. CASE NoUserInfo(c)
    BY <1>12, FailedStep DEF NoUserInfo
  <1>13. CASE Exchanged(c)
    BY <1>13, ExchangedStep
  <1>14. CASE ExchangeRefused(c)
    BY <1>14, FailedStep DEF ExchangeRefused
  <1>15. CASE Revoked(c)
    BY <1>15, RevokedStep
  <1>16. CASE RevocationFails(c)
    BY <1>16, RevocationFailsStep
  <1>17. CASE ClearSession(c)
    BY <1>17, ClearSessionStep
  <1>18. CASE Destroyed(c)
    BY <1>18, DestroyedStep
  <1>19. CASE DestroyFails(c)
    BY <1>19, FailedStep DEF DestroyFails
  <1>20. CASE RefreshLost(c)
    BY <1>20, RefreshLostStep
  <1>21. CASE LookedValid(c)
    BY <1>21, LookedValidStep
  <1>22. CASE Built(c)
    BY <1>22, BuiltStep
  <1>23. CASE BuildFails(c)
    BY <1>23, FailedStep DEF BuildFails
  <1> QED
    BY <1>1, <1>2, <1>3, <1>4, <1>5, <1>6, <1>7, <1>8, <1>9, <1>10, <1>11, <1>12, <1>13, <1>14,
       <1>15, <1>16, <1>17, <1>18, <1>19, <1>20, <1>21, <1>22, <1>23 DEF Continue

LEMMA BaseStep == BaseInv /\ [Next]_vars => BaseInv'
  <1> SUFFICES ASSUME BaseInv, [Next]_vars
               PROVE  BaseInv'
    OBVIOUS
  <1>1. ASSUME NEW c \in Calls, Begin(c) \/ Continue(c)
        PROVE  BaseInv'
    BY <1>1, BeginStep, ContinueStep
  <1>2. CASE UNCHANGED vars
    BY <1>2 DEF vars, requestVars, given, histories, BaseInv, Typed, Filled, Referenced, Known,
       KnownSession, KnownService, KnownGrant, KnownCall
  <1> QED
    BY <1>1, <1>2, NextRequestStep, ExpireStep, SessionEndsStep DEF Next

\* Whatever calls overlap, no reference dangles and every call has at hand
\* what its next step uses.
THEOREM GrantInvariant == Spec => []BaseInv
  BY InitBase, BaseStep, PTL DEF Spec

\* The state of the service is what its types say, whatever calls overlap.
THEOREM GrantTypeCorrect == Spec => []TypeOK
  <1>1. BaseInv => TypeOK
    <2> SUFFICES ASSUME BaseInv
                 PROVE  TypeOK
      OBVIOUS
    <2>1. Known \subseteq Tokens \cup {None}
      BY GrantServiceAssumption DEF BaseInv, Typed, Known, Tokens, None
    <2>2. /\ KnownSession \subseteq Session /\ KnownService \subseteq Service
          /\ KnownGrant \subseteq Grant /\ KnownCall \subseteq Call
      BY DEF KnownSession, KnownService, KnownGrant, KnownCall
    <2> QED
      BY <2>1, <2>2 DEF BaseInv, Typed, TypeOK
  <1> QED
    BY <1>1, GrantInvariant, PTL

-----------------------------------------------------------------------------
(* What a step does to the call that takes it and to what the request shares *)

LEMMA GoesEffect ==
    ASSUME Typed, NEW c \in Calls, NEW r, Goes(c, r)
    PROVE  call'[c] = r /\ \A d \in Calls \ {c} : call'[d] = call[d]
  BY DEF Typed, Goes

\* A step that only moves the call on to another phase
LEMMA EntersEffect ==
    ASSUME Typed, NEW c \in Calls, NEW phase, Enters(c, phase)
    PROVE  /\ call'[c].phase = phase /\ call'[c].op = call[c].op
           /\ call'[c].grant = call[c].grant /\ call'[c].token = call[c].token
           /\ call'[c].logins = call[c].logins /\ call'[c].service = call[c].service
           /\ \A d \in Calls \ {c} : call'[d] = call[d]
  <1>1. call[c] \in Call
    BY CallType DEF KnownCall
  <1>2. call' = [call EXCEPT ![c] = [call[c] EXCEPT !.phase = phase]]
    BY DEF Enters, Goes
  <1> QED
    BY <1>1, <1>2 DEF Typed, Call

\* Resolving ends in a phase that uses the grant, which is the request's, or
\* made of its tokens.
LEMMA ResolveSharedEffect ==
    ASSUME BaseInv, NEW c \in Calls, ResolveShared(c)
    PROVE  /\ call'[c].phase = RenewalDue(heap[kauth]) /\ call'[c].grant = kauth
           /\ call'[c].op = call[c].op /\ call'[c].phase \in {"refresh", "validate"}
           /\ \A d \in Calls \ {c} : call'[d] = call[d]
  <1>1. call[c] \in Call
    BY CallType DEF BaseInv, KnownCall
  <1>2. call' = [call EXCEPT ![c] =
                   [call[c] EXCEPT !.phase = RenewalDue(heap[kauth]), !.grant = kauth,
                                   !.token = heap[kauth].refresh]]
    BY DEF ResolveShared, Goes
  <1>3. RenewalDue(heap[kauth]) \in {"refresh", "validate"}
    BY DEF RenewalDue
  <1> QED
    BY <1>1, <1>2, <1>3 DEF BaseInv, Typed, Call

LEMMA ResolveTokensEffect ==
    ASSUME BaseInv, NEW c \in Calls, ResolveTokens(c)
    PROVE  /\ NewGrant \in Grants /\ NewGrant \notin Referenced
           /\ call'[c].phase = RenewalDue(heap'[NewGrant]) /\ call'[c].grant = NewGrant
           /\ call'[c].op = call[c].op /\ call'[c].phase \in {"refresh", "validate"}
           /\ \A d \in Calls \ {c} : call'[d] = call[d]
           /\ \A g \in Grants \ {NewGrant} : heap'[g] = heap[g]
           /\ \A s \in Services : /\ service'[s].grant = service[s].grant
                                  /\ service'[s].userInfo = service[s].userInfo
  <1> DEFINE s == call[c].service
             grant == [access  |-> AccessToken(s),
                       refresh |-> IF EnsureFreshness THEN RefreshToken(s) ELSE None]
             fields == [service[s] EXCEPT !.access = AccessToken(s), !.refresh = RefreshToken(s)]
             r == [call[c] EXCEPT !.phase = RenewalDue(grant), !.grant = NewGrant,
                                  !.token = grant.refresh]
  <1>1. /\ kauth = None /\ heap' = [heap EXCEPT ![NewGrant] = grant]
        /\ service' = [service EXCEPT ![s] = fields] /\ Goes(c, r) /\ tokens' = tokens
    BY DEF ResolveTokens
  <1>2. /\ call[c] \in Call /\ s \in Services /\ service[s] \in Service /\ Typed
        /\ service \in [Services -> KnownService] /\ heap \in [Grants -> KnownGrant]
    BY CallType DEF BaseInv, Typed, KnownCall, KnownService
  <1>3. NewGrant \in Grants /\ NewGrant \notin Referenced
    BY <1>1, <1>2, NewGrantIsNew
  <1>4. heap'[NewGrant] = grant /\ \A g \in Grants \ {NewGrant} : heap'[g] = heap[g]
    BY <1>1, <1>2, <1>3
  <1> HIDE DEF grant
  <1>5. RenewalDue(grant) \in {"refresh", "validate"}
    BY DEF RenewalDue
  <1>6. r.phase = RenewalDue(grant) /\ r.grant = NewGrant /\ r.op = call[c].op
    BY <1>2 DEF Call
  <1>7. fields.grant = service[s].grant /\ fields.userInfo = service[s].userInfo
    BY <1>2 DEF Service
  <1> HIDE DEF r, fields, s
  <1>8. call'[c] = r /\ \A d \in Calls \ {c} : call'[d] = call[d]
    BY <1>1, <1>2, GoesEffect
  <1>9. \A x \in Services : /\ service'[x].grant = service[x].grant
                            /\ service'[x].userInfo = service[x].userInfo
    BY <1>1, <1>2, <1>7
  <1>10. RenewalDue(heap'[NewGrant]) = RenewalDue(grant)
    BY <1>4
  <1> QED
    BY <1>3, <1>4, <1>5, <1>6, <1>8, <1>9, <1>10

LEMMA RefreshedEffect ==
    ASSUME BaseInv, NEW c \in Calls, Refreshed(c)
    PROVE  /\ call[c].grant \in Grants
           /\ heap'[call[c].grant] = [access |-> NewToken, refresh |-> NewToken]
           /\ \A g \in Grants \ {call[c].grant} : heap'[g] = heap[g]
           /\ tokens'[NewToken].fresh /\ tokens'[NewToken].spent = FALSE
           /\ tokens'[NewToken].login = tokens[call[c].token].login /\ call[c].token \in DOMAIN tokens
           /\ DOMAIN tokens' = DOMAIN tokens \cup {NewToken}
           /\ OwnersKept
           /\ \A t \in DOMAIN tokens : /\ tokens'[t].fresh = tokens[t].fresh
                                       /\ ~rotation => tokens'[t] = tokens[t]
           /\ call'[c].phase = "validate" /\ call'[c].op = call[c].op
           /\ call'[c].grant = call[c].grant
           /\ \A d \in Calls \ {c} : call'[d] = call[d]
  <1> DEFINE user == tokens[call[c].token].user
             login == tokens[call[c].token].login
  <1>1. /\ call[c].phase = "refresh" /\ Issue(user, login, call[c].token)
        /\ heap' = [heap EXCEPT ![call[c].grant] = [access |-> NewToken, refresh |-> NewToken]]
        /\ Enters(c, "validate") /\ Typed
    BY DEF Refreshed, BaseInv
  <1>2. /\ call[c].grant \in Grants /\ call[c].token \in DOMAIN tokens
        /\ user \in Users /\ login \in Tokens
    BY <1>1, CallType, TokensKnown DEF BaseInv, CallFits, Equipped
  <1>3. heap \in [Grants -> KnownGrant]
    BY DEF BaseInv, Typed
  <1>4. /\ DOMAIN tokens' = DOMAIN tokens \cup {NewToken}
        /\ OwnersKept
        /\ \A t \in DOMAIN tokens : /\ tokens'[t].fresh = tokens[t].fresh
                                    /\ ~rotation => tokens'[t] = tokens[t]
        /\ tokens'[NewToken] = Pair(user, login, TRUE)
    BY <1>1, <1>2, IssueEffect
  <1>5. /\ tokens'[NewToken].fresh /\ tokens'[NewToken].spent = FALSE
        /\ tokens'[NewToken].login = login
    BY <1>4 DEF Pair
  <1>6. /\ heap'[call[c].grant] = [access |-> NewToken, refresh |-> NewToken]
        /\ \A g \in Grants \ {call[c].grant} : heap'[g] = heap[g]
    BY <1>1, <1>2, <1>3
  <1>7. /\ call'[c].phase = "validate" /\ call'[c].op = call[c].op
        /\ call'[c].grant = call[c].grant /\ \A d \in Calls \ {c} : call'[d] = call[d]
    BY <1>1, EntersEffect
  <1> QED
    BY <1>2, <1>4, <1>5, <1>6, <1>7

LEMMA ExchangedEffect ==
    ASSUME BaseInv, NEW c \in Calls, Exchanged(c)
    PROVE  /\ tokens'[NewToken].spent = FALSE
           /\ DOMAIN tokens' = DOMAIN tokens \cup {NewToken} /\ NewToken \notin DOMAIN tokens
           /\ NewToken # None
           /\ OwnersKept
           /\ \A t \in DOMAIN tokens : /\ tokens'[t].fresh = tokens[t].fresh
                                       /\ ~rotation => tokens'[t] = tokens[t]
           /\ call'[c].phase = "build" /\ call'[c].token = NewToken
           /\ \A d \in Calls \ {c} : call'[d] = call[d]
           /\ UNCHANGED <<given, stored, requestVars, histories>>
           /\ tokens'[NewToken].login \in alive \cup {NewToken}
           /\ alive' = alive \cup {tokens'[NewToken].login}
  <1> DEFINE r == [call[c] EXCEPT !.phase = "build", !.token = NewToken]
  <1>1. /\ Goes(c, r) /\ call[c] \in Call /\ Typed /\ alive \subseteq Tokens
        /\ UNCHANGED <<given, stored, requestVars, histories>>
    BY CallType DEF Exchanged, BaseInv, KnownCall, Typed
  <1>2. PICK user \in Users, login \in alive \cup {NewToken} :
          Issue(user, login, call[c].token) /\ alive' = alive \cup {login}
    BY DEF Exchanged
  <1>3. NewToken \in Tokens
    BY <1>1, <1>2, GrantServiceAssumption DEF Issue, NewToken, Tokens, Typed
  <1>4. /\ DOMAIN tokens' = DOMAIN tokens \cup {NewToken} /\ NewToken \notin Known
        /\ NewToken # None
        /\ OwnersKept
        /\ \A t \in DOMAIN tokens : /\ tokens'[t].fresh = tokens[t].fresh
                                    /\ ~rotation => tokens'[t] = tokens[t]
        /\ tokens'[NewToken] = Pair(user, login, TRUE)
    BY <1>1, <1>2, <1>3, IssueEffect
  <1>5. tokens'[NewToken].spent = FALSE /\ tokens'[NewToken].login = login
    BY <1>4 DEF Pair
  <1>6. NewToken \notin DOMAIN tokens
    BY <1>1, <1>4, TokensKnown
  <1>7. r.phase = "build" /\ r.token = NewToken
    BY <1>1 DEF Call
  <1> HIDE DEF r
  <1>8. call'[c] = r /\ \A d \in Calls \ {c} : call'[d] = call[d]
    BY <1>1, GoesEffect
  <1> QED
    BY <1>1, <1>2, <1>4, <1>5, <1>6, <1>7, <1>8

LEMMA BuiltEffect ==
    ASSUME BaseInv, NEW c \in Calls, Built(c)
    PROVE  /\ NewGrant \in Grants /\ NewGrant \notin Referenced
           /\ heap'[NewGrant].access = call[c].token
           /\ \A g \in Grants \ {NewGrant} : heap'[g] = heap[g]
           /\ kauth' = NewGrant
           /\ service'[call[c].service].grant = NewGrant
           /\ service'[call[c].service].access = call[c].token
           /\ service'[call[c].service].userInfo = {}
           /\ \A x \in Services \ {call[c].service} : service'[x] = service[x]
           /\ call'[c].phase = "roles" /\ call'[c].op = call[c].op
           /\ call'[c].grant = NewGrant
           /\ \A d \in Calls \ {c} : call'[d] = call[d]
           /\ session'.access \in {session.access, call[c].token}
           /\ session'.refresh \in {session.refresh, call[c].token, None}
           /\ ~session.exists => session' = session
           /\ verified' = verified \cup {call[c].token}
           /\ UNCHANGED <<given, tokens, alive, stored, roles, ended>>
  <1> DEFINE token == call[c].token
             grant == Granted(call[c].op, token)
             s == call[c].service
             r == [call[c] EXCEPT !.phase = "roles", !.grant = NewGrant]
  <1>1. /\ call[c].phase = "build" /\ SessionSetTokens(call[c].op, grant)
        /\ heap' = [heap EXCEPT ![NewGrant] = grant] /\ AfterGrant(s, NewGrant, grant) /\ Goes(c, r)
        /\ verified' = verified \cup {token}
        /\ UNCHANGED <<given, tokens, alive, stored, roles, ended>>
    BY DEF Built
  <1>2. /\ call[c] \in Call /\ token \in Known /\ token \in Tokens \cup {None}
        /\ Typed /\ s \in Services /\ call[c].grant = None /\ None \in Known
        /\ service \in [Services -> KnownService] /\ heap \in [Grants -> KnownGrant]
        /\ session \in KnownSession
    BY <1>1, CallType, SameRequest DEF BaseInv, Typed, KnownCall, Call, CallFits, Equipped
  <1>3. NewGrant \in Grants /\ NewGrant \notin Referenced
    BY <1>2, NewGrantIsNew
  <1>4. Known' = Known /\ KnownService' = KnownService /\ KnownGrant' = KnownGrant /\ KnownSession' = KnownSession
    BY <1>1 DEF Known, KnownService, KnownGrant, KnownSession
  <1>5. grant \in KnownGrant /\ grant.access = token /\ grant.refresh \in {token, None}
    BY <1>2 DEF Granted, KnownGrant, Grant
  <1>6. r.phase = "roles" /\ r.op = call[c].op /\ r.grant = NewGrant
    BY <1>2 DEF Call
  <1> HIDE DEF grant, r, token
  <1>7. /\ kauth' = NewGrant /\ service'[s].grant = NewGrant /\ service'[s].access = token
        /\ service'[s].userInfo = {} /\ \A x \in Services \ {s} : service'[x] = service[x]
    BY <1>1, <1>2, <1>3, <1>4, <1>5, AfterGrantEffect
  <1>8. /\ session'.access \in {session.access, token}
        /\ session'.refresh \in {session.refresh, token, None}
        /\ ~session.exists => session' = session
    BY <1>1, <1>2, <1>4, <1>5, SessionSetTokensEffect
  <1>9. call'[c] = r /\ \A d \in Calls \ {c} : call'[d] = call[d]
    BY <1>1, <1>2, GoesEffect
  <1>10. heap'[NewGrant] = grant /\ \A g \in Grants \ {NewGrant} : heap'[g] = heap[g]
    BY <1>1, <1>2, <1>3
  <1> QED
    BY <1>1, <1>3, <1>5, <1>6, <1>7, <1>8, <1>9, <1>10 DEF token

LEMMA ValidatedEffect ==
    ASSUME BaseInv, NEW c \in Calls, Validated(c)
    PROVE  /\ kauth' = call[c].grant /\ call[c].grant \in Grants
           /\ service'[call[c].service].grant = call[c].grant
           /\ service'[call[c].service].access = heap[call[c].grant].access
           /\ service'[call[c].service].userInfo = {}
           /\ \A x \in Services \ {call[c].service} : service'[x] = service[x]
           /\ call'[c].phase = "roles" /\ call'[c].op = call[c].op
           /\ call'[c].grant = call[c].grant
           /\ \A d \in Calls \ {c} : call'[d] = call[d]
  <1> DEFINE s == call[c].service
             g == call[c].grant
  <1>1. /\ call[c].phase = "verify" /\ AfterGrant(s, g, heap[g]) /\ Enters(c, "roles")
        /\ tokens' = tokens
    BY DEF Validated
  <1>2. /\ Typed /\ s \in Services /\ g \in Grants
        /\ service \in [Services -> KnownService] /\ heap[g] \in KnownGrant
    BY <1>1, CallType DEF BaseInv, Typed, CallFits, Equipped
  <1>3. Known' = Known /\ KnownService' = KnownService /\ KnownGrant' = KnownGrant
    BY <1>1 DEF Known, KnownService, KnownGrant
  <1>4. heap[g] \in KnownGrant' /\ Known \subseteq Known' /\ KnownService \subseteq KnownService'
    BY <1>2, <1>3
  <1>5. /\ kauth' = g /\ service'[s].grant = g /\ service'[s].access = heap[g].access
        /\ service'[s].userInfo = {} /\ \A x \in Services \ {s} : service'[x] = service[x]
    BY <1>1, <1>2, <1>4, AfterGrantEffect
  <1>6. /\ call'[c].phase = "roles" /\ call'[c].op = call[c].op
        /\ call'[c].grant = g /\ \A d \in Calls \ {c} : call'[d] = call[d]
    BY <1>1, <1>2, EntersEffect
  <1> QED
    BY <1>2, <1>5, <1>6

\* One call moves at a time.
LEMMA OneCallMoves ==
    ASSUME BaseInv, NEW c \in Calls, Begin(c) \/ Continue(c)
    PROVE  \A d \in Calls \ {c} : call'[d] = call[d]
  <1>1. Typed
    BY DEF BaseInv
  <1>2. SUFFICES \E r : Goes(c, r)
    BY <1>1, GoesEffect
  <1>3. CASE Begin(c)
    <2>1. PICK s \in Services : \/ CallGetGrant(c, s) \/ CallLogin(c, s)
                                \/ CallRefreshTokenGrant(c, s) \/ CallLogout(c, s)
      BY <1>3 DEF Begin
    <2> QED
      BY <2>1 DEF CallGetGrant, StartGrant, CallLogin, CallRefreshTokenGrant, CallLogout
  <1>4. CASE FinishGrant(c)
    BY <1>4, FinishGrantEffect DEF StartGrant
  <1>5. CASE SetRoles(c)
    BY <1>5 DEF SetRoles, Enters
  <1>6. CASE Continue(c) /\ ~FinishGrant(c) /\ ~SetRoles(c)
    BY <1>6 DEF Continue, ResolveShared, ResolveTokens, ResolveNothing, Refreshed, RefreshRefused,
       RefreshLost, LookedValid, Validated, Invalid, FinishCleared, FetchedUserInfo, NoUserInfo,
       Exchanged, ExchangeRefused, Built, BuildFails, Revoked, RevocationFails, ClearSession,
       Destroyed, DestroyFails, GetsNothing, Fails, Enters
  <1> QED
    BY <1>3, <1>4, <1>5, <1>6

\* Expiry is all that befalls a token in a step of the environment.
LEMMA ExpiresEffect ==
    ASSUME Typed, Expire \/ ExpireRefresh
    PROVE  /\ DOMAIN tokens' = DOMAIN tokens /\ OwnersKept
           /\ \A t \in DOMAIN tokens : tokens'[t].spent = tokens[t].spent
  <1>1. PICK t \in DOMAIN tokens :
          \/ tokens' = [tokens EXCEPT ![t] = [tokens[t] EXCEPT !.fresh = FALSE]]
          \/ tokens' = [tokens EXCEPT ![t] = [tokens[t] EXCEPT !.renewable = FALSE]]
    BY DEF Expire, ExpireRefresh
  <1>2. \A pair \in {[tokens[t] EXCEPT !.fresh = FALSE], [tokens[t] EXCEPT !.renewable = FALSE]} :
          pair.user = tokens[t].user /\ pair.login = tokens[t].login /\ pair.spent = tokens[t].spent
    BY TokensKnown DEF Issued
  <1>3. PICK pair : /\ tokens' = [tokens EXCEPT ![t] = pair] /\ pair.user = tokens[t].user
                    /\ pair.login = tokens[t].login /\ pair.spent = tokens[t].spent
    BY <1>1, <1>2
  <1> QED
    BY <1>3 DEF OwnersKept

\* How a call of getGrant in flight ends
EndsEmpty(c) ==
    /\ call[c].op \in GettingOps /\ InFlight(c)
    /\ call'[c].phase = "failed" \/ (call'[c].phase = "settled" /\ call'[c].token = None)

LEMMA EndedEmpty ==
    ASSUME BaseInv, [Next]_vars, NEW c \in Calls, EndsEmpty(c)
    PROVE  ClearGrant(call[c].service)
  <1>1. /\ call[c].phase \in GettingPhases /\ call[c].op \notin InfoOps
        /\ call[c].op \notin LoginOps \cup {"refreshTokenGrant"}
        /\ call'[c] # call[c] /\ Typed /\ call[c].service \in Services /\ None \in Known
    <2>1. /\ call[c].op \in GettingOps /\ Staged(call[c]) /\ Typed /\ call[c].service \in Services
          /\ None \in Known
      BY CallType, SameRequest DEF EndsEmpty, BaseInv, CallFits
    <2>2. call'[c].phase \notin GettingPhases
      BY DEF EndsEmpty, GettingPhases
    <2> QED
      BY <2>1, <2>2 DEF Staged, GettingOps, InfoOps, LoginOps
  <1>2. Continue(c)
    <2>1. InFlight(c)
      BY DEF EndsEmpty
    <2>2. ~NextRequest /\ ~Begin(c)
      BY <2>1 DEF NextRequest, Begin
    <2>3. ~Expire /\ ~ExpireRefresh /\ ~SessionEnds /\ ~(UNCHANGED vars)
      BY <1>1 DEF Expire, ExpireRefresh, SessionEnds, vars
    <2>4. \A d \in Calls \ {c} : ~(Begin(d) \/ Continue(d))
      BY <1>1, OneCallMoves
    <2> QED
      BY <2>2, <2>3, <2>4 DEF Next
  <1>3. CASE ResolveShared(c)
    BY <1>3, ResolveSharedEffect DEF EndsEmpty
  <1>4. CASE ResolveTokens(c)
    BY <1>4, ResolveTokensEffect DEF EndsEmpty
  <1>5. CASE Refreshed(c)
    BY <1>5, RefreshedEffect DEF EndsEmpty
  <1>6. CASE Validated(c)
    BY <1>6, ValidatedEffect DEF EndsEmpty
  <1>7. CASE SetRoles(c)
    <2>1. Enters(c, "finish")
      BY <1>1, <1>7 DEF SetRoles
    <2> QED
      BY <1>1, <2>1, EntersEffect DEF EndsEmpty
  <1>8. CASE FinishGrant(c)
    <2> DEFINE token == heap[service[call[c].service].grant].access
    <2>1. Goes(c, Settled(call[c].service, token)) /\ service[call[c].service].grant # None
      BY <1>1, <1>8, FinishGrantEffect
    <2>2. token \in Known /\ token # None
      BY <1>1, <2>1, CachedToken
    <2>3. call'[c] = Settled(call[c].service, token)
      BY <1>1, <2>1, GoesEffect
    <2>4. call'[c].phase = "settled" /\ call'[c].token # None
      BY <1>1, <2>2, <2>3, EndedCall
    <2> QED
      BY <2>4 DEF EndsEmpty
  <1>9. CASE \/ ResolveNothing(c) \/ FinishCleared(c) \/ RefreshRefused(c) \/ RefreshLost(c)
             \/ Invalid(c)
    BY <1>9 DEF ResolveNothing, FinishCleared, RefreshRefused, RefreshLost, Invalid, GetsNothing, Fails
  <1>10. CASE \/ FetchedUserInfo(c) \/ NoUserInfo(c) \/ Exchanged(c) \/ ExchangeRefused(c)
              \/ Built(c) \/ BuildFails(c)
              \/ Revoked(c) \/ RevocationFails(c) \/ ClearSession(c) \/ Destroyed(c) \/ DestroyFails(c)
    BY <1>1, <1>10 DEF FetchedUserInfo, NoUserInfo, Exchanged, ExchangeRefused, Built, BuildFails,
       Revoked, RevocationFails, ClearSession, Destroyed, DestroyFails, GettingPhases
  <1>11. CASE LookedValid(c)
    <2>1. Enters(c, "verify")
      BY <1>11 DEF LookedValid
    <2> QED
      BY <1>1, <2>1, EntersEffect DEF EndsEmpty
  <1> QED
    BY <1>2, <1>3, <1>4, <1>5, <1>6, <1>7, <1>8, <1>9, <1>10, <1>11 DEF Continue

\* A failed getGrant leaves nobody signed in: whatever other calls do meanwhile,
\* the step with which it fails or finds nothing clears the grant of its service
\* and of the request, and the roles of the request.
THEOREM FailedGrantsClear == Spec => FailureClears
  <1>1. ASSUME BaseInv, [Next]_vars, NEW c \in Calls, EndsEmpty(c)
        PROVE  /\ service'[call[c].service].grant = None /\ kauth' = None /\ roles' = None
    <2>1. call[c].service \in Services /\ Typed
      BY <1>1, CallType DEF BaseInv
    <2> QED
      BY <1>1, <2>1, EndedEmpty, ClearGrantEffect
  <1>2. BaseInv /\ [Next]_vars =>
          [\A c \in Calls :
             LET s == call[c].service IN
             (/\ call[c].op \in {"getGrant", "forceGrant"}
              /\ call'[c].phase = "failed" \/ (call'[c].phase = "settled" /\ call'[c].token = None)
              /\ InFlight(c))
             => service'[s].grant = None /\ kauth' = None /\ roles' = None]_vars
    BY <1>1 DEF EndsEmpty, GettingOps
  <1> QED
    BY <1>2, GrantInvariant, PTL DEF Spec, FailureClears

-----------------------------------------------------------------------------
(* One service: what it has cached is what the request shares *)

\* Steps that leave the grant and its tokens alone, and no validation
LEMMA CacheKept ==
    ASSUME CacheInv, NEW c \in Calls, call[c].phase \notin {"validate", "verify"},
           \A d \in Calls \ {c} : call'[d] = call[d],
           UNCHANGED <<kauth, heap>>,
           \A s \in Services : /\ service'[s].grant = service[s].grant
                               /\ service'[s].access = service[s].access
    PROVE  CacheInv'
  <1> SUFFICES ASSUME NEW s \in Services, kauth # None, service[s].access # heap[kauth].access
               PROVE  \E d \in Calls : call'[d].phase \in {"validate", "verify"} /\ call'[d].grant = kauth
    BY DEF CacheInv
  <1>1. PICK d \in Calls : call[d].phase \in {"validate", "verify"} /\ call[d].grant = kauth
    BY DEF CacheInv
  <1> QED
    BY <1>1

\* No grant, or one that the service has adopted with its access token
LEMMA CacheSet ==
    ASSUME NEW s, Services = {s}, service'[s].grant = kauth',
           kauth' # None => service'[s].access = heap'[kauth'].access
    PROVE  CacheInv'
  BY DEF CacheInv

LEMMA CacheStep ==
    ASSUME NEW s, Services = {s}, BaseInv, CacheInv, [Next]_vars
    PROVE  CacheInv'
  <1>1. ASSUME NEW c \in Calls
        PROVE  call[c].service = s /\ Typed /\ s \in Services
    BY CallType DEF BaseInv
  <1>2. ASSUME NEW c \in Calls, Begin(c)
        PROVE  CacheInv'
    <2>1. /\ UNCHANGED requestVars /\ call[c].phase \notin {"validate", "verify"}
          /\ \A d \in Calls \ {c} : call'[d] = call[d]
      BY <1>2, OneCallMoves DEF Begin, CallGetGrant, CallLogin, CallRefreshTokenGrant, CallLogout,
         InFlight
    <2> QED
      BY <2>1, CacheKept DEF requestVars, histories
  <1>3. ASSUME NEW c \in Calls, Continue(c)
        PROVE  CacheInv'
    <2>1. CASE ClearGrant(call[c].service)
      BY <1>1, <2>1, ClearGrantEffect, CacheSet
    <2>2. CASE \/ ResolveNothing(c) \/ RefreshRefused(c) \/ RefreshLost(c) \/ Invalid(c)
               \/ FinishCleared(c) \/ ClearSession(c)
      BY <2>1, <2>2 DEF ResolveNothing, RefreshRefused, RefreshLost, Invalid, FinishCleared,
         ClearSession, GetsNothing, Fails
    <2>3. CASE Validated(c)
      <3>1. /\ service'[s].grant = call[c].grant /\ kauth' = call[c].grant
            /\ service'[s].access = heap[call[c].grant].access /\ heap' = heap
        BY <1>1, <2>3, ValidatedEffect DEF Validated
      <3> QED
        BY <3>1, CacheSet
    <2>4. CASE Built(c)
      <3>1. /\ service'[s].grant = NewGrant /\ kauth' = NewGrant
            /\ service'[s].access = call[c].token /\ heap'[NewGrant].access = call[c].token
        <4>1. /\ service'[call[c].service].grant = NewGrant /\ kauth' = NewGrant
              /\ service'[call[c].service].access = call[c].token
              /\ heap'[NewGrant].access = call[c].token
          BY <2>4, BuiltEffect
        <4> QED
          BY <1>1, <4>1
      <3> QED
        BY <3>1, CacheSet
    <2>5. CASE ResolveTokens(c)
      <3>1. kauth = None /\ kauth' = None /\ service'[s].grant = service[s].grant
        BY <1>1, <2>5, ResolveTokensEffect DEF ResolveTokens
      <3>2. service[s].grant = kauth
        BY DEF CacheInv
      <3> QED
        BY <3>1, <3>2, CacheSet
    <2>6. CASE Refreshed(c)
      <3>1. /\ UNCHANGED <<kauth, service>> /\ call[c].phase = "refresh"
            /\ \A g \in Grants \ {call[c].grant} : heap'[g] = heap[g]
            /\ call'[c].phase = "validate" /\ call'[c].grant = call[c].grant
            /\ \A d \in Calls \ {c} : call'[d] = call[d]
        BY <2>6, RefreshedEffect DEF Refreshed
      <3>2. service[s].grant = kauth /\ kauth \in Grants \cup {None}
        BY DEF CacheInv, BaseInv, Typed
      <3>3. CASE kauth = call[c].grant
        BY <3>1, <3>2, <3>3 DEF CacheInv
      <3>4. CASE kauth # call[c].grant
        <4>1. SUFFICES ASSUME kauth # None, service[s].access # heap'[kauth].access
                       PROVE  \E d \in Calls : call'[d].phase \in {"validate", "verify"} /\ call'[d].grant = kauth
          BY <3>1, <3>2 DEF CacheInv
        <4>2. heap'[kauth] = heap[kauth]
          BY <3>1, <3>2, <3>4, <4>1
        <4>3. PICK d \in Calls : call[d].phase \in {"validate", "verify"} /\ call[d].grant = kauth
          BY <4>1, <4>2 DEF CacheInv
        <4>4. d # c
          BY <3>1, <4>3
        <4> QED
          BY <3>1, <4>3, <4>4
      <3> QED
        BY <3>3, <3>4
    <2>7. CASE FetchedUserInfo(c)
      <3>1. /\ service \in [Services -> KnownService] /\ service[s] \in Service
            /\ UNCHANGED <<kauth, heap>> /\ call[c].phase \notin {"validate", "verify"}
            /\ service' = [service EXCEPT ![s] =
                 [service[s] EXCEPT !.userInfo = UserInfo(call[c].token)]]
        BY <1>1, <2>7 DEF FetchedUserInfo, Typed, KnownService
      <3>2. service'[s].grant = service[s].grant /\ service'[s].access = service[s].access
        BY <3>1 DEF Service
      <3> QED
        BY <1>3, <3>1, <3>2, OneCallMoves, CacheKept
    <2>8. CASE FinishGrant(c)
      <3>1. UNCHANGED requestVars /\ call[c].phase \notin {"validate", "verify"}
        BY <2>8, FinishGrantEffect
      <3> QED
        BY <1>3, <3>1, OneCallMoves, CacheKept DEF requestVars, histories
    <2>9. CASE \/ ResolveShared(c) \/ SetRoles(c) \/ NoUserInfo(c) \/ Exchanged(c)
               \/ ExchangeRefused(c) \/ BuildFails(c) \/ Revoked(c) \/ RevocationFails(c) \/ Destroyed(c) \/ DestroyFails(c)
      <3>1. UNCHANGED <<kauth, heap, service>> /\ call[c].phase \notin {"validate", "verify"}
        BY <2>9 DEF ResolveShared, SetRoles, NoUserInfo, Exchanged, ExchangeRefused, BuildFails,
           Revoked, RevocationFails, Destroyed, DestroyFails, requestVars
      <3> QED
        BY <1>3, <3>1, OneCallMoves, CacheKept
    <2>10. CASE LookedValid(c)
      <3>1. UNCHANGED <<kauth, heap, service>> /\ Enters(c, "verify")
        BY <2>10 DEF LookedValid, requestVars
      <3>2. /\ call'[c].phase = "verify" /\ call'[c].grant = call[c].grant
            /\ \A d \in Calls \ {c} : call'[d] = call[d]
        BY <1>1, <1>3, <3>1, EntersEffect
      <3> QED
        BY <3>1, <3>2 DEF CacheInv
    <2> QED
      BY <1>3, <2>2, <2>3, <2>4, <2>5, <2>6, <2>7, <2>8, <2>9, <2>10 DEF Continue
  <1>4. CASE NextRequest
    BY <1>4, CacheSet DEF NextRequest, NewService
  <1>5. CASE Expire \/ ExpireRefresh \/ SessionEnds \/ UNCHANGED vars
    BY <1>5 DEF Expire, ExpireRefresh, SessionEnds, vars, requestVars, CacheInv
  <1> QED
    BY <1>2, <1>3, <1>4, <1>5 DEF Next

\* With one service per request, the service has cached the grant that the
\* request shares, and unless a renewal of it is still to be validated, its
\* access token too.
THEOREM CacheInvariant ==
    ASSUME NEW s, Services = {s}
    PROVE  Spec => []CacheInv
  <1>1. Init => CacheInv
    BY DEF Init, CacheInv, NewService, None
  <1>2. BaseInv /\ CacheInv /\ [Next]_vars => CacheInv'
    BY CacheStep
  <1> QED
    BY <1>1, <1>2, GrantInvariant, PTL DEF Spec

\* With one service per request, and no call in flight, a handler that injects
\* the grant and its access token gets those the service has cached, whatever
\* calls overlapped and renewed the grant in place.
THEOREM CacheIsCoherent == Spec => []CacheCoherent
  <1>1. CASE Cardinality(Services) = 1
    <2>1. PICK s : Services = {s}
      BY <1>1, FS_Singleton, GrantServiceAssumption
    <2>2. BaseInv /\ CacheInv => CacheCoherent
      <3> SUFFICES ASSUME BaseInv, CacheInv
                   PROVE  CacheCoherent
        OBVIOUS
      <3>1. s \in Services /\ service[s].grant = kauth
        BY <2>1 DEF CacheInv
      <3>2. ASSUME Idle(s), kauth # None
            PROVE  service[s].access = heap[kauth].access
        <4>1. ASSUME NEW c \in Calls
              PROVE  call[c].phase \notin {"validate", "verify"}
          <5>1. call[c].service = s
            BY <2>1, CallType DEF BaseInv
          <5> QED
            BY <3>2, <5>1 DEF Idle, InFlight
        <4> QED
          BY <3>1, <3>2, <4>1 DEF CacheInv
      <3> QED
        BY <2>1, <3>1, <3>2 DEF CacheCoherent, InjectGrant, InjectAccessToken
    <2> QED
      BY <2>1, <2>2, CacheInvariant, GrantInvariant, PTL
  <1>2. CASE Cardinality(Services) # 1
    <2>1. CacheCoherent
      BY <1>2 DEF CacheCoherent
    <2> QED
      BY <2>1, PTL
  <1> QED
    BY <1>1, <1>2

-----------------------------------------------------------------------------
(* One call at a time: what is cached about the user *)

\* Where a call begins
LEMMA StartGrantPhase ==
    ASSUME BaseInv, NEW c \in Calls, NEW s \in Services, NEW op, NEW looked,
           StartGrant(c, s, op, looked)
    PROVE  call'[c].phase \in {"finish", "resolve"}
  <1> DEFINE begun == [Settled(s, None) EXCEPT !.op = op, !.looked = looked]
             r == [begun EXCEPT !.phase = IF service[s].grant # None /\ op # "forceGrant"
                                          THEN "finish" ELSE "resolve"]
  <1>1. Settled(s, None) \in Call
    BY SameRequest, EndedCall DEF BaseInv, KnownCall
  <1>2. Goes(c, r) /\ Typed
    BY DEF StartGrant, BaseInv
  <1>3. r.phase \in {"finish", "resolve"}
    BY <1>1 DEF Call
  <1> HIDE DEF r
  <1> QED
    BY <1>2, <1>3, GoesEffect

LEMMA BeginEffect ==
    ASSUME BaseInv, NEW c \in Calls, Begin(c)
    PROVE  /\ ~InFlight(c) /\ UNCHANGED <<given, tokens, alive, stored, requestVars, histories>>
           /\ call'[c].phase \in {"finish", "resolve", "exchange", "revoke", "clear"}
           /\ call'[c].phase = "clear" => call'[c].logins = {}
           /\ \A d \in Calls \ {c} : call'[d] = call[d]
  <1>1. PICK s \in Services : \/ CallGetGrant(c, s) \/ CallLogin(c, s)
                              \/ CallRefreshTokenGrant(c, s) \/ CallLogout(c, s)
    BY DEF Begin
  <1>2. /\ ~InFlight(c) /\ UNCHANGED <<given, tokens, alive, stored, requestVars, histories>>
    BY <1>1, Zenon DEF Begin, CallGetGrant, CallLogin, CallRefreshTokenGrant, CallLogout
  <1>3. \A d \in Calls \ {c} : call'[d] = call[d]
    BY OneCallMoves
  <1>4. Settled(s, None) \in Call /\ Typed /\ call \in [Calls -> KnownCall]
    BY SameRequest, EndedCall DEF BaseInv, KnownCall, Typed
  <1>5. CASE CallGetGrant(c, s)
    <2>1. call'[c].phase \in {"finish", "resolve"}
      BY <1>5, StartGrantPhase DEF CallGetGrant
    <2> QED
      BY <1>2, <1>3, <2>1
  <1>6. CASE CallLogin(c, s)
    <2>1. PICK op \in Ops \cap LoginOps :
            Goes(c, [Settled(s, None) EXCEPT !.op = op, !.phase = "exchange"])
      BY <1>6 DEF CallLogin
    <2>2. call'[c].phase = "exchange"
      BY <1>4, <2>1 DEF Goes, Call
    <2> QED
      BY <1>2, <1>3, <2>2
  <1>7. CASE CallRefreshTokenGrant(c, s)
    <2>1. call'[c].phase = "exchange"
      BY <1>4, <1>7 DEF CallRefreshTokenGrant, Goes, Call
    <2> QED
      BY <1>2, <1>3, <2>1
  <1>8. CASE CallLogout(c, s)
    <2> DEFINE phase == IF LogoutToken(s) # None THEN "revoke" ELSE "clear"
               r == [Settled(s, None) EXCEPT !.op = "logout", !.logins = LoggedOut(s),
                       !.token = LogoutToken(s), !.phase = phase]
    <2>1. Goes(c, r)
      BY <1>8 DEF CallLogout
    <2>2. r.phase = phase /\ r.logins = LoggedOut(s)
      BY <1>4 DEF Call
    <2>3. LogoutToken(s) = None => LoggedOut(s) = {}
      BY LogoutTokenKnown
    <2>4. phase = IF LogoutToken(s) # None THEN "revoke" ELSE "clear"
      OBVIOUS
    <2> HIDE DEF r, phase
    <2>5. call'[c] = r
      BY <1>4, <2>1, GoesEffect
    <2> QED
      BY <1>2, <1>3, <2>2, <2>3, <2>4, <2>5
  <1> QED
    BY <1>1, <1>5, <1>6, <1>7, <1>8

\* The grant and the roles stay, and the user info or part of it.
LEMMA AgreesKept ==
    ASSUME BaseInv, NEW s \in Services, Agrees(s), UNCHANGED <<kauth, heap, roles>>,
           service'[s].userInfo \subseteq service[s].userInfo,
           OwnersKept
    PROVE  Agrees(s)'
  <1>1. kauth # None => heap[kauth].access \in DOMAIN tokens /\ heap[kauth].access # None
    <2>1. kauth # None => kauth \in Grants /\ kauth \in Referenced \ {None}
      BY DEF BaseInv, Typed, Referenced
    <2>2. kauth # None => heap[kauth].access # None /\ heap[kauth].access \in Known
      BY <2>1 DEF BaseInv, Typed, Filled, KnownGrant
    <2> QED
      BY <2>2, TokensKnown DEF BaseInv
  <1>2. InjectAccessToken' = InjectAccessToken
    BY DEF InjectAccessToken
  <1>3. InjectUserId' = InjectUserId
    BY <1>1, <1>2 DEF InjectUserId, InjectAccessToken, OwnersKept
  <1> QED
    BY <1>2, <1>3 DEF Agrees

LEMMA AgreesCleared ==
    ASSUME NEW s, kauth' = None, roles' = None, service'[s].userInfo = {}
    PROVE  Agrees(s)'
  BY DEF Agrees, InjectAccessToken, InjectUserId

\* A step that neither renews a grant nor waits for roles or user info after it
LEMMA IdentitySet ==
    ASSUME NEW s, NEW c, Services = {s}, Calls = {c}, Agrees(s)',
           call'[c].phase \notin {"roles", "fetch"}
    PROVE  IdentityInv'
  BY DEF IdentityInv

LEMMA IdentityStep ==
    ASSUME NEW s, Services = {s}, NEW c, Calls = {c}, BaseInv, CacheInv, IdentityInv, [Next]_vars
    PROVE  IdentityInv'
  <1>1. /\ s \in Services /\ c \in Calls /\ call[c].service = s /\ Typed /\ None \in Known
        /\ service[s].grant = kauth
    BY CallType, SameRequest DEF BaseInv, CacheInv
  <1>2. call[c].phase \notin {"validate", "verify", "roles"} => Agrees(s)
    BY <1>1 DEF IdentityInv
  <1>3. CASE Begin(c)
    <2>1. Agrees(s) /\ call'[c].phase \notin {"roles", "fetch"}
      BY <1>1, <1>2, <1>3, BeginEffect DEF InFlight
    <2>2. UNCHANGED <<kauth, heap, roles, tokens, service>>
      BY <1>1, <1>3, BeginEffect DEF requestVars, histories
    <2> QED
      BY <1>1, <2>1, <2>2, AgreesKept, IdentitySet DEF OwnersKept
  <1>4. ASSUME ClearGrant(s), call'[c].phase \notin {"roles", "fetch"}
        PROVE  IdentityInv'
    BY <1>1, <1>4, ClearGrantEffect, AgreesCleared, IdentitySet
  <1>5. CASE ResolveNothing(c) \/ FinishCleared(c)
    <2>1. GetsNothing(c) /\ call[c].phase \in {"resolve", "finish"}
      BY <1>5 DEF ResolveNothing, FinishCleared
    <2>2. CASE Goes(c, Settled(s, None))
      BY <1>1, <1>4, <2>1, <2>2, GetsNothingEffect, GoesEffect, EndedCall
    <2>3. CASE ~Goes(c, Settled(s, None))
      <3>1. PICK r \in KnownCall : Goes(c, r) /\ r.phase = "resolve"
        BY <1>1, <2>1, <2>3, GetsNothingEffect
      <3> QED
        BY <1>1, <1>4, <2>1, <3>1, GetsNothingEffect, GoesEffect
    <2> QED
      BY <2>2, <2>3
  <1>6. CASE RefreshRefused(c) \/ RefreshLost(c) \/ Invalid(c)
    <2>1. Fails(c)
      BY <1>6 DEF RefreshRefused, RefreshLost, Invalid
    <2>2. ClearGrant(s) /\ call'[c] = Failed(s)
      BY <1>1, <2>1, GoesEffect DEF Fails
    <2> QED
      BY <1>1, <1>4, <2>2, EndedCall
  <1>7. CASE ClearSession(c)
    <2> DEFINE r == [call[c] EXCEPT !.phase = "destroy", !.token = None]
    <2>1. call[c] \in Call
      BY <1>1, CallType DEF KnownCall
    <2>2. Goes(c, IF session.exists THEN r ELSE Settled(s, None)) /\ ClearGrant(s)
      BY <1>1, <1>7 DEF ClearSession
    <2>3. r.phase = "destroy" /\ Settled(s, None).phase = "settled"
      BY <2>1 DEF Call, Settled
    <2> HIDE DEF r
    <2>4. call'[c].phase \in {"destroy", "settled"}
      BY <1>1, <2>2, <2>3, GoesEffect
    <2> QED
      BY <1>4, <2>2, <2>4
  <1>8. CASE ResolveShared(c)
    <2>1. /\ UNCHANGED <<kauth, heap, roles, tokens, service>> /\ call[c].phase = "resolve"
          /\ call'[c].phase \in {"refresh", "validate"}
      BY <1>1, <1>8, ResolveSharedEffect DEF ResolveShared, requestVars
    <2> QED
      BY <1>1, <1>2, <2>1, AgreesKept, IdentitySet DEF OwnersKept
  <1>9. CASE ResolveTokens(c)
    <2>1. /\ kauth = None /\ kauth' = None /\ roles' = roles /\ call[c].phase = "resolve"
          /\ call'[c].phase \in {"refresh", "validate"}
          /\ service'[s].userInfo = service[s].userInfo
      BY <1>1, <1>9, ResolveTokensEffect DEF ResolveTokens
    <2>2. roles = None /\ service[s].userInfo = {}
      BY <1>2, <2>1 DEF Agrees, InjectAccessToken, InjectUserId
    <2> QED
      BY <1>1, <2>1, <2>2, AgreesCleared, IdentitySet
  <1>10. CASE Refreshed(c)
    <2>1. call'[c].phase = "validate"
      BY <1>1, <1>10, RefreshedEffect
    <2> QED
      BY <1>1, <2>1 DEF IdentityInv
  <1>11. CASE Validated(c)
    <2>1. /\ call'[c].phase = "roles" /\ kauth' = call'[c].grant
          /\ service'[s].userInfo = {}
      BY <1>1, <1>11, ValidatedEffect
    <2> QED
      BY <1>1, <2>1 DEF IdentityInv
  <1>12. CASE Built(c)
    <2>1. /\ call'[c].phase = "roles" /\ kauth' = call'[c].grant
          /\ service'[call[c].service].userInfo = {}
      BY <1>1, <1>12, BuiltEffect
    <2> QED
      BY <1>1, <2>1 DEF IdentityInv
  <1>13. CASE SetRoles(c)
    <2> DEFINE token == heap[call[c].grant].access
    <2>1. /\ call[c].phase = "roles" /\ roles' = token
          /\ UNCHANGED <<kauth, service, heap, tokens>>
          /\ Goes(c, Settled(s, token)) \/ Enters(c, "finish")
      BY <1>1, <1>13 DEF SetRoles
    <2>2. service[s].userInfo = {} /\ kauth = call[c].grant /\ kauth # None /\ kauth \in Grants
      BY <1>1, <2>1, CallType DEF IdentityInv, BaseInv, CallFits, Equipped
    <2>3. token \in Known
      BY <1>1, <2>2 DEF Typed, KnownGrant
    <2>4. call'[c].phase \in {"settled", "finish"}
      BY <1>1, <2>1, <2>3, GoesEffect, EndedCall, EntersEffect
    <2>5. Agrees(s)'
      BY <2>1, <2>2 DEF Agrees, InjectAccessToken, InjectUserId
    <2> QED
      BY <1>1, <2>4, <2>5, IdentitySet
  <1>14. CASE FinishGrant(c)
    <2> DEFINE token == heap[service[s].grant].access
               r == [call[c] EXCEPT !.phase = "fetch", !.grant = None, !.token = token]
    <2>1. /\ call[c].phase = "finish" /\ service[s].grant # None
          /\ UNCHANGED <<kauth, heap, roles, tokens, service>>
          /\ \/ Goes(c, Settled(s, token)) \/ Goes(c, r) \/ Goes(c, Settled(s, None))
             \/ StartGrant(c, s, call[c].op, TRUE)
      BY <1>1, <1>14, FinishGrantEffect DEF requestVars, histories
    <2>2. Agrees(s)'
      BY <1>1, <1>2, <2>1, AgreesKept DEF OwnersKept
    <2>3. CASE Goes(c, Settled(s, token))
      <3>1. token \in Known
        BY <1>1, <2>1, CachedToken
      <3> QED
        BY <1>1, <2>2, <2>3, <3>1, GoesEffect, EndedCall, IdentitySet
    <2>4. CASE Goes(c, r)
      <3>1. call[c] \in Call
        BY <1>1, CallType DEF KnownCall
      <3>2. r.phase = "fetch" /\ r.token = token
        BY <3>1 DEF Call
      <3> HIDE DEF r
      <3>3. call'[c].phase = "fetch" /\ call'[c].token = heap'[kauth'].access /\ kauth' # None
        BY <1>1, <2>1, <2>4, <3>2, GoesEffect
      <3> QED
        BY <1>1, <2>2, <3>3 DEF IdentityInv
    <2>5. CASE Goes(c, Settled(s, None))
      BY <1>1, <2>2, <2>5, GoesEffect, EndedCall, IdentitySet
    <2>6. CASE StartGrant(c, s, call[c].op, TRUE)
      BY <1>1, <2>2, <2>6, StartGrantPhase, IdentitySet
    <2> QED
      BY <2>1, <2>3, <2>4, <2>5, <2>6
  <1>15. CASE FetchedUserInfo(c)
    <2> DEFINE fields == [service[s] EXCEPT !.userInfo = UserInfo(call[c].token)]
    <2>1. /\ call[c].phase = "fetch" /\ UNCHANGED <<kauth, heap, roles, tokens>>
          /\ service' = [service EXCEPT ![s] = fields] /\ Goes(c, Settled(s, call[c].token))
      BY <1>1, <1>15 DEF FetchedUserInfo
    <2>2. /\ service \in [Services -> KnownService] /\ service[s] \in Service
          /\ call[c].token \in Known
      BY <1>1, CallType DEF Typed, KnownService
    <2>3. fields.userInfo = UserInfo(call[c].token)
      BY <2>2 DEF Service
    <2> HIDE DEF fields
    <2>4. service'[s].userInfo = {tokens[call[c].token].user}
      BY <1>1, <2>1, <2>2, <2>3 DEF UserInfo
    <2>5. call[c].token = heap[kauth].access /\ kauth # None /\ call[c].token # None
      BY <1>1, <2>1 DEF IdentityInv, BaseInv, CallFits, Equipped
    <2>6. Agrees(s)'
      BY <1>2, <2>1, <2>4, <2>5 DEF Agrees, InjectAccessToken, InjectUserId
    <2> QED
      BY <1>1, <2>1, <2>2, <2>6, GoesEffect, EndedCall, IdentitySet
  <1>16. CASE NoUserInfo(c) \/ ExchangeRefused(c) \/ BuildFails(c) \/ DestroyFails(c) \/ Destroyed(c)
    <2>1. /\ UNCHANGED <<kauth, heap, roles, tokens, service>>
          /\ call[c].phase \notin {"validate", "verify", "roles"}
          /\ Goes(c, Failed(s)) \/ Goes(c, Settled(s, None))
      BY <1>1, <1>16 DEF NoUserInfo, ExchangeRefused, BuildFails, DestroyFails, Destroyed, requestVars
    <2>2. call'[c].phase \in {"failed", "settled"}
      BY <1>1, <2>1, GoesEffect, EndedCall
    <2> QED
      BY <1>1, <1>2, <2>1, <2>2, AgreesKept, IdentitySet DEF OwnersKept
  <1>17. CASE Revoked(c) \/ RevocationFails(c)
    <2>1. /\ UNCHANGED <<kauth, heap, roles, tokens, service>> /\ call[c].phase = "revoke"
          /\ Goes(c, [call[c] EXCEPT !.phase = "clear"])
               \/ Goes(c, [call[c] EXCEPT !.phase = "clear", !.logins = {}])
      BY <1>17 DEF Revoked, RevocationFails, Enters, requestVars
    <2>2. call[c] \in Call
      BY <1>1, CallType DEF KnownCall
    <2>3. call'[c].phase = "clear"
      BY <1>1, <2>1, <2>2 DEF Typed, Goes, Call
    <2> QED
      BY <1>1, <1>2, <2>1, <2>3, AgreesKept, IdentitySet DEF OwnersKept
  <1>18. CASE NextRequest
    <2>1. /\ kauth' = None /\ roles' = None /\ service'[s].userInfo = {}
          /\ call'[c] = Settled(call[c].service, None)
      BY <1>1, <1>18 DEF NextRequest, NewService
    <2>2. call'[c].phase = "settled"
      BY <2>1 DEF Settled
    <2>3. Agrees(s)'
      BY <1>1, <2>1, AgreesCleared
    <2> QED
      BY <1>1, <2>2, <2>3, IdentitySet
  <1>19. CASE Expire \/ ExpireRefresh \/ SessionEnds \/ UNCHANGED vars
    <2>1. UNCHANGED <<kauth, heap, roles, service, call>> /\ OwnersKept
      BY <1>1, <1>19, ExpiresEffect
         DEF Expire, ExpireRefresh, SessionEnds, vars, requestVars, OwnersKept
    <2>2. Agrees(s) => Agrees(s)'
      BY <1>1, <2>1, AgreesKept
    <2> QED
      BY <1>1, <2>1, <2>2 DEF IdentityInv
  <1>20. CASE Exchanged(c)
    <2>1. /\ UNCHANGED <<kauth, heap, roles, service>> /\ OwnersKept
          /\ call[c].phase = "exchange" /\ call'[c].phase = "build"
      BY <1>1, <1>20, ExchangedEffect DEF Exchanged, requestVars
    <2> QED
      BY <1>1, <1>2, <2>1, AgreesKept, IdentitySet DEF OwnersKept
  <1>21. CASE LookedValid(c)
    <2>1. Enters(c, "verify")
      BY <1>21 DEF LookedValid
    <2>2. call'[c].phase = "verify"
      BY <1>1, <2>1, EntersEffect
    <2> QED
      BY <1>1, <2>2 DEF IdentityInv
  <1> QED
    BY <1>1, <1>3, <1>5, <1>6, <1>7, <1>8, <1>9, <1>10, <1>11, <1>12, <1>13, <1>14, <1>15, <1>16,
       <1>17, <1>18, <1>19, <1>20, <1>21 DEF Next, Continue

\* With one service per request and one call at a time, the user info that is
\* cached and the roles of req.user are of the token handlers are given, except
\* between the renewal of a grant and the step that sets its roles.
THEOREM IdentityInvariant ==
    ASSUME NEW s, Services = {s}, NEW c, Calls = {c}
    PROVE  Spec => []IdentityInv
  <1>1. Init => IdentityInv
    <2> SUFFICES ASSUME Init
                 PROVE  IdentityInv
      OBVIOUS
    <2>1. call[c] = Settled(s, None) /\ service[s].userInfo = {} /\ kauth = None /\ roles = None
      BY DEF Init, NewService
    <2>2. call[c].phase = "settled"
      BY <2>1 DEF Settled
    <2> QED
      BY <2>1, <2>2 DEF IdentityInv, Agrees, InjectAccessToken, InjectUserId
  <1>2. BaseInv /\ CacheInv /\ IdentityInv /\ [Next]_vars => IdentityInv'
    BY IdentityStep
  <1> QED
    BY <1>1, <1>2, GrantInvariant, CacheInvariant, PTL DEF Spec

\* With one call at a time, the user info a service has and the roles of
\* req.user are those of the user whose token handlers are given.
THEOREM IdentityIsCoherent == Spec => []IdentityCoherent
  <1>1. CASE Cardinality(Services) = 1 /\ Cardinality(Calls) = 1
    <2>1. PICK s : Services = {s}
      BY <1>1, FS_Singleton, GrantServiceAssumption
    <2>2. PICK c : Calls = {c}
      BY <1>1, FS_Singleton, GrantServiceAssumption
    <2>3. BaseInv /\ IdentityInv => IdentityCoherent
      <3> SUFFICES ASSUME BaseInv, IdentityInv, Idle(s)
                   PROVE  Agrees(s)
        BY <2>1 DEF IdentityCoherent, Agrees
      <3>1. call[c].service = s
        BY <2>1, <2>2, CallType DEF BaseInv
      <3>2. ~InFlight(c)
        BY <2>2, <3>1 DEF Idle
      <3> QED
        BY <2>1, <2>2, <3>2 DEF IdentityInv, InFlight
    <2> QED
      BY <2>1, <2>2, <2>3, IdentityInvariant, GrantInvariant, PTL
  <1>2. CASE ~(Cardinality(Services) = 1 /\ Cardinality(Calls) = 1)
    <2>1. IdentityCoherent
      BY <1>2 DEF IdentityCoherent
    <2> QED
      BY <2>1, PTL
  <1> QED
    BY <1>1, <1>2

-----------------------------------------------------------------------------
(* Where a step leaves its call *)

\* Only a logout gets to clear a session, only a grant that was resolved or
\* renewed gets to be validated, and only a refusal makes a call fail.
LEMMA ContinuePhases ==
    ASSUME BaseInv, NEW c \in Calls, Continue(c)
    PROVE  /\ call'[c].phase \in {"clear", "destroy"} =>
                Revoked(c) \/ RevocationFails(c) \/ ClearSession(c)
           /\ call'[c].phase = "validate" =>
                ResolveShared(c) \/ ResolveTokens(c) \/ Refreshed(c)
           /\ call'[c].phase = "verify" => LookedValid(c)
           /\ call'[c].phase = "build" => Exchanged(c)
           /\ call'[c].phase = "roles" => Validated(c) \/ Built(c)
           /\ call'[c].phase = "failed" =>
                \/ RefreshRefused(c) \/ RefreshLost(c) \/ Invalid(c) \/ NoUserInfo(c)
                \/ ExchangeRefused(c) \/ BuildFails(c) \/ DestroyFails(c)
  <1> DEFINE s == call[c].service
  <1>1. s \in Services /\ call[c] \in Call /\ call[c].token \in Known /\ Typed /\ None \in Known
    BY CallType, SameRequest DEF BaseInv, KnownCall
  <1>2. CASE ResolveNothing(c) \/ FinishCleared(c)
    <2>1. GetsNothing(c) /\ call[c].phase \in {"resolve", "finish"}
      BY <1>2 DEF ResolveNothing, FinishCleared
    <2>2. CASE Goes(c, Settled(s, None))
      BY <1>1, <2>2, GoesEffect, EndedCall
    <2>3. CASE ~Goes(c, Settled(s, None))
      <3>1. PICK r \in KnownCall : Goes(c, r) /\ r.phase = "resolve"
        BY <2>1, <2>3, GetsNothingEffect
      <3> QED
        BY <1>1, <3>1, GoesEffect
    <2> QED
      BY <2>2, <2>3
  <1>3. CASE \/ RefreshRefused(c) \/ RefreshLost(c) \/ Invalid(c) \/ NoUserInfo(c)
             \/ ExchangeRefused(c) \/ BuildFails(c) \/ DestroyFails(c)
    <2>1. Goes(c, Failed(s))
      BY <1>3 DEF RefreshRefused, RefreshLost, Invalid, NoUserInfo, ExchangeRefused, BuildFails,
         DestroyFails, Fails
    <2> QED
      BY <1>1, <1>3, <2>1, GoesEffect, EndedCall
  <1>4. CASE Validated(c)
    BY <1>4, ValidatedEffect
  <1>5. CASE Exchanged(c)
    <2>1. call'[c].phase = "build"
      BY <1>5, ExchangedEffect
    <2> QED
      BY <1>5, <2>1
  <1>6. CASE SetRoles(c)
    <2> DEFINE token == heap[call[c].grant].access
    <2>1. Goes(c, Settled(s, token)) \/ Enters(c, "finish")
      BY <1>6 DEF SetRoles
    <2>2. Settled(s, token).phase = "settled"
      BY DEF Settled
    <2> QED
      BY <1>1, <2>1, <2>2, GoesEffect, EntersEffect
  <1>7. CASE FinishGrant(c)
    <2> DEFINE token == heap[service[s].grant].access
               r == [call[c] EXCEPT !.phase = "fetch", !.grant = None, !.token = token]
    <2>1. \/ Goes(c, Settled(s, token)) \/ Goes(c, r) \/ Goes(c, Settled(s, None))
          \/ StartGrant(c, s, call[c].op, TRUE)
      BY <1>7, FinishGrantEffect
    <2>2. Settled(s, token).phase = "settled" /\ Settled(s, None).phase = "settled"
      BY DEF Settled
    <2>3. r.phase = "fetch"
      BY <1>1 DEF Call
    <2> HIDE DEF r, token
    <2> QED
      BY <1>1, <2>1, <2>2, <2>3, GoesEffect, StartGrantPhase
  <1>8. CASE FetchedUserInfo(c) \/ Destroyed(c)
    <2>1. Goes(c, Settled(s, call[c].token)) \/ Goes(c, Settled(s, None))
      BY <1>8 DEF FetchedUserInfo, Destroyed
    <2> QED
      BY <1>1, <2>1, GoesEffect, EndedCall
  <1>9. CASE Revoked(c) \/ RevocationFails(c)
    <2>1. Goes(c, [call[c] EXCEPT !.phase = "clear"])
            \/ Goes(c, [call[c] EXCEPT !.phase = "clear", !.logins = {}])
      BY <1>9 DEF Revoked, RevocationFails, Enters
    <2>2. call'[c].phase = "clear"
      BY <1>1, <2>1 DEF Typed, Goes, Call
    <2> QED
      BY <1>9, <2>2
  <1>10. CASE ClearSession(c)
    <2> DEFINE r == [call[c] EXCEPT !.phase = "destroy", !.token = None]
    <2>1. Goes(c, IF session.exists THEN r ELSE Settled(s, None))
      BY <1>10 DEF ClearSession
    <2>2. r.phase = "destroy" /\ Settled(s, None).phase = "settled"
      BY <1>1 DEF Call, Settled
    <2> HIDE DEF r
    <2>3. call'[c].phase \in {"destroy", "settled"}
      BY <1>1, <2>1, <2>2, GoesEffect
    <2> QED
      BY <1>10, <2>3
  <1>11. CASE ResolveShared(c)
    BY <1>11, ResolveSharedEffect
  <1>12. CASE ResolveTokens(c)
    BY <1>12, ResolveTokensEffect
  <1>13. CASE Refreshed(c)
    BY <1>13, RefreshedEffect
  <1>14. CASE Built(c)
    <2>1. call'[c].phase = "roles"
      BY <1>14, BuiltEffect
    <2> QED
      BY <1>14, <2>1
  <1>15. CASE LookedValid(c)
    <2>1. Enters(c, "verify")
      BY <1>15 DEF LookedValid
    <2>2. call'[c].phase = "verify"
      BY <1>1, <2>1, EntersEffect
    <2> QED
      BY <1>15, <2>2
  <1> QED
    BY <1>2, <1>3, <1>4, <1>5, <1>6, <1>7, <1>8, <1>9, <1>10, <1>11, <1>12, <1>13, <1>14, <1>15
       DEF Continue

-----------------------------------------------------------------------------
(* What is adopted was validated *)

\* A service gets another grant than it had only in afterGrant, and the roles
\* come only from the grant that was adopted.
LEMMA GrantsAdopted ==
    ASSUME BaseInv, NEW c \in Calls, Begin(c) \/ Continue(c), ~Validated(c), ~Built(c)
    PROVE  /\ kauth' \in {kauth, None}
           /\ \A s \in Services : service'[s].grant \in {service[s].grant, None}
           /\ SetRoles(c) \/ roles' \in {roles, None}
  <1>1. call[c].service \in Services /\ Typed
    BY CallType DEF BaseInv
  <1>2. CASE ClearGrant(call[c].service)
    BY <1>1, <1>2, ClearGrantEffect
  <1>3. CASE ResolveTokens(c)
    BY <1>3, ResolveTokensEffect DEF ResolveTokens
  <1>4. CASE FetchedUserInfo(c)
    <2>1. service \in [Services -> KnownService] /\ service[call[c].service] \in Service
      BY <1>1 DEF Typed, KnownService
    <2>2. /\ service' = [service EXCEPT ![call[c].service] =
                          [service[call[c].service] EXCEPT !.userInfo = UserInfo(call[c].token)]]
          /\ UNCHANGED <<kauth, roles>>
      BY <1>4 DEF FetchedUserInfo
    <2> QED
      BY <2>1, <2>2 DEF Service
  <1>5. CASE FinishGrant(c)
    BY <1>5, FinishGrantEffect DEF requestVars, histories
  <1>6. CASE Begin(c)
    BY <1>6, BeginEffect DEF requestVars, histories
  <1>7. CASE \/ ResolveShared(c) \/ Refreshed(c) \/ LookedValid(c) \/ SetRoles(c) \/ NoUserInfo(c)
             \/ Exchanged(c) \/ ExchangeRefused(c) \/ BuildFails(c)
             \/ Revoked(c) \/ RevocationFails(c) \/ Destroyed(c) \/ DestroyFails(c)
    BY <1>7 DEF ResolveShared, Refreshed, LookedValid, SetRoles, NoUserInfo, Exchanged,
       ExchangeRefused, BuildFails, Revoked, RevocationFails, Destroyed, DestroyFails, requestVars
  <1>8. CASE \/ ResolveNothing(c) \/ RefreshRefused(c) \/ RefreshLost(c) \/ Invalid(c)
             \/ FinishCleared(c) \/ ClearSession(c)
    BY <1>2, <1>8 DEF ResolveNothing, RefreshRefused, RefreshLost, Invalid, FinishCleared,
       ClearSession, GetsNothing, Fails
  <1> QED
    BY <1>3, <1>4, <1>5, <1>6, <1>7, <1>8 DEF Continue

\* The other steps leave the grants and what was verified alone.
LEMMA HeapKept ==
    ASSUME BaseInv, NEW c \in Calls, Begin(c) \/ Continue(c),
           ~ResolveTokens(c), ~Refreshed(c), ~LookedValid(c), ~Built(c)
    PROVE  heap' = heap /\ verified' = verified
  <1>1. CASE Begin(c)
    BY <1>1, BeginEffect DEF requestVars, histories
  <1>2. CASE FinishGrant(c)
    BY <1>2, FinishGrantEffect DEF requestVars, histories
  <1>3. CASE Continue(c) /\ ~FinishGrant(c)
    BY <1>3 DEF Continue, ResolveShared, ResolveNothing, RefreshRefused, RefreshLost, Validated,
       Invalid, SetRoles, FinishCleared, FetchedUserInfo, NoUserInfo, Exchanged, ExchangeRefused,
       BuildFails, Revoked, RevocationFails, ClearSession, Destroyed, DestroyFails,
       requestVars, histories
  <1> QED
    BY <1>1, <1>2, <1>3

\* What is held keeps its access token or gets one that was found valid.
LEMMA VerifiedKept ==
    ASSUME BaseInv, VerifiedInv, verified \subseteq verified',
           \A g \in Referenced \ {None} :
             heap'[g].access = heap[g].access \/ heap'[g].access \in verified',
           kauth' \in {kauth, None} \/ Verified(kauth)',
           \A s \in Services : \/ service'[s].grant \in {service[s].grant, None}
                              \/ Verified(service[s].grant)',
           roles' \in {roles, None} \cup verified',
           \A c \in Calls : \/ call'[c].phase \notin {"verify", "roles"}
                           \/ (call'[c].grant = call[c].grant /\ call[c].phase \in {"verify", "roles"})
                           \/ Verified(call[c].grant)'
    PROVE  VerifiedInv'
  <1>1. ASSUME NEW g \in Referenced \cup {None}, Verified(g)
        PROVE  g # None => heap'[g].access \in verified'
    BY <1>1 DEF Verified
  <1>2. Verified(kauth)'
    <2>1. CASE kauth' \in {kauth, None}
      BY <1>1, <2>1 DEF VerifiedInv, Verified, Referenced
    <2> QED
      BY <2>1
  <1>3. ASSUME NEW s \in Services
        PROVE  Verified(service[s].grant)'
    <2>1. CASE service'[s].grant \in {service[s].grant, None}
      <3>1. service[s].grant \in Referenced /\ Verified(service[s].grant)
        BY DEF VerifiedInv, Referenced
      <3> QED
        BY <1>1, <2>1, <3>1 DEF Verified
    <2> QED
      BY <2>1
  <1>4. ASSUME NEW c \in Calls, call'[c].phase \in {"verify", "roles"}
        PROVE  Verified(call[c].grant)'
    <2>1. CASE call'[c].grant = call[c].grant /\ call[c].phase \in {"verify", "roles"}
      <3>1. call[c].grant \in Referenced /\ Verified(call[c].grant)
        BY <2>1 DEF VerifiedInv, Referenced
      <3> QED
        BY <1>1, <2>1, <3>1 DEF Verified
    <2> QED
      BY <1>4, <2>1
  <1>5. roles' # None => roles' \in verified'
    BY DEF VerifiedInv
  <1> QED
    BY <1>2, <1>3, <1>4, <1>5 DEF VerifiedInv

LEMMA VerifiedStep ==
    ASSUME BaseInv, VerifiedInv, [Next]_vars
    PROVE  VerifiedInv'
  <1>1. Referenced \ {None} \subseteq Grants
    BY DEF BaseInv, Typed, Referenced, KnownService, KnownCall, Service, Call
  <1>2. ASSUME NEW c \in Calls, Begin(c) \/ Continue(c)
        PROVE  VerifiedInv'
    <2>1. \A d \in Calls \ {c} : call'[d] = call[d]
      BY <1>2, OneCallMoves
    <2>2. PICK s \in Services : s = call[c].service /\ Typed
      BY CallType DEF BaseInv
    <2>3. CASE ResolveTokens(c)
      <3>1. /\ NewGrant \notin Referenced /\ \A g \in Grants \ {NewGrant} : heap'[g] = heap[g]
            /\ call'[c].phase \in {"refresh", "validate"} /\ verified' = verified
            /\ ~Validated(c) /\ ~Built(c) /\ ~SetRoles(c)
        BY <2>3, ResolveTokensEffect DEF ResolveTokens, Validated, Built, SetRoles, histories
      <3>2. \A g \in Referenced \ {None} : heap'[g].access = heap[g].access
        BY <1>1, <3>1
      <3> QED
        BY <1>2, <2>1, <3>1, <3>2, GrantsAdopted, VerifiedKept
    <2>4. CASE Refreshed(c)
      <3>1. /\ heap'[call[c].grant].access = NewToken
            /\ \A g \in Grants \ {call[c].grant} : heap'[g] = heap[g]
            /\ call'[c].phase = "validate"
        <4>1. /\ heap'[call[c].grant] = [access |-> NewToken, refresh |-> NewToken]
              /\ \A g \in Grants \ {call[c].grant} : heap'[g] = heap[g]
              /\ call'[c].phase = "validate"
          BY <2>4, RefreshedEffect
        <4> QED
          BY <4>1
      <3>3. /\ verified' = verified \cup {NewToken}
            /\ ~Validated(c) /\ ~Built(c) /\ ~SetRoles(c)
        BY <2>4 DEF Refreshed, Validated, Built, SetRoles
      <3>2. \A g \in Referenced \ {None} :
              heap'[g].access = heap[g].access \/ heap'[g].access \in verified'
        BY <1>1, <3>1, <3>3
      <3> QED
        BY <1>2, <2>1, <3>1, <3>2, <3>3, GrantsAdopted, VerifiedKept
    <2>5. CASE LookedValid(c)
      <3>1. /\ heap' = heap /\ verified \subseteq verified' /\ Enters(c, "verify")
            /\ heap[call[c].grant].access \in verified'
            /\ call[c].phase = "validate"
        BY <2>5 DEF LookedValid, Valid, requestVars
      <3>2. call'[c].grant = call[c].grant
        BY <2>2, <3>1, EntersEffect
      <3>3. Verified(call[c].grant)'
        BY <3>1, <3>2 DEF Verified
      <3>4. ~Validated(c) /\ ~Built(c) /\ ~SetRoles(c)
        BY <3>1 DEF Validated, Built, SetRoles
      <3> QED
        BY <1>2, <2>1, <3>1, <3>3, <3>4, GrantsAdopted, VerifiedKept
    <2>6. CASE Validated(c)
      <3>1. /\ kauth' = call[c].grant /\ service'[call[c].service].grant = call[c].grant
            /\ \A x \in Services \ {call[c].service} : service'[x] = service[x]
            /\ call'[c].grant = call[c].grant
        BY <2>6, ValidatedEffect
      <3>2. /\ heap' = heap /\ verified' = verified /\ roles' = roles /\ call[c].phase = "verify"
        BY <2>6 DEF Validated, histories
      <3>3. Verified(call[c].grant)
        BY <3>2 DEF VerifiedInv
      <3>4. Verified(kauth)' /\ Verified(service[s].grant)'
        BY <2>2, <3>1, <3>2, <3>3 DEF Verified
      <3> QED
        BY <2>1, <2>2, <3>1, <3>2, <3>4, VerifiedKept
    <2>7. CASE Built(c)
      <3>1. /\ kauth' = NewGrant /\ service'[call[c].service].grant = NewGrant
            /\ \A x \in Services \ {call[c].service} : service'[x] = service[x]
            /\ call'[c].grant = NewGrant
            /\ NewGrant \notin Referenced /\ \A g \in Grants \ {NewGrant} : heap'[g] = heap[g]
        BY <2>7, BuiltEffect
      <3>2. /\ roles' = roles /\ verified' = verified \cup {call[c].token}
            /\ heap'[NewGrant].access = call[c].token
        BY <2>7, BuiltEffect
      <3>3. Verified(kauth)' /\ Verified(service[s].grant)' /\ Verified(call[c].grant)'
        BY <2>2, <3>1, <3>2 DEF Verified
      <3>4. \A g \in Referenced \ {None} : heap'[g].access = heap[g].access
        BY <1>1, <3>1
      <3> QED
        BY <2>1, <2>2, <3>1, <3>2, <3>3, <3>4, VerifiedKept
    <2>8. CASE SetRoles(c)
      <3>1. /\ roles' = heap[call[c].grant].access /\ call[c].phase = "roles"
            /\ UNCHANGED <<kauth, service, heap, verified>>
        BY <2>8 DEF SetRoles, histories
      <3>2. call[c].grant # None
        BY <3>1 DEF BaseInv, CallFits, Equipped
      <3>3. roles' \in verified'
        BY <3>1, <3>2 DEF VerifiedInv, Verified
      <3>4. call'[c].phase \notin {"verify", "roles"}
        BY <1>2, <2>8, <3>1, ContinuePhases DEF Continue, LookedValid, Validated, Built
      <3> QED
        BY <2>1, <3>1, <3>3, <3>4, VerifiedKept
    <2>9. CASE /\ ~ResolveTokens(c) /\ ~Refreshed(c) /\ ~LookedValid(c)
               /\ ~Validated(c) /\ ~Built(c) /\ ~SetRoles(c)
      <3>1. heap' = heap /\ verified' = verified
        BY <1>2, <2>9, HeapKept
      <3>2. call'[c].phase \notin {"verify", "roles"}
        BY <1>2, <2>9, BeginEffect, ContinuePhases
      <3> QED
        BY <1>2, <2>1, <2>9, <3>1, <3>2, GrantsAdopted, VerifiedKept
    <2> QED
      BY <2>3, <2>4, <2>5, <2>6, <2>7, <2>8, <2>9
  <1>3. CASE NextRequest
    <2>1. /\ kauth' = None /\ roles' = None /\ \A s \in Services : service'[s].grant = None
          /\ \A c \in Calls : call'[c] = Settled(call[c].service, None)
      BY <1>3 DEF NextRequest, NewService
    <2>2. \A s : Settled(s, None).phase = "settled"
      BY DEF Settled
    <2>3. \A c \in Calls : call'[c].phase = "settled"
      BY <2>1, <2>2
    <2> QED
      BY <2>1, <2>3 DEF VerifiedInv, Verified
  <1>4. CASE Expire \/ ExpireRefresh \/ SessionEnds \/ UNCHANGED vars
    BY <1>4 DEF Expire, ExpireRefresh, SessionEnds, vars, requestVars, histories, VerifiedInv, Verified
  <1> QED
    BY <1>2, <1>3, <1>4 DEF Next

\* "Access token signature, issuer, expiry and type are validated on every
\* request": whatever calls of however many services overlap, renew and share a
\* grant in place, the access token of every grant that a service or the request
\* has, and the one the roles are of, was found valid in this request.
THEOREM AdoptedGrantsAreVerified == Spec => []GrantsVerified
  <1>1. Init => VerifiedInv
    <2> SUFFICES ASSUME Init
                 PROVE  VerifiedInv
      OBVIOUS
    <2>1. kauth = None /\ roles = None /\ \A s \in Services : service[s].grant = None
      BY DEF Init, NewService
    <2>2. \A c \in Calls : call[c].phase = "settled"
      BY DEF Init, Settled
    <2> QED
      BY <2>1, <2>2 DEF VerifiedInv, Verified
  <1>2. BaseInv /\ VerifiedInv /\ [Next]_vars => VerifiedInv'
    BY VerifiedStep
  <1>3. VerifiedInv => GrantsVerified
    BY DEF VerifiedInv, Verified, GrantsVerified, InjectGrant
  <1> QED
    BY <1>1, <1>2, <1>3, GrantInvariant, PTL DEF Spec

-----------------------------------------------------------------------------
(* Logging out *)

\* Tokens that the store and the request have belong to the sessions they did.
LEMMA NotEndedKept ==
    ASSUME Typed, LogoutInv, OwnersKept, ended' = ended,
           NEW t \in {stored.access, stored.refresh, session.access, session.refresh, None}
    PROVE  t # None => tokens'[t].login \notin ended'
  <1>1. t \in DOMAIN tokens \cup {None}
    BY TokensKnown DEF Typed, KnownSession
  <1> QED
    BY <1>1 DEF LogoutInv, NotEnded, OwnersKept

\* A call that waits is not disturbed.
LEMMA EndingKept ==
    ASSUME Typed, LogoutInv, OwnersKept, DOMAIN tokens \subseteq DOMAIN tokens', ended' = ended,
           alive' \cap DOMAIN tokens \subseteq alive,
           session' = session \/ session' = NoSession \/ (session.exists /\ session' # NoSession),
           NEW c \in Calls, call'[c] = call[c]
    PROVE  Ending(c)'
  <1>1. call[c].token \in DOMAIN tokens \cup {None} /\ Ending(c)
    BY CallType, TokensKnown DEF LogoutInv
  <1>2. call[c].phase = "destroy" => session' = NoSession
    BY <1>1 DEF Ending, NoSession
  <1>3. session'.exists => session.exists
    BY DEF NoSession
  <1>4. call[c].phase = "build" /\ session'.exists => (call[c].token # None =>
          tokens'[call[c].token].login \notin ended')
    BY <1>1, <1>3 DEF Ending, NotEnded, OwnersKept
  <1>5. call[c].phase \in {"clear", "destroy"} => call[c].logins \subseteq DOMAIN tokens' \ alive'
    BY <1>1 DEF Ending
  <1> QED
    BY <1>2, <1>4, <1>5 DEF Ending, NotEnded

\* The store and the request keep no tokens but those they had.
LEMMA LogoutKept ==
    ASSUME Typed, LogoutInv, OwnersKept, DOMAIN tokens \subseteq DOMAIN tokens',
           \A t \in DOMAIN tokens' \ DOMAIN tokens : tokens'[t].login \in DOMAIN tokens',
           alive' \subseteq alive, ended' = ended,
           stored'.access \in {stored.access, session.access, None},
           stored'.refresh \in {stored.refresh, session.refresh, None},
           session'.access \in {stored.access, session.access, None},
           session'.refresh \in {stored.refresh, session.refresh, None},
           \A d \in Calls : Ending(d)'
    PROVE  LogoutInv'
  <1>1. /\ NotEnded(stored.access)' /\ NotEnded(stored.refresh)'
        /\ NotEnded(session.access)' /\ NotEnded(session.refresh)'
    BY NotEndedKept DEF NotEnded
  <1>2. ended' \cap alive' = {} /\ ended' \cup alive' \subseteq DOMAIN tokens'
    BY DEF LogoutInv
  <1>3. \A t \in DOMAIN tokens' : tokens'[t].login \in DOMAIN tokens'
    BY DEF LogoutInv, OwnersKept
  <1> QED
    BY <1>1, <1>2, <1>3 DEF LogoutInv

LEMMA LogoutStep ==
    ASSUME BaseInv, LogoutInv, [Next]_vars
    PROVE  LogoutInv'
  <1>1. Typed /\ None \in Known /\ \A d \in Calls : Ending(d)
    BY SameRequest DEF BaseInv, LogoutInv
  <1>2. ASSUME NEW c \in Calls, Begin(c)
        PROVE  LogoutInv'
    <2>1. UNCHANGED <<tokens, alive, stored, session, ended>>
      BY <1>2, BeginEffect DEF requestVars, histories
    <2>2. /\ call'[c].phase \notin {"destroy", "build"} /\ (call'[c].phase = "clear" => call'[c].logins = {})
          /\ \A d \in Calls \ {c} : call'[d] = call[d]
      BY <1>2, BeginEffect
    <2>3. Ending(c)'
      BY <2>2 DEF Ending
    <2>4. \A d \in Calls : Ending(d)'
      BY <1>1, <2>1, <2>2, <2>3, EndingKept DEF OwnersKept
    <2> QED
      BY <1>1, <2>1, <2>4, LogoutKept DEF OwnersKept
  <1>3. ASSUME NEW c \in Calls, Continue(c)
        PROVE  LogoutInv'
    <2>1. \A d \in Calls \ {c} : call'[d] = call[d]
      BY <1>3, OneCallMoves
    <2>2. call[c] \in Call /\ CallFits(call[c], tokens) /\ call[c].token \in DOMAIN tokens \cup {None}
      BY <1>1, CallType, TokensKnown DEF BaseInv, KnownCall
    <2>3. CASE Revoked(c)
      <3>1. /\ alive' = alive \ {tokens[call[c].token].login} /\ call[c].phase = "revoke"
            /\ Enters(c, "clear") /\ UNCHANGED <<tokens, stored, session, ended>>
        BY <2>3 DEF Revoked, requestVars, histories
      <3>2. /\ call[c].logins = {tokens[call[c].token].login}
            /\ tokens[call[c].token].login \in DOMAIN tokens
        BY <2>2, <3>1 DEF CallFits, Equipped, LogoutInv
      <3>3. call'[c].phase = "clear" /\ call'[c].logins = call[c].logins
        BY <1>1, <3>1, EntersEffect
      <3>4. Ending(c)'
        BY <3>1, <3>2, <3>3 DEF Ending
      <3>5. \A d \in Calls : Ending(d)'
        BY <1>1, <2>1, <3>1, <3>4, EndingKept DEF OwnersKept
      <3> QED
        BY <1>1, <3>1, <3>5, LogoutKept DEF OwnersKept
    <2>4. CASE RevocationFails(c)
      <3>1. /\ UNCHANGED <<tokens, alive, stored, session, ended>>
            /\ Goes(c, [call[c] EXCEPT !.phase = "clear", !.logins = {}])
        BY <2>4 DEF RevocationFails, requestVars, histories
      <3>2. call'[c].phase = "clear" /\ call'[c].logins = {}
        BY <1>1, <2>2, <3>1 DEF Typed, Goes, Call
      <3>3. Ending(c)'
        BY <3>2 DEF Ending
      <3>4. \A d \in Calls : Ending(d)'
        BY <1>1, <2>1, <3>1, <3>3, EndingKept DEF OwnersKept
      <3> QED
        BY <1>1, <3>1, <3>4, LogoutKept DEF OwnersKept
    <2>5. CASE ClearSession(c)
      <3> DEFINE r == [call[c] EXCEPT !.phase = "destroy", !.token = None]
                 done == Settled(call[c].service, None)
      <3>1. /\ UNCHANGED <<tokens, alive, stored, ended>> /\ session' = NoSession
            /\ call[c].phase = "clear" /\ Goes(c, IF session.exists THEN r ELSE done)
        BY <2>5 DEF ClearSession, DetachSession, histories
      <3>2. r.phase = "destroy" /\ r.logins = call[c].logins /\ done.phase = "settled"
        BY <2>2 DEF Call, Settled
      <3> HIDE DEF r, done
      <3>3. \/ call'[c].phase = "destroy" /\ call'[c].logins = call[c].logins
            \/ call'[c].phase = "settled"
        BY <1>1, <3>1, <3>2, GoesEffect
      <3>4. Ending(c)'
        BY <1>1, <3>1, <3>3 DEF Ending
      <3>5. \A d \in Calls : Ending(d)'
        BY <1>1, <2>1, <3>1, <3>4, EndingKept DEF OwnersKept
      <3>6. session'.access = None /\ session'.refresh = None
        BY <3>1 DEF NoSession
      <3> QED
        BY <1>1, <3>1, <3>5, <3>6, LogoutKept DEF OwnersKept
    <2>6. CASE Destroyed(c)
      <3>1. /\ UNCHANGED <<tokens, alive, session>> /\ stored' = NoSession
            /\ ended' = ended \cup call[c].logins /\ call[c].phase = "destroy"
            /\ Goes(c, Settled(call[c].service, None))
        BY <2>6 DEF Destroyed, requestVars
      <3>2. session = NoSession /\ call[c].logins \subseteq DOMAIN tokens \ alive
        BY <1>1, <3>1 DEF Ending
      <3>3. call'[c].phase = "settled"
        BY <1>1, <3>1, GoesEffect DEF Settled
      <3>4. /\ NotEnded(stored.access)' /\ NotEnded(stored.refresh)'
            /\ NotEnded(session.access)' /\ NotEnded(session.refresh)'
        BY <3>1, <3>2 DEF NotEnded, NoSession
      <3>5. \A d \in Calls : Ending(d)'
        BY <1>1, <2>1, <3>1, <3>2, <3>3 DEF Ending, NoSession
      <3> QED
        BY <3>1, <3>2, <3>4, <3>5 DEF LogoutInv
    <2>7. CASE Exchanged(c)
      <3> DEFINE login == tokens'[NewToken].login
      <3>1. /\ DOMAIN tokens' = DOMAIN tokens \cup {NewToken} /\ NewToken \notin DOMAIN tokens
            /\ OwnersKept
            /\ login \in alive \cup {NewToken} /\ alive' = alive \cup {login}
        BY <2>7, ExchangedEffect
      <3>2. /\ UNCHANGED <<stored, session, ended>>
            /\ call'[c].phase = "build" /\ call'[c].token = NewToken
        BY <2>7, ExchangedEffect DEF requestVars, histories
      <3>3. login \notin ended /\ ended \cap alive = {} /\ ended \cup alive \subseteq DOMAIN tokens
        BY <3>1 DEF LogoutInv
      <3>4. Ending(c)'
        BY <3>2, <3>3 DEF Ending, NotEnded
      <3>5. \A d \in Calls : Ending(d)'
        BY <1>1, <2>1, <3>1, <3>2, <3>4, EndingKept
      <3>6. /\ NotEnded(stored.access)' /\ NotEnded(stored.refresh)'
            /\ NotEnded(session.access)' /\ NotEnded(session.refresh)'
        BY <1>1, <3>1, <3>2, NotEndedKept DEF NotEnded
      <3>7. \A t \in DOMAIN tokens' : tokens'[t].login \in DOMAIN tokens'
        BY <3>1, <3>3 DEF LogoutInv, OwnersKept
      <3> QED
        BY <3>1, <3>2, <3>3, <3>5, <3>6, <3>7 DEF LogoutInv
    <2>8. CASE Built(c)
      <3>1. /\ session'.access \in {session.access, call[c].token}
            /\ session'.refresh \in {session.refresh, call[c].token, None}
            /\ ~session.exists => session' = session
            /\ call'[c].phase = "roles" /\ UNCHANGED <<tokens, alive, stored, ended>>
        BY <2>8, BuiltEffect
      <3>2. call[c].phase = "build"
        BY <2>8 DEF Built
      <3>3. Ending(c)'
        BY <3>1 DEF Ending
      <3>4. session' = session \/ session' = NoSession \/ (session.exists /\ session' # NoSession)
        BY <3>1
      <3>5. \A d \in Calls : Ending(d)'
        BY <1>1, <2>1, <3>1, <3>3, <3>4, EndingKept DEF OwnersKept
      <3>6. session.exists => NotEnded(call[c].token)
        BY <1>1, <3>2 DEF Ending
      <3>7. /\ NotEnded(stored.access)' /\ NotEnded(stored.refresh)'
            /\ NotEnded(session.access)' /\ NotEnded(session.refresh)'
        BY <3>1, <3>6 DEF LogoutInv, NotEnded
      <3> QED
        BY <3>1, <3>5, <3>7 DEF LogoutInv
    <2>9. CASE /\ ~Revoked(c) /\ ~RevocationFails(c) /\ ~ClearSession(c) /\ ~Destroyed(c)
               /\ ~Exchanged(c) /\ ~Built(c)
      <3>1. call'[c].phase \notin {"clear", "destroy", "build"}
        BY <1>3, <2>9, ContinuePhases
      <3>2. UNCHANGED <<alive, stored, session, ended>>
        <4>1. CASE FinishGrant(c)
          BY <4>1, FinishGrantEffect DEF requestVars, histories
        <4>2. CASE ~FinishGrant(c)
          BY <1>3, <2>9, <4>2 DEF Continue, ResolveShared, ResolveTokens, ResolveNothing, Refreshed,
             RefreshRefused, RefreshLost, LookedValid, Validated, Invalid, SetRoles, FinishCleared,
             FetchedUserInfo, NoUserInfo, ExchangeRefused, BuildFails, DestroyFails,
             requestVars, histories
        <4> QED
          BY <4>1, <4>2
      <3>3. /\ OwnersKept /\ DOMAIN tokens \subseteq DOMAIN tokens'
            /\ \A t \in DOMAIN tokens' \ DOMAIN tokens : tokens'[t].login \in DOMAIN tokens'
        <4>1. CASE Refreshed(c)
          <5>1. /\ OwnersKept /\ DOMAIN tokens' = DOMAIN tokens \cup {NewToken}
                /\ tokens'[NewToken].login = tokens[call[c].token].login
                /\ call[c].token \in DOMAIN tokens
            BY <4>1, RefreshedEffect
          <5> QED
            BY <5>1 DEF LogoutInv
        <4>2. CASE RefreshLost(c)
          <5>1. tokens' = Spent(call[c].token)
            BY <4>2 DEF RefreshLost
          <5>2. DOMAIN tokens' = DOMAIN tokens
            BY <5>1 DEF Spent
          <5>3. OwnersKept
            BY <1>1, <5>1, SpentEffect DEF OwnersKept
          <5> QED
            BY <5>2, <5>3
        <4>3. CASE FinishGrant(c)
          BY <4>3, FinishGrantEffect DEF OwnersKept
        <4>4. CASE ~Refreshed(c) /\ ~RefreshLost(c) /\ ~FinishGrant(c)
          <5>1. tokens' = tokens
            BY <1>3, <2>9, <4>4 DEF Continue, ResolveShared, ResolveTokens, ResolveNothing,
               RefreshRefused, LookedValid, Validated, Invalid, SetRoles, FinishCleared,
               FetchedUserInfo, NoUserInfo, ExchangeRefused, BuildFails, DestroyFails
          <5> QED
            BY <5>1 DEF OwnersKept
        <4> QED
          BY <4>1, <4>2, <4>3, <4>4
      <3>4. Ending(c)'
        BY <3>1 DEF Ending
      <3>5. \A d \in Calls : Ending(d)'
        BY <1>1, <2>1, <3>2, <3>3, <3>4, EndingKept
      <3> QED
        BY <1>1, <3>2, <3>3, <3>5, LogoutKept
    <2> QED
      BY <2>3, <2>4, <2>5, <2>6, <2>7, <2>8, <2>9
  <1>4. CASE NextRequest
    <2>1. /\ stored' = (IF session.exists THEN session ELSE stored) /\ session' = Opened(stored')
          /\ call' = [d \in Calls |-> Settled(call[d].service, None)]
          /\ UNCHANGED <<tokens, alive, ended>>
      BY <1>4 DEF NextRequest
    <2>2. /\ stored'.access \in {stored.access, session.access}
          /\ stored'.refresh \in {stored.refresh, session.refresh}
      BY <2>1
    <2>3. session'.access \in {stored'.access, None} /\ session'.refresh \in {stored'.refresh, None}
      BY <2>1 DEF Opened, EmptySession, NoSession
    <2>4. \A d \in Calls : call'[d].phase = "settled"
      BY <2>1 DEF Settled
    <2>5. \A d \in Calls : Ending(d)'
      BY <2>4 DEF Ending
    <2> QED
      BY <1>1, <2>1, <2>2, <2>3, <2>5, LogoutKept DEF OwnersKept
  <1>5. CASE Expire \/ ExpireRefresh
    <2>1. OwnersKept /\ DOMAIN tokens' = DOMAIN tokens
      BY <1>1, <1>5, ExpiresEffect
    <2>2. UNCHANGED <<alive, stored, session, call, ended>>
      BY <1>5 DEF Expire, ExpireRefresh, requestVars, histories
    <2>3. \A d \in Calls : Ending(d)'
      BY <1>1, <2>1, <2>2, EndingKept
    <2> QED
      BY <1>1, <2>1, <2>2, <2>3, LogoutKept
  <1>6. CASE SessionEnds \/ UNCHANGED vars
    <2>1. alive' \subseteq alive /\ UNCHANGED <<tokens, stored, session, call, ended>>
      BY <1>6 DEF SessionEnds, vars, requestVars, histories
    <2>2. \A d \in Calls : Ending(d)'
      BY <1>1, <2>1, EndingKept DEF OwnersKept
    <2> QED
      BY <1>1, <2>1, <2>2, LogoutKept DEF OwnersKept
  <1> QED
    BY <1>2, <1>3, <1>4, <1>5, <1>6 DEF Next

\* "Still ends up with a dead keycloak session": whatever logins, renewals and
\* other calls overlap it, after a logout that Keycloak and the store have
\* answered the Keycloak session it was for is dead and stays so, and the store
\* has no tokens of it for the next request.
THEOREM LogoutsEndSessions == Spec => []LogoutEnds
  <1>1. Init => LogoutInv
    <2> SUFFICES ASSUME Init
                 PROVE  LogoutInv
      OBVIOUS
    <2>1. PICK freshOfSession, freshOfBearer \in BOOLEAN :
            tokens = IF Bearers
                     THEN <<Pair(SessionUser, 1, freshOfSession), Pair(BearerUser, 2, freshOfBearer)>>
                     ELSE <<Pair(SessionUser, 1, freshOfSession)>>
      BY DEF Init
    <2>2. \A t \in DOMAIN tokens : tokens[t].login = t
      <3>1. CASE Bearers
        BY <2>1, <3>1 DEF Pair
      <3>2. CASE ~Bearers
        BY <2>1, <3>2 DEF Pair
      <3> QED
        BY <3>1, <3>2
    <2>3. alive = DOMAIN tokens /\ ended = {}
      BY DEF Init
    <2>4. \A c \in Calls : call[c].phase = "settled"
      BY DEF Init, Settled
    <2> QED
      BY <2>2, <2>3, <2>4 DEF LogoutInv, NotEnded, Ending
  <1>2. BaseInv /\ LogoutInv /\ [Next]_vars => LogoutInv'
    BY LogoutStep
  <1>3. LogoutInv => LogoutEnds
    BY DEF LogoutInv, LogoutEnds, NotEnded
  <1> QED
    BY <1>1, <1>2, <1>3, GrantInvariant, PTL DEF Spec

-----------------------------------------------------------------------------
(* Renewal *)

\* A grant that some call holds was made from a token that was issued.
LEMMA HeldToken ==
    ASSUME BaseInv, NEW c \in Calls, call[c].grant # None
    PROVE  call[c].grant \in Grants /\ heap[call[c].grant].access \in DOMAIN tokens
  <1>1. call[c].grant \in Grants /\ call[c].grant \in Referenced \ {None}
    BY CallType DEF BaseInv, Referenced
  <1>2. heap[call[c].grant].access # None /\ heap[call[c].grant].access \in Known
    BY <1>1 DEF BaseInv, Typed, Filled, KnownGrant
  <1> QED
    BY <1>1, <1>2, TokensKnown DEF BaseInv

\* Issuing tokens spends none.
LEMMA UnspentKept ==
    ASSUME RenewedInv, UNCHANGED rotation,
           \A t \in DOMAIN tokens' \ DOMAIN tokens : tokens'[t].spent = FALSE,
           ~rotation => \A t \in DOMAIN tokens : tokens'[t] = tokens[t]
    PROVE  ~rotation' => Unspent'
  BY DEF RenewedInv, Unspent

\* What a call validates stays as it is or is renewed.
LEMMA RenewedKept ==
    ASSUME BaseInv, RenewedInv, UNCHANGED faults, ~rotation' => Unspent',
           \A t \in DOMAIN tokens : tokens'[t].fresh = tokens[t].fresh,
           \A c \in Calls :
             \/ call'[c].phase # "validate"
             \/ Renewed(c)'
             \/ call'[c] = call[c] /\ heap'[call[c].grant] = heap[call[c].grant]
    PROVE  RenewedInv'
  <1>1. ASSUME ~faults, NEW c \in Calls, call'[c].phase = "validate",
               call'[c] = call[c], heap'[call[c].grant] = heap[call[c].grant]
        PROVE  Renewed(c)'
    <2>1. call[c].grant # None
      BY <1>1 DEF BaseInv, CallFits, Equipped
    <2>2. heap[call[c].grant].access \in DOMAIN tokens
      BY <2>1, HeldToken
    <2>3. heap[call[c].grant].refresh = None \/ tokens[heap[call[c].grant].access].fresh
      BY <1>1 DEF RenewedInv, Renewed, Fresh
    <2> QED
      BY <1>1, <2>2, <2>3 DEF Renewed, Fresh
  <1>2. \A c \in Calls : call'[c].phase # "validate" => Renewed(c)'
    BY DEF Renewed
  <1> QED
    BY <1>1, <1>2 DEF RenewedInv

LEMMA TokensKept ==
    ASSUME BaseInv, RenewedInv, given' = given, tokens' = tokens,
           \A c \in Calls :
             \/ call'[c].phase # "validate"
             \/ Renewed(c)'
             \/ call'[c] = call[c] /\ heap'[call[c].grant] = heap[call[c].grant]
    PROVE  RenewedInv'
  <1>1. rotation' = rotation /\ faults' = faults
    BY DEF given
  <1>2. ~rotation' => Unspent'
    BY <1>1 DEF RenewedInv, Unspent
  <1>3. \A t \in DOMAIN tokens : tokens'[t].fresh = tokens[t].fresh
    OBVIOUS
  <1> QED
    BY <1>1, <1>2, <1>3, RenewedKept

\* A grant whose renewal is not due has no refresh token, or is fresh.
LEMMA NotDue ==
    ASSUME EnsureFreshness = TRUE, NEW grant, RenewalDue(grant) = "validate"
    PROVE  grant.refresh = None \/ Fresh(grant.access)
  BY DEF RenewalDue

\* A new grant replaces none that a call validates.
LEMMA ValidatedKept ==
    ASSUME BaseInv, NewGrant \notin Referenced,
           \A g \in Grants \ {NewGrant} : heap'[g] = heap[g],
           NEW c \in Calls, call[c].phase = "validate"
    PROVE  heap'[call[c].grant] = heap[call[c].grant]
  <1>1. call[c].grant # None /\ call[c].grant \in Referenced
    BY DEF BaseInv, CallFits, Equipped, Referenced
  <1> QED
    BY <1>1, HeldToken

LEMMA RenewedStep ==
    ASSUME EnsureFreshness = TRUE, BaseInv, RenewedInv, [Next]_vars
    PROVE  RenewedInv'
  <1>1. Typed
    BY DEF BaseInv
  <1>2. ASSUME NEW c \in Calls, Begin(c)
        PROVE  RenewedInv'
    <2>1. UNCHANGED <<given, tokens, heap>>
      BY <1>2, BeginEffect DEF requestVars, histories
    <2>2. call'[c].phase # "validate" /\ \A d \in Calls \ {c} : call'[d] = call[d]
      BY <1>2, BeginEffect
    <2> QED
      BY <2>1, <2>2, TokensKept
  <1>3. ASSUME NEW c \in Calls, Continue(c)
        PROVE  RenewedInv'
    <2>1. \A d \in Calls \ {c} : call'[d] = call[d]
      BY <1>3, OneCallMoves
    <2>2. CASE ResolveShared(c)
      <3>1. UNCHANGED <<given, tokens, heap>>
        BY <2>2 DEF ResolveShared, requestVars
      <3>2. call'[c].phase = RenewalDue(heap[kauth]) /\ call'[c].grant = kauth
        BY <2>2, ResolveSharedEffect
      <3>3. Renewed(c)'
        BY <3>1, <3>2, NotDue DEF Renewed, Fresh
      <3> QED
        BY <2>1, <3>1, <3>3, TokensKept
    <2>3. CASE ResolveTokens(c)
      <3>1. UNCHANGED <<given, tokens>>
        BY <2>3 DEF ResolveTokens
      <3>2. /\ NewGrant \notin Referenced
            /\ call'[c].phase = RenewalDue(heap'[NewGrant]) /\ call'[c].grant = NewGrant
            /\ \A g \in Grants \ {NewGrant} : heap'[g] = heap[g]
        BY <2>3, ResolveTokensEffect
      <3>3. Renewed(c)'
        BY <3>1, <3>2, NotDue DEF Renewed, Fresh
      <3>4. \A d \in Calls \ {c} : call[d].phase = "validate" =>
              heap'[call[d].grant] = heap[call[d].grant]
        BY <3>2, ValidatedKept
      <3> QED
        BY <2>1, <3>1, <3>3, <3>4, TokensKept
    <2>4. CASE Refreshed(c)
      <3>1. rotation' = rotation /\ faults' = faults
        BY <2>4 DEF Refreshed, given
      <3>2. /\ heap'[call[c].grant] = [access |-> NewToken, refresh |-> NewToken]
            /\ \A g \in Grants \ {call[c].grant} : heap'[g] = heap[g]
            /\ tokens'[NewToken].fresh /\ call'[c].grant = call[c].grant
        BY <2>4, RefreshedEffect
      <3>3. /\ DOMAIN tokens' = DOMAIN tokens \cup {NewToken} /\ tokens'[NewToken].spent = FALSE
            /\ \A t \in DOMAIN tokens : /\ tokens'[t].fresh = tokens[t].fresh
                                        /\ ~rotation => tokens'[t] = tokens[t]
        BY <2>4, RefreshedEffect
      <3>4. ~rotation' => Unspent'
        BY <3>1, <3>3, UnspentKept
      <3>5. tokens'[heap'[call[c].grant].access].fresh
        BY <3>2
      <3>6. ASSUME NEW d \in Calls, call'[d].phase = "validate"
            PROVE  \/ Renewed(d)'
                   \/ call'[d] = call[d] /\ heap'[call[d].grant] = heap[call[d].grant]
        <4>1. CASE call'[d].grant = call[c].grant
          BY <3>5, <4>1 DEF Renewed, Fresh
        <4>2. CASE call'[d].grant # call[c].grant
          <5>1. call'[d] = call[d] /\ call[d].grant # None
            BY <2>1, <3>2, <3>6, <4>2 DEF BaseInv, CallFits, Equipped
          <5>2. call[d].grant \in Grants
            BY <5>1, HeldToken
          <5> QED
            BY <3>2, <4>2, <5>1, <5>2
        <4> QED
          BY <4>1, <4>2
      <3> QED
        BY <3>1, <3>3, <3>4, <3>6, RenewedKept
    <2>5. CASE Exchanged(c)
      <3>1. rotation' = rotation /\ faults' = faults /\ heap' = heap
        BY <2>5 DEF Exchanged, given, requestVars
      <3>2. call'[c].phase = "build"
        BY <2>5, ExchangedEffect
      <3>3. /\ DOMAIN tokens' = DOMAIN tokens \cup {NewToken} /\ tokens'[NewToken].spent = FALSE
            /\ \A t \in DOMAIN tokens : /\ tokens'[t].fresh = tokens[t].fresh
                                        /\ ~rotation => tokens'[t] = tokens[t]
        BY <2>5, ExchangedEffect
      <3>4. ~rotation' => Unspent'
        BY <3>1, <3>3, UnspentKept
      <3> QED
        BY <2>1, <3>1, <3>2, <3>3, <3>4, RenewedKept
    <2>6. CASE Built(c)
      <3>1. UNCHANGED <<given, tokens>>
        BY <2>6 DEF Built
      <3>2. /\ NewGrant \notin Referenced /\ call'[c].phase = "roles"
            /\ \A g \in Grants \ {NewGrant} : heap'[g] = heap[g]
        BY <2>6, BuiltEffect
      <3>3. \A d \in Calls \ {c} : call[d].phase = "validate" =>
              heap'[call[d].grant] = heap[call[d].grant]
        BY <3>2, ValidatedKept
      <3> QED
        BY <2>1, <3>1, <3>2, <3>3, TokensKept
    <2>7. CASE RefreshLost(c)
      <3>1. rotation' = rotation /\ faults' = faults /\ heap' = heap /\ tokens' = Spent(call[c].token)
        BY <2>7 DEF RefreshLost, given
      <3>2. call'[c].phase # "validate"
        <4>1. Goes(c, Failed(call[c].service)) /\ call[c].service \in Services /\ None \in Known
          BY <2>7, CallType, SameRequest DEF RefreshLost, Fails, BaseInv
        <4>2. call'[c] = Failed(call[c].service)
          BY <1>1, <4>1, GoesEffect
        <4> QED
          BY <1>1, <4>1, <4>2, EndedCall
      <3>3. /\ DOMAIN tokens' = DOMAIN tokens
            /\ \A t \in DOMAIN tokens : /\ tokens'[t].fresh = tokens[t].fresh
                                        /\ ~rotation => tokens'[t] = tokens[t]
        <4>1. DOMAIN tokens' = DOMAIN tokens
          BY <3>1 DEF Spent
        <4>2. \A t \in DOMAIN tokens : /\ tokens'[t].fresh = tokens[t].fresh
                                       /\ ~rotation => tokens'[t] = tokens[t]
          BY <1>1, <3>1, SpentEffect
        <4> QED
          BY <4>1, <4>2
      <3>4. ~rotation' => Unspent'
        BY <3>1, <3>3, UnspentKept
      <3> QED
        BY <2>1, <3>1, <3>2, <3>3, <3>4, RenewedKept
    <2>8. CASE /\ ~ResolveShared(c) /\ ~ResolveTokens(c) /\ ~Refreshed(c)
               /\ ~Exchanged(c) /\ ~Built(c) /\ ~RefreshLost(c)
      <3>1. call'[c].phase # "validate"
        BY <1>3, <2>8, ContinuePhases
      <3>2. UNCHANGED <<given, tokens, heap>>
        <4>1. CASE FinishGrant(c)
          BY <4>1, FinishGrantEffect DEF requestVars, histories
        <4>2. CASE ~FinishGrant(c)
          BY <1>3, <2>8, <4>2 DEF Continue, ResolveNothing, RefreshRefused, LookedValid, Validated, Invalid,
             SetRoles, FinishCleared, FetchedUserInfo, NoUserInfo, ExchangeRefused, BuildFails, Revoked,
             RevocationFails, ClearSession, Destroyed, DestroyFails, requestVars
        <4> QED
          BY <4>1, <4>2
      <3> QED
        BY <2>1, <3>1, <3>2, TokensKept
    <2> QED
      BY <2>2, <2>3, <2>4, <2>5, <2>6, <2>7, <2>8
  <1>4. CASE NextRequest
    <2>1. UNCHANGED <<given, tokens>> /\ call' = [d \in Calls |-> Settled(call[d].service, None)]
      BY <1>4 DEF NextRequest
    <2>2. \A d \in Calls : call'[d].phase = "settled"
      BY <2>1 DEF Settled
    <2> QED
      BY <2>1, <2>2, TokensKept
  <1>5. CASE Expire
    <2>1. PICK t \in DOMAIN tokens :
            /\ tokens' = [tokens EXCEPT ![t] = [@ EXCEPT !.fresh = FALSE]]
            /\ faults \/ \A c \in Calls : call[c].phase = "validate" => heap[call[c].grant].access # t
      BY <1>5 DEF Expire
    <2>2. /\ DOMAIN tokens' = DOMAIN tokens
          /\ \A u \in DOMAIN tokens : tokens'[u].spent = tokens[u].spent
      BY <1>1, <1>5, ExpiresEffect
    <2>3. rotation' = rotation /\ faults' = faults /\ heap' = heap /\ call' = call
      BY <1>5 DEF Expire, given, requestVars
    <2>4. ~rotation' => Unspent'
      BY <2>2, <2>3 DEF RenewedInv, Unspent
    <2>5. ASSUME ~faults, NEW c \in Calls
          PROVE  Renewed(c)'
      <3>1. SUFFICES ASSUME call[c].phase = "validate"
                     PROVE  Renewed(c)'
        BY <2>3 DEF Renewed
      <3>2. call[c].grant # None
        BY <3>1 DEF BaseInv, CallFits, Equipped
      <3>3. heap[call[c].grant].access \in DOMAIN tokens /\ heap[call[c].grant].access # t
        BY <2>1, <2>5, <3>1, <3>2, HeldToken
      <3>4. tokens'[heap[call[c].grant].access] = tokens[heap[call[c].grant].access]
        BY <2>1, <3>3
      <3> QED
        BY <2>3, <2>5, <3>1, <3>4 DEF RenewedInv, Renewed, Fresh
    <2> QED
      BY <2>3, <2>4, <2>5 DEF RenewedInv
  <1>6. CASE ExpireRefresh
    <2>1. PICK t \in DOMAIN tokens : tokens' = [tokens EXCEPT ![t] = [@ EXCEPT !.renewable = FALSE]]
      BY <1>6 DEF ExpireRefresh
    <2>2. [tokens[t] EXCEPT !.renewable = FALSE].fresh = tokens[t].fresh
      BY <1>1, TokensKnown DEF Issued
    <2>3. \A u \in DOMAIN tokens : tokens'[u].fresh = tokens[u].fresh
      BY <2>1, <2>2
    <2>4. /\ DOMAIN tokens' = DOMAIN tokens
          /\ \A u \in DOMAIN tokens : tokens'[u].spent = tokens[u].spent
      BY <1>1, <1>6, ExpiresEffect
    <2>5. rotation' = rotation /\ faults' = faults /\ heap' = heap /\ call' = call
      BY <1>6 DEF ExpireRefresh, given, requestVars
    <2>6. ~rotation' => Unspent'
      BY <2>4, <2>5 DEF RenewedInv, Unspent
    <2> QED
      BY <2>3, <2>5, <2>6, RenewedKept
  <1>7. CASE SessionEnds \/ UNCHANGED vars
    <2>1. UNCHANGED <<given, tokens, heap, call>>
      BY <1>7 DEF SessionEnds, vars, requestVars
    <2> QED
      BY <2>1, TokensKept
  <1> QED
    BY <1>2, <1>3, <1>4, <1>5, <1>6, <1>7 DEF Next

\* Why a call of the getting methods cannot fail
LEMMA AnsweredStep ==
    ASSUME EnsureFreshness = TRUE, BaseInv, RenewedInv, [Next]_vars,
           ~rotation, ~faults, Lasting,
           NEW c \in Calls, call[c].op \in GettingOps \cup InfoOps,
           call[c].grant # None => heap[call[c].grant].refresh # None
    PROVE  call'[c].phase # "failed"
  <1>1. /\ Typed /\ CallFits(call[c], tokens) /\ call[c].token \in Known
        /\ call[c].phase \in GettingPhases \cup {"fetch"}
    BY CallType DEF BaseInv, CallFits, Staged
  <1>2. CASE call'[c] = call[c]
    BY <1>1, <1>2 DEF GettingPhases
  <1>3. CASE Begin(c)
    BY <1>3, BeginEffect
  <1>4. CASE Continue(c)
    <2>1. ~RefreshRefused(c) /\ ~RefreshLost(c)
      <3>1. SUFFICES ASSUME call[c].phase = "refresh"
                     PROVE  Usable(call[c].token)
        BY DEF RefreshRefused, RefreshLost
      <3>2. call[c].token \in DOMAIN tokens
        BY <1>1, <3>1, TokensKnown DEF CallFits, Equipped
      <3>3. ~tokens[call[c].token].spent
        BY <3>2 DEF RenewedInv, Unspent
      <3>4. Alive(call[c].token) /\ tokens[call[c].token].renewable
        BY <3>2 DEF Lasting
      <3> QED
        BY <3>3, <3>4 DEF Usable
    <2>2. ~Invalid(c)
      <3>1. SUFFICES ASSUME call[c].phase = "validate"
                     PROVE  Valid(c)
        BY DEF Invalid
      <3>2. call[c].grant # None
        BY <1>1, <3>1 DEF CallFits, Equipped
      <3> QED
        BY <3>1, <3>2 DEF RenewedInv, Renewed, Valid
    <2>3. ~NoUserInfo(c)
      <3>1. SUFFICES ASSUME call[c].phase = "fetch"
                     PROVE  Alive(call[c].token)
        BY DEF NoUserInfo
      <3>2. call[c].token \in DOMAIN tokens
        BY <1>1, <3>1, TokensKnown DEF CallFits, Equipped
      <3> QED
        BY <3>2 DEF Lasting
    <2>4. ~ExchangeRefused(c) /\ ~BuildFails(c) /\ ~DestroyFails(c)
      BY <1>1 DEF ExchangeRefused, BuildFails, DestroyFails, GettingPhases
    <2> QED
      BY <1>4, <2>1, <2>2, <2>3, <2>4, ContinuePhases
  <1>5. ASSUME NEW d \in Calls \ {c}, Begin(d) \/ Continue(d)
        PROVE  call'[c] = call[c]
    BY <1>5, OneCallMoves
  <1>6. CASE NextRequest
    BY <1>6 DEF NextRequest, Settled
  <1>7. CASE Expire \/ ExpireRefresh \/ SessionEnds \/ UNCHANGED vars
    BY <1>2, <1>7 DEF Expire, ExpireRefresh, SessionEnds, vars
  <1> QED
    BY <1>2, <1>3, <1>4, <1>5, <1>6, <1>7 DEF Next

\* "Automatically renews it with the refresh token if it finds it was expired":
\* if ensureFreshness is set, Keycloak does not rotate refresh tokens, nothing
\* faults, and no Keycloak session has ended and no refresh token expired, no
\* call of the getting methods fails, whatever calls overlap it and however long
\* ago the access token expired, unless its grant has no refresh token.
THEOREM SessionsAreAnswered ==
    ASSUME EnsureFreshness = TRUE
    PROVE  Spec => SessionAnswered
  <1>1. Init => RenewedInv
    <2>1. SUFFICES ASSUME Init
                   PROVE  RenewedInv
      OBVIOUS
    <2>2. PICK freshOfSession, freshOfBearer \in BOOLEAN :
            tokens = IF Bearers
                     THEN <<Pair(SessionUser, 1, freshOfSession), Pair(BearerUser, 2, freshOfBearer)>>
                     ELSE <<Pair(SessionUser, 1, freshOfSession)>>
      BY <2>1 DEF Init
    <2>3. Unspent
      <3>1. CASE Bearers
        BY <2>2, <3>1 DEF Unspent, Pair
      <3>2. CASE ~Bearers
        BY <2>2, <3>2 DEF Unspent, Pair
      <3> QED
        BY <3>1, <3>2
    <2>4. \A c \in Calls : call[c].phase = "settled"
      BY <2>1 DEF Init, Settled
    <2> QED
      BY <2>3, <2>4 DEF RenewedInv, Renewed
  <1>2. BaseInv /\ RenewedInv /\ [Next]_vars => RenewedInv'
    BY RenewedStep
  <1>3. BaseInv /\ RenewedInv /\ [Next]_vars =>
          [(~rotation /\ ~faults /\ Lasting /\ header = None /\ session.refresh # None) => NoneFails]_vars
    BY AnsweredStep DEF GettingOps, NoneFails
  <1> QED
    BY <1>1, <1>2, <1>3, GrantInvariant, PTL DEF Spec, SessionAnswered

=============================================================================
