------------------------------- MODULE AuthState -------------------------------
(***************************************************************************)
(* The pending oauth states of src/authState.ts as pure operators.         *)
(*                                                                         *)
(* A pending state is a random value with an expiry.  Values are issue     *)
(* numbers here: they are unique like the 256 random bits, and the list in *)
(* the session is append-only, so its order is the order of the numbers    *)
(* and the list is modelled by the set of its entries.                     *)
(***************************************************************************)
EXTENDS Naturals, FiniteSets

CONSTANTS MaxPending,    \* MAX_PENDING_STATES (10 in the code)
          Ttl            \* authorizationStateTtl, in ticks of the clock

ASSUME MaxPendingAssumption == MaxPending \in Nat \ {0}
ASSUME TtlAssumption == Ttl \in Nat

\* A callback url may carry no state parameter at all.
Missing == 0

PendingState == [value: Nat, expiresAt: Nat]

\* createAuthState drops what has expired before it appends.
Unexpired(states, now) == {s \in states : s.expiresAt > now}

\* mutant: off by one at the cap
NewestAndOneMore(states) ==
    {s \in states : Cardinality({t \in states : t.value > s.value}) <= MaxPending}

\* pending.slice(-MAX_PENDING_STATES): the youngest MaxPending entries.
Newest(states) ==
    {s \in states : Cardinality({t \in states : t.value > s.value}) < MaxPending}

\* The list createAuthState writes back to the session.
AddPending(states, entry, now) == Newest(Unexpired(states, now) \cup {entry})

\* mutant: the whole list goes with the matched value
BurnAll(states, value) == {}

\* consumeAuthState removes every copy of the matched value.
Burn(states, value) == {s \in states : s.value # value}

\* Does some candidate carry this value?
Matches(candidates, value) == \E s \in candidates : s.value = value

\* mutants: any pending state will do; an expired state will do
VerdictOfAnyLogin(candidates, state, now) ==
    IF state = Missing \/ candidates = {} THEN "missing" ELSE "valid"

VerdictWithoutExpiry(candidates, state, now) ==
    IF state = Missing \/ ~Matches(candidates, state) THEN "missing" ELSE "valid"

\* The result of consumeAuthState, in the order of its checks.
Verdict(candidates, state, now) ==
    CASE state = Missing             -> "missing"
      [] candidates = {}             -> "unknown"
      [] ~Matches(candidates, state) -> "mismatch"
      [] \E s \in candidates : s.value = state /\ s.expiresAt <= now -> "expired"
      [] OTHER                       -> "valid"

=============================================================================
