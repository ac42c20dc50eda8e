----------------------------- MODULE LoginTickets -----------------------------
(***************************************************************************)
(* What the state parameter promises, without requests, copies, cookies or *)
(* a session store: a login puts a ticket in the hands of one browser, and *)
(* the ticket is accepted at most once, from that browser, before it       *)
(* expires.  A ticket that leaves the browser's hands never returns.       *)
(* LoginFlow implements this when a browser has one request in flight at a *)
(* time.                                                                   *)
(***************************************************************************)
EXTENDS Naturals, Sequences, FiniteSets

CONSTANTS Browsers, MaxPending, Ttl

VARIABLES clock,   \* the time
          logins,  \* the tickets issued: to whom, until when, how often used
          held     \* the tickets each browser can still use

vars == <<clock, logins, held>>

Init ==
    /\ clock = 0
    /\ logins = <<>>
    /\ held = [b \in Browsers |-> {}]

\* Only expired tickets, and the oldest beyond MaxPending, make room.
Issue(b) ==
    \E kept \in SUBSET held[b] :
        /\ \A s \in held[b] \ kept :
              \/ logins[s].expiresAt <= clock
              \/ Cardinality({k \in kept : k > s}) = MaxPending - 1
        /\ Cardinality(kept) < MaxPending
        /\ logins' = Append(logins, [browser |-> b, expiresAt |-> clock + Ttl, uses |-> 0])
        /\ held' = [held EXCEPT ![b] = kept \cup {Len(logins) + 1}]
        /\ UNCHANGED clock

Accept(b) ==
    \E s \in held[b] :
        /\ logins[s].browser = b
        /\ clock < logins[s].expiresAt
        /\ logins[s].uses = 0
        /\ logins' = [logins EXCEPT ![s].uses = 1]
        /\ held' = [held EXCEPT ![b] = @ \ {s}]
        /\ UNCHANGED clock

\* Expired at the callback, cleared, logged out, or the reply that would have
\* given the browser its new session was lost
Lose(b) ==
    \E kept \in SUBSET held[b] :
        /\ kept # held[b]
        /\ held' = [held EXCEPT ![b] = kept]
        /\ UNCHANGED <<clock, logins>>

Tick == clock' = clock + 1 /\ UNCHANGED <<logins, held>>

Next == Tick \/ \E b \in Browsers : Issue(b) \/ Accept(b) \/ Lose(b)

Spec == Init /\ [][Next]_vars

=============================================================================
