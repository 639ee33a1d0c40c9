--------------------------- MODULE PostLifecycle ---------------------------
(***************************************************************************)
(* What the scheduler promises about a scheduled post, with sessions,      *)
(* versions and outbox forgotten: it is handed to the publisher only after *)
(* its owner confirmed it and a run claimed it, and at most once, whatever *)
(* verdict is recorded afterwards.                                         *)
(***************************************************************************)
EXTENDS Integers

CONSTANT Posts

VARIABLES phase,      \* how far each post has come
          deliveries  \* how often it was handed to the publisher

vars == <<phase, deliveries>>

Init ==
    /\ phase      = [p \in Posts |-> "none"]
    /\ deliveries = [p \in Posts |-> 0]

Move(p, from, to) ==
    /\ phase[p] = from
    /\ phase' = [phase EXCEPT ![p] = to]
    /\ UNCHANGED deliveries

\* A run claims several posts in one transaction.
Claim(S) ==
    /\ \A p \in S : phase[p] = "confirmed"
    /\ phase' = [p \in Posts |-> IF p \in S THEN "claimed" ELSE phase[p]]
    /\ UNCHANGED deliveries

Deliver(p) ==
    /\ phase[p] = "claimed" /\ deliveries[p] = 0
    /\ deliveries' = [deliveries EXCEPT ![p] = 1]
    /\ UNCHANGED phase

Next ==
    \/ \E p \in Posts : \/ Move(p, "none", "awaiting")
                        \/ Move(p, "awaiting", "confirmed")
                        \/ Move(p, "claimed", "closed")
                        \/ Deliver(p)
    \/ \E S \in SUBSET Posts : Claim(S)

Spec == Init /\ [][Next]_vars

=============================================================================
