--------------------------- MODULE PublishLedger ---------------------------
(***************************************************************************)
(* What the publishing engine promises about posts on a social platform,   *)
(* with everything else forgotten.  A job is granted permits: one when it  *)
(* is put on the queue, one more when publish_now also posts it from the   *)
(* request itself, one more each time an owner's retry or a dead-letter    *)
(* pass puts it back.  A post spends a permit, and a permit is spent at    *)
(* most once, whatever crashes, failed commits and stale reads do.         *)
(***************************************************************************)
EXTENDS Integers

CONSTANT Jobs

VARIABLES permits,  \* permits granted to each job so far
          posts     \* posts of each job the platform has accepted

vars == <<permits, posts>>

Init ==
    /\ permits = [j \in Jobs |-> 0]
    /\ posts   = [j \in Jobs |-> 0]

\* n more permits to every job of S: a dead-letter pass grants one to each
\* job it recovers in a single transaction.
Grant(S, n) ==
    /\ permits' = [j \in Jobs |-> permits[j] + IF j \in S THEN n ELSE 0]
    /\ UNCHANGED posts

Post(j) ==
    /\ posts[j] < permits[j]
    /\ posts' = [posts EXCEPT ![j] = @ + 1]
    /\ UNCHANGED permits

Next ==
    \/ \E S \in SUBSET Jobs, n \in 1 .. 2 : Grant(S, n)
    \/ \E j \in Jobs : Post(j)

Spec == Init /\ [][Next]_vars

=============================================================================
