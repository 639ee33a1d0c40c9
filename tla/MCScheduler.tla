---------------------------- MODULE MCScheduler ----------------------------
(* Small instances of the scheduler for TLC. *)
EXTENDS Scheduler, TLC

\* Runs serve the same owner, and so do confirm requests; posts differ in
\* nothing but their history.
Symmetry == Permutations(Runs) \cup Permutations(Confirmers) \cup Permutations(Posts)

=============================================================================
