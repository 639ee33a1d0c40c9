------------------------- MODULE MCPublishingQueue -------------------------
(* Small instances of the publishing engine for TLC. *)
EXTENDS PublishingQueue, TLC

\* Workers run the same loop, and so do requests and recovery passes.
Symmetry == Permutations(Workers) \cup Permutations(Clients)

=============================================================================
