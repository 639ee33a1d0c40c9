-------------------------- MODULE MCImageVersions --------------------------
(* Small instances of the image engine for TLC. *)
EXTENDS ImageVersions, TLC

\* Requests run the same handlers; pictures differ only in being different.
Symmetry == Permutations(Requests) \cup Permutations(Pictures)

=============================================================================
