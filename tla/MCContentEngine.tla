--------------------------- MODULE MCContentEngine ---------------------------
EXTENDS ContentEngine, TLC

CONSTANTS plain, fire, other

(* A caption without an emoji is given one. *)
SmallPolished == [t \in Texts |-> IF t = plain THEN fire ELSE t]

Symmetry == Permutations(Requests)
==============================================================================
