---------------------------- MODULE MCDeployment ----------------------------
EXTENDS Deployment

CONSTANTS p1, p2, p3

(* p1 and p2 are the same item; the categories of p1 and p3 have one slug. *)
SmallExternal == [p \in OldProducts |-> IF p = p3 THEN NoItem ELSE "item"]
SmallLowered  == [p \in OldProducts |-> p]
SmallCategory == [p \in OldProducts |-> IF p = p3 THEN "A B" ELSE "A-B"]
SmallSlug     == [c \in {"A-B", "A B"} |-> "a-b"]
=============================================================================
