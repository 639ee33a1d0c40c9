------------------------------ MODULE ImageLog ------------------------------
(***************************************************************************)
(* What the image engine promises about the versions of an image: they are *)
(* numbered from 1 without gaps, a version once written never changes, and *)
(* no two versions of an image are the same picture.                       *)
(***************************************************************************)
EXTENDS Naturals, Sequences

CONSTANTS Images, Pictures

VARIABLE log   \* the pictures of each image, by version

vars == log

Init == log = [i \in Images |-> <<>>]

Add(i, p) ==
    /\ \A v \in 1 .. Len(log[i]) : log[i][v] # p
    /\ log' = [log EXCEPT ![i] = Append(@, p)]

Next == \E i \in Images, p \in Pictures : Add(i, p)

Spec == Init /\ [][Next]_vars

=============================================================================
