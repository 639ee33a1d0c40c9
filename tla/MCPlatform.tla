------------------------------ MODULE MCPlatform ------------------------------
EXTENDS Platform, TLC

CONSTANTS free, pro, business

(* As in _plan_defaults: limits tell every two plans apart, flags do not. *)
SmallLimits == [p \in Plans |-> p]
SmallFlags == [p \in Plans |-> IF p = free THEN free ELSE pro]

Interchangeable ==
    Permutations(Users) \cup Permutations(Requests) \cup Permutations(Slugs)
===============================================================================
