--------------------------- MODULE MCTokenRotation --------------------------
(* Three requests on one account with two sign-ins.                        *)
EXTENDS TokenRotation, TLC

CONSTANTS r1, r2, r3, s1, f1, f2

MCOwner == [f \in Family |-> s1]
Symmetric == Permutations(Req) \cup Permutations(Family)
=============================================================================
