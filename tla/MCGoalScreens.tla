---------------------------- MODULE MCGoalScreens ---------------------------
(* Two goals, one message, and two calls at once beside the chat's load.   *)
EXTENDS GoalScreens, TLC

CONSTANTS g1, g2, e1, s1, s2

Symmetric == Permutations(Slot)
=============================================================================
