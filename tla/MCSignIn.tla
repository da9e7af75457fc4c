------------------------------ MODULE MCSignIn ------------------------------
(* Two sign-ins and a call with a session, two languages, and a key that is *)
(* published at 1 and signs from 2 on.                                      *)
EXTENDS SignIn, TLC

CONSTANTS r1, r2, r3, en, pt

Symmetric == Permutations(Caller) \cup Permutations(Language)
=============================================================================
