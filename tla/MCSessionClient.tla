--------------------------- MODULE MCSessionClient ---------------------------
(* Two calls of one app. *)
EXTENDS SessionClient

CONSTANTS c1, c2, f1, f2
=============================================================================
