---------------------------- MODULE MCNightlyRun ----------------------------
(* Days of five moments: midnight, the hours before the chain, the chain's *)
(* hour, just after it, and the rest of the day.                           *)
EXTENDS NightlyRun

CONSTANTS s1, s2
=============================================================================
