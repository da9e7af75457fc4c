---------------------------- MODULE MCStudentChain --------------------------
(* A student with two goals, and two chains at once.                       *)
EXTENDS StudentChain

CONSTANTS g1, g2, c1, c2
=============================================================================
