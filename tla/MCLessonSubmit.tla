--------------------------- MODULE MCLessonSubmit ---------------------------
(* Two lessons and three submissions on a goal whose bank grows by one.    *)
EXTENDS LessonSubmit, TLC

CONSTANTS l1, l2, r1, r2, r3, q1, q2

MCServed == {{q1}, {q1, q2}}
Symmetric == Permutations(Request) \cup Permutations(Lesson)
=============================================================================
