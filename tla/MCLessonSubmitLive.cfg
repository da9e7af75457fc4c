\* The requests run out: stopping is no error.
CHECK_DEADLOCK FALSE
SPECIFICATION FairSpec
CONSTANTS
    l1 = l1
    l2 = l2
    r1 = r1
    r2 = r2
    r3 = r3
    q1 = q1
    q2 = q2
    Null = Null
    Lesson = {l1, l2}
    Request = {r1, r2}
    Question = {q1, q2}
    FirstBank = {q1}
    Served <- MCServed
PROPERTIES
    SubmissionsEnd
