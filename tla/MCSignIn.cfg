\* Every call runs once and the time is bounded: stopping is no error.
SPECIFICATION Spec
CONSTANTS
    r1 = r1
    r2 = r2
    r3 = r3
    en = en
    pt = pt
    None = None
    Caller = {r1, r2}
    Visitor = {r3}
    Language = {en, pt}
    MaxAge = 2
    MaxEdge = 1
    Published = 1
    MaxTime = 3
SYMMETRY Symmetric
CHECK_DEADLOCK FALSE
INVARIANTS
    GenuineIsNotRejected
    FailsOnlyByOverlap
    LanguageIsTheLast
