\* The account can be deleted and every family used up: stopping is no error.
CHECK_DEADLOCK FALSE
SPECIFICATION FairSpec
CONSTANTS
    c1 = c1
    c2 = c2
    f1 = f1
    f2 = f2
    None = None
    Call = {c1, c2}
    Family = {f1, f2}
    MaxDepth = 1
INVARIANTS
    ReplayNeedsLoss
PROPERTIES
    DropsOnlyEndedSession
    CallsEnd
