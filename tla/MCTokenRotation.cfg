\* Once the account is deleted nothing is left to do: stopping is no error.
CHECK_DEADLOCK FALSE
SPECIFICATION Spec
CONSTANTS
    r1 = r1
    r2 = r2
    r3 = r3
    s1 = s1
    f1 = f1
    f2 = f2
    NoFamily = NoFamily
    Req = {r1, r2, r3}
    Student = {s1}
    Family = {f1}
    Owner <- MCOwner
    MaxDepth = 3
SYMMETRY Symmetric
INVARIANTS
    OneLiveToken
    DeadlockNeedsDeletion
PROPERTIES
    ReplayEndsSession
    ImplementsSessions
