SPECIFICATION Spec
CONSTANTS
    g1 = g1
    g2 = g2
    s1 = s1
    s2 = s2
    None = None
    e1 = e1
    Exchange = {e1}
    Goal = {g1, g2}
    First = g1
    Slot = {s1, s2}
    MaxFaults = 1
SYMMETRY Symmetric
INVARIANTS
    DeviceAgrees
    RepliesOnTheirGoal
    LikeSettles
