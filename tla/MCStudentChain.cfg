\* Both goals may be deleted: stopping is no error.
CHECK_DEADLOCK FALSE
SPECIFICATION FairSpec
CONSTANTS
    g1 = g1
    g2 = g2
    c1 = c1
    c2 = c2
    None = None
    Goal = {g1, g2}
    Chain = {c1, c2}
    MaxFaults = 1
INVARIANTS
    GoneStaysEmpty
    ToldAsGiven
PROPERTIES
    PlacedOnce
    PageOnce
    NightPicksUp
