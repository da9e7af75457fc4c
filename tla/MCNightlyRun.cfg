\* The days run out: stopping is no error.
CHECK_DEADLOCK FALSE
SPECIFICATION NightlySpec
CONSTANTS
    s1 = s1
    s2 = s2
    Student = {s1, s2}
    Never = Never
    Day = 5
    EmbeddingHour = 0
    NightlyHour = 2
    ResourceWeekday = 1
    MaxDays = 2
    MaxLate = 1
INVARIANTS
    OncePerNight
    NightsAreRun
    SkippedOnlyWhenLate
