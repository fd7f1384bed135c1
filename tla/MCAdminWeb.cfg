CONSTANTS
    t1 = t1
    t2 = t2
    none = none
    Tabs = {t1, t2}
    MaxAttempts = 2
    Window = 1
    Life = 2
    MaxPoints = 1
    MaxTime = 2
    MaxRequests = 4
    MaxRestarts = 1
    None = none
SPECIFICATION Spec
SYMMETRY Alike
INVARIANTS
    WrongKeysBounded
    SessionRule
    ListIsTrue
    PeakCovers
CHECK_DEADLOCK FALSE
