CONSTANTS
    p1 = p1
    q1 = q1
    c1 = c1
    c2 = c2
    v1 = v1
    bad = bad
    new = new
    odd = odd
    none = none
    Plugins = {p1, q1}
    Callers = {c1, c2}
    Versions = {v1, bad, new, odd}
    Registries <- TheRegistries
    Good = {v1}
    Broken = {bad}
    Unsafe = {odd}
    MaxCalls = 3
    MaxCrashes = 2
    None = none
SPECIFICATION Spec
SYMMETRY Alike
INVARIANTS
    AlwaysACopy
    UninstallComplete
PROPERTIES
    WishSurvives
CHECK_DEADLOCK FALSE
