CONSTANTS
    root = root
    a = a
    p1 = p1
    c1 = c1
    c2 = c2
    none = none
    Users = {root, a}
    Self = root
    Store <- ThePlugins
    Keys = {"ban", "unban", "kick", "install", "clear", "export"}
    Slots = {c1, c2}
    MaxEvents = 4
    MaxPoints = 2
    None = none
SPECIFICATION FairSpec
INVARIANTS
    CrashOnlyWhenRaced
PROPERTIES
    Settles
CHECK_DEADLOCK FALSE
