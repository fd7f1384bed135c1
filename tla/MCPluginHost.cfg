SPECIFICATION FairSpec
CONSTANTS
    i1 = i1
    c1 = c1
    c2 = c2
    none = none
    Instances = {i1}
    Callers = {c1, c2}
    None = none
    Ops = {"install", "uninstall", "enable", "disable", "command"}
    QueueCap = 1
    PipeCap = 1
    MaxCommands = 3
    MaxStarts = 2
INVARIANTS
    StartsStayApart
    NothingLeftRunning
PROPERTIES
    EverybodyReturns
CHECK_DEADLOCK FALSE
