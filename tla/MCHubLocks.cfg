CONSTANTS
    s1 = s1
    Sessions = {s1}
    SendCap = 1
    Moderated = {s1}
SPECIFICATION LocksFairSpec
INVARIANTS
    OneWriter
PROPERTIES
    HubReturns
    DeadClientsLeave
    BanDisconnects
