SPECIFICATION Spec
CONSTANTS
    author = author
    admin = admin
    away = away
    a1 = a1
    b1 = b1
    Sessions = {a1, b1}
    Users <- Everybody
    UserOf <- Behind
    Admins = {admin}
    Nobody = Nobody
    SendCap = 2
    ReplayLimit = 2
    Retention = 1
    MaxShown = 2
    MaxId = 2
    MaxVersion = 1
    Mixes <- AnEdit
INVARIANT EditsArePrivate
CHECK_DEADLOCK FALSE
