CONSTANTS
    a = a
    s1 = s1
    s2 = s2
    Users = {a}
    Sessions = {s1, s2}
    UserOf <- SameUser
    Channels = {general, dev}
    General = general
    NoSession = NoSession
    SendCap = 1
    Moderated = {a}
    Talkers = {s1, s2}
SPECIFICATION Spec
SYMMETRY Interchangeable
INVARIANTS
    NamesHeldOnce
    IndexAgrees
    RemovedAreClosed
    NoGhostMembers
    SenderInRoom
