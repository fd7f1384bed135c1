CONSTANTS
    a = a
    Users = {a}
    KickTime = 1
    Legacy <- LegacyRows
    MaxTime = 3
    MaxRows = 4
    MaxMessages = 1
SPECIFICATION Spec
INVARIANTS
    MemoryAgreesWithHistory
    GapsHideBanPeriods
PROPERTIES
    ImplementsAbs
