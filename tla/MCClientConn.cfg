SPECIFICATION ConnSpec
CONSTANTS
    Cap = 2
    MaxConns = 2
    MaxMsgs = 2
    MaxExtra = 1
INVARIANTS
    CrashOnlyAtClose
    OvertakenByKeys
PROPERTIES
    
    CloseReturns
CHECK_DEADLOCK FALSE
