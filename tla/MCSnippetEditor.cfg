SPECIFICATION EditorSpec
CONSTANTS
    x1 = x1
    x2 = x2
    NL = NL
    Nil = Nil
    Chars = {x1, x2}
    TypedKeys = {x1}
    Clips <- MCClips
    MaxLen = 4
    MaxClip = 1
INVARIANTS
    CrashOnlyOutlived
PROPERTIES
    EditsAsFlatText
