\* An include that passes keyword arguments to its views.
SPECIFICATION Spec
CONSTANTS
    Confs <- MCConfs
    Depth <- MCDepth
    MaxDepth = 2
    Urlconfs <- MCIncludes
    Overrides = {}
    Chars = {"/", "1", "f", "-", "nl"}
    Digits = {"1"}
    HexLetters = {"f"}
    WordChars = {}
    Newline = "nl"
    UuidShape <- MCUuidShape
    MaxPath = 5
INVARIANT HitAlwaysDjangos
CHECK_DEADLOCK FALSE
