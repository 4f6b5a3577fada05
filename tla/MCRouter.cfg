\* Every route of up to three parts against every path of up to five characters.
SPECIFICATION Spec
CONSTANTS
    Confs <- MCConfs
    Depth <- MCDepth
    MaxDepth = 2
    Urlconfs <- MCUrlconfs
    Overrides <- MCOverrides
    Chars = {"/", "1", "f", "-", "nl"}
    Digits = {"1"}
    HexLetters = {"f"}
    WordChars = {}
    Newline = "nl"
    UuidShape <- MCUuidShape
    MaxPath = 5
INVARIANTS
    ResolvesAsDjango
    MissIsDjangos
CHECK_DEADLOCK FALSE
