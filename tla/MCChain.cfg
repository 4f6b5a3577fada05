\* Three entries of seven kinds.
SPECIFICATION Spec
CONSTANTS
    Layers <- MCLayers
    MaxLayers = 3
INVARIANTS
    ModesFit
    HooksInOrder
    EveryLayerGetsItsResponse
PROPERTIES
    LeavesRendered
    EveryRequestAnswered
CHECK_DEADLOCK FALSE
