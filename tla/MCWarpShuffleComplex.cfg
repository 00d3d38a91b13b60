CONSTANTS
    WarpSize = 2
    SegBits = 2
    Types <- MCAllTypes
    Offsets = {0, 1}
    NoDecl = NoDecl
    MaxCalls = 3
SPECIFICATION Spec
INVARIANT ShuffleEmitted
CHECK_DEADLOCK FALSE
