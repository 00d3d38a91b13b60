CONSTANTS
    WarpSize = 2
    SegBits = 2
    Types <- MCPrimitiveTypes
    Offsets = {0, 1}
    NoDecl = NoDecl
    MaxCalls = 3
SPECIFICATION Spec
PROPERTY ImplementsContract
CHECK_DEADLOCK FALSE
