CONSTANTS
    Names <- MCNames
    Attributes = {"readnone", "nounwind"}
    IRTypes = {"S32", "F32", "F64", "i8*"}
    NoDecl = NoDecl
    MaxCalls = 2
    DeviceCalls = {}
    PrintfArgs <- MCPrintfSameArgs
SPECIFICATION Spec

INVARIANT PrintfCallsDirect
CHECK_DEADLOCK FALSE
