CONSTANTS
    Names <- MCNames
    Attributes = {"readnone", "nounwind"}
    IRTypes = {"S32", "F32", "F64", "i8*"}
    NoDecl = NoDecl
    MaxCalls = 4
    DeviceCalls <- MCDeviceCalls
    PrintfArgs <- MCPrintfArgs
SPECIFICATION Spec
INVARIANT CallsWellFormed
CHECK_DEADLOCK FALSE
