SPECIFICATION Spec
CONSTANTS
    Nodes <- MCNodes
    Abort = Abort
    NoAnswer = NoAnswer
INVARIANT
    FusionOperandOrderIrrelevant
CHECK_DEADLOCK FALSE
