SPECIFICATION Spec
CONSTANTS
    Nodes <- MCNodes
    Abort = Abort
    NoAnswer = NoAnswer
INVARIANTS
    GemmCheckNeverFails
    ConvKindAgrees
    ReductionToVectorCorrect
    FusionOrderMattersOnlyWithTwoDots
CHECK_DEADLOCK FALSE
