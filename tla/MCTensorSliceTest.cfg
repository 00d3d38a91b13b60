SPECIFICATION Spec
CONSTANTS
    NumSlices = 2
    NumComponents = 2
    BreakpointLists <- MCBreakpointLists
    MaxIterations = 4
    None = None
INVARIANT
    TestsPass
CHECK_DEADLOCK FALSE
