CONSTANTS
    Launches <- MCLaunches2D
SPECIFICATION Spec
INVARIANT FiredOncePerYPair
CHECK_DEADLOCK FALSE
