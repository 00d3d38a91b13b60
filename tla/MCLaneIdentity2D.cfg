CONSTANTS
    Launches <- MCLaunches2D
SPECIFICATION Spec
INVARIANT GuardedOnce
CHECK_DEADLOCK FALSE
