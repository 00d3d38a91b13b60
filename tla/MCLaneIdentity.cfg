CONSTANTS
    Launches <- MCLaunches1D
SPECIFICATION Spec
INVARIANT GuardedOnce
CHECK_DEADLOCK FALSE
