SPECIFICATION HsSpec
CONSTANTS
    HsConns = {k1, k2}
    HsHandles = {1, 2}
    HsLimits = {2}
    HsPlatforms = {"posix", "windows"}
    HsMaxAsks = 1
    HsNone = HsNone
INVARIANT
    NothingRunsInTheFreed
CHECK_DEADLOCK FALSE
