SPECIFICATION FtSpec
CONSTANTS
    FtClients = {c1}
    FtWorkers = {w1, w2}
    FtKinds = {"server"}
    FtParts = 1
    FtMaxRestarts = 0
    FtFaults = {"again"}
INVARIANT
    CompleteIsIdempotent
CHECK_DEADLOCK FALSE
