SPECIFICATION ServicesSpec
CONSTANTS
    Jobs = {j1, j2, j3}
    JobWorkers = {w1, w2}
    JobClients = {c1, c2}
    NoJob = NoJob
    MaxJobs = 2
    Watchers = {w1, w2, w3}
    RtCallers = {c1, c2}
    RtNobody = RtNobody
    RtFaults = {}
    RtMaxCalls = 5
    CloudFiles = {f1}
    CsDirections = {"upload", "download", "sync"}
    CsMaxWrites = 2
    CsMaxFails = 1
    CsMaxManual = 1
    FtClients = {c1, c2}
    FtWorkers = {w1, w2}
    FtKinds = {"server", "multipart", "local", "s3"}
    FtParts = 2
    FtMaxRestarts = 1
    FtFaults = {}
    McpIds = {s1, s2}
    McpThreads = {t1, t2}
    McpNone = McpNone
    McpMaxSessions = 1
    McpMaxLines = 1
    HsConns = {k1, k2}
    HsHandles = {1, 2}
    HsLimits = {1, 2}
    HsPlatforms = {"posix", "windows"}
    HsMaxAsks = 1
    HsNone = HsNone
    a = a
    b = b
    none = none
    notext = notext
    Missing = none
    NoText = notext
    Bodies <- TwoTables
    Decode <- AsIs
    NewBodies <- TwoTables
    OutsideFiles <- NoFiles
    InitialFiles <- FirstTables
    SnapshotFlags <- Snapshots
    HistoryLimit = 3
    HistoryKeep = 2
    MaxSnaps = 5
    MaxOverwrites = 0
    Faults <- DiskFaults
INVARIANTS
    JobInOnePlace
    AtMostOneWatcher
    FlagsTellTheTruth
    NoChangeForgotten
    BytesKept
    RecordTellsWhere
    WritesGoToOpenPipes
    FreedAfterTheLastSlot
    AnswersStayHome
    PruneTakesTheOldest
    JournalMirrorsStack
PROPERTIES
    EveryJobEnds
    StopReturns
    StopTakesEffect
    SidesAgree
    FileSettles
    ClosingEnds
    DestructorReturns
    ReclaimOverwritesNothing
    OverwriteIsUndoable
    RefinesHistory
CHECK_DEADLOCK FALSE
