SPECIFICATION StoresSpec
CONSTANTS
    a = a
    b = b
    garbled = garbled
    mangled = mangled
    none = none
    notext = notext
    Missing = none
    NoText = notext
    Bodies <- MCBodies
    Decode <- MCDecode
    NewBodies <- OneTable
    OutsideFiles <- ForeignFiles
    InitialFiles <- FirstTables
    SnapshotFlags <- Snapshots
    HistoryLimit = 1
    HistoryKeep = 1
    MaxSnaps = 2
    MaxOverwrites = 1
    Faults <- FaultKinds
    m1 = m1
    m2 = m2
    r1 = r1
    r2 = r2
    i2 = i2
    RevMods = {m1, m2}
    RevNone = RevNone
    RevThreads = {r1, r2}
    RevClient <- TwoFrontEnds
    RevKinds = {"get", "all", "put", "undo", "poll", "select"}
    RevFaults = {}
    RevMaxWrites = 2
    RevMaxRequests = 4
    TombMods = {m1, m2}
    TombIds = {i1, i2}
    TombThreads = {r1, r2}
    TombNone = TombNone
    TombEarlier <- EarlierFiles
    TombMaxFailures = 1
    ListedMods = {m1, m2}
    ListThreads = {r1, r2}
    NoMod = NoMod
    ListMaxTime = 2
    ListMaxRequests = 3
    GtThreads = {r1, r2}
    GtTokens = {k1, k2, k3}
    GtNone = GtNone
    GtMaxFailures = 1
    GtMaxRestarts = 2
    GaThreads = {r1, r2}
    GaNames = {n1, n2}
    GaAdmin = {n3}
    GaNone = GaNone
    GaMaxAccounts = 2
    GaLimit = 2
    GaMaxFails = 2
    GaMaxFailures = 1
    GaMaxRestarts = 1
SYMMETRY Alike
INVARIANTS
    TypeOK
    HistoryExact
    SavesUndoExactly
    RedoBringsTextBack
    RevTypeOK
    CacheHitIsCurrent
    TombstonesMatchRows
    RemovedIsBuried
    ListIsRecent
    OneRefreshToken
    AccountsAgree
    QuotaBounded
PROPERTIES
    NoLostUpdate
    DeadStaysDead
CHECK_DEADLOCK FALSE
