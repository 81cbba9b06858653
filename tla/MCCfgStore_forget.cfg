SPECIFICATION Spec
CONSTANTS
    a = a
    b = b
    garbled = garbled
    mangled = mangled
    none = none
    notext = notext
    Missing = none
    NoText = notext
    Bodies <- MCBodies
    Decode <- MCDecode
    NewBodies <- TwoTables
    OutsideFiles <- ForeignFiles
    InitialFiles <- PlainTable
    SnapshotFlags <- Snapshots
    HistoryLimit = 3
    HistoryKeep = 2
    MaxSnaps = 3
    MaxOverwrites = 1
    Faults <- SyncOnly
INVARIANT ForgottenStaysForgotten
