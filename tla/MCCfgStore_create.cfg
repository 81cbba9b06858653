SPECIFICATION Spec
CONSTANTS
    a = a
    b = b
    garbled = garbled
    mangled = mangled
    none = none
    notext = notext
    Missing = none
    NoText = notext
    Bodies <- MCBodies
    Decode <- MCDecode
    NewBodies <- TwoTables
    OutsideFiles <- ForeignFiles
    InitialFiles <- NoTable
    SnapshotFlags <- Snapshots
    HistoryLimit = 3
    HistoryKeep = 2
    MaxSnaps = 3
    MaxOverwrites = 0
    Faults <- NoFaults
INVARIANT CreationCanBeUndone
