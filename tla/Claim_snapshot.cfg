CONSTANTS
    NoLease = NoLease
    Lost = Lost
    Conn = {a, b}
    Chunks <- PageChunks
    MaxPages = 2
    MaxPut = 2
    InitialSizes = {2}
    MaxWrites = 2
    MaxFaults = 0
SPECIFICATION SeenSpec
INVARIANT SnapshotOfOneVersion
