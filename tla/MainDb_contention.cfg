CONSTANTS
    NoLease = NoLease
    Lost = Lost
    Conn = {a, b}
    Chunks <- OneChunk
    MaxPages = 2
    MaxPut = 1
    InitialSizes = {1}
    MaxWrites = 2
    MaxFaults = 0
SYMMETRY Symmetry
VIEW View
SPECIFICATION Spec
INVARIANTS
    TypeOK
    CacheCoherent
    WriterCurrent
    LeaseMatchesLock
PROPERTIES
    SnapshotStable
