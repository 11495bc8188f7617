CONSTANTS
    NoLease = NoLease
    Lost = Lost
    Conn = {a, b}
    Chunks <- PageChunks
    MaxPages = 2
    MaxPut = 1
    InitialSizes <- NoneOrOne
    MaxWrites = 1
    MaxFaults = 1
SYMMETRY Symmetry
VIEW View
SPECIFICATION Spec
INVARIANTS
    CacheCoherent
    WriterCurrent
    LeaseMatchesLock
