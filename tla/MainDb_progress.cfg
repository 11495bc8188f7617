CONSTANTS
    NoLease = NoLease
    Lost = Lost
    Conn = {a, b}
    Chunks <- PageChunks
    MaxPages = 1
    MaxPut = 1
    InitialSizes = {1}
    MaxWrites = 1
    MaxFaults = 0
SPECIFICATION FairSpec
PROPERTIES
    CallsReturn
