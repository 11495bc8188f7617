CONSTANTS
    Conn = {a, b}
    Page = {p1, p2}
    Levels = {"full", "normal"}
    Faulty = {"head", "get", "put", "putLost", "page", "delete"}
    NoLease = NoLease
    Lost = Lost
    MaxTx = 2
    MaxFaults = 2
SYMMETRY Symmetry
VIEW Observed
SPECIFICATION Spec
INVARIANTS
    TypeOK
    RecoversCommit
    ReadsLatest
