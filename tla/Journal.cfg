CONSTANTS
    a = a
    b = b
    r1 = r1
    r2 = r2
    Conn = {a, b}
    Proc = {r1, r2}
    Page = {p1, p2}
    Layouts <- Deployments
    NoLease = NoLease
    Lost = Lost
    Nothing = Nothing
    MaxTx = 2
SYMMETRY Symmetry
SPECIFICATION Spec
INVARIANTS
    TypeOK
PROPERTIES
    AtomicSpec
    CommitDurable
