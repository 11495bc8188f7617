CONSTANTS
    Modes = {"all", "none"}
    Readahead = 2
    Bootstrap = 1
    Chunks = {{1}, {2}, {1, 2}}
    PageSizes = {2, 4}
    DefaultPageSize = 2
    InitialSize = 2
    MaxPages = 2
    MaxVersions = 4
    MaxFaults = 1
VIEW View
SPECIFICATION Spec
INVARIANTS
    TypeOK
    ReuseCoherent
