CONSTANTS
    Modes = {"none"}
    Readahead = 2
    Bootstrap = 1
    Chunks = {{1, 2, 3}}
    PageSizes = {2}
    DefaultPageSize = 2
    InitialSize = 3
    MaxPages = 3
    MaxVersions = 2
    MaxFaults = 0
SPECIFICATION Spec
INVARIANTS
    WritesKept
