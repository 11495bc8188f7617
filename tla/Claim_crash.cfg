CONSTANTS
    Modes = {"all"}
    Readahead = 2
    Bootstrap = 1
    Chunks = {{1, 2}}
    PageSizes = {2}
    DefaultPageSize = 2
    InitialSize = 2
    MaxPages = 2
    MaxVersions = 3
    MaxFaults = 0
SPECIFICATION Spec
INVARIANTS
    CrashSafe
