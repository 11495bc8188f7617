CONSTANTS
    Thread = {t1, t2}
    Range = {r1, r2}
    List = List
    Free = Free
    Faulty = {"late", "network", "reset", "setup", "nomem", "slow"}
    AZURE_MAX_RETRIES = 1
    BATCH_MAX_RETRIES = 1
    MaxCalls = 2
    MaxFaults = 1
    MaxEtag = 2
SPECIFICATION FairSpec
INVARIANTS
    TypeOK
    OkMeansApplied
    ConditionalOnce
    EtagOfCall
    MutexReleased
PROPERTIES
    CallsReturn
CHECK_DEADLOCK FALSE
