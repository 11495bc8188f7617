CONSTANTS
    Thread = {t1}
    Range = {r1, r2}
    List = List
    Free = Free
    Faulty = {"slow"}
    AZURE_MAX_RETRIES = 1
    BATCH_MAX_RETRIES = 1
    MaxCalls = 2
    MaxFaults = 1
    MaxEtag = 1
SPECIFICATION FairSpec
PROPERTIES
    RenewalReturns
CHECK_DEADLOCK FALSE
