SPECIFICATION FairCleanupSpec
CONSTANTS
    MaxVersion = 1
    MaxCleanupRetries = 1
    Chunks = {c1, c2}
    Collections = {"old", "new"}
    CollectionOf <- CollectionPerGen
    Workers = {}
    Cleaners = {d1, d2}
    Free = Free
    Orphan = Orphan
    Faults = {"crash", "lapse", "database"}
    MaxFaults = 1
CHECK_DEADLOCK FALSE
INVARIANTS
    CleanupTypeOK
    LedgerTrue
PROPERTIES
    JobsSettle
