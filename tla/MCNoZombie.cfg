SPECIFICATION FairIngestionSpec
CONSTANTS
    MaxVersion = 2
    MaxRetries = 1
    Chunks = {c1}
    Collections = {"jina"}
    CollectionOf <- OneCollection
    Workers = {w1, w2}
    Cleaners = {}
    Free = Free
    Orphan = Orphan
    Faults = {"apiCrash"}
    MaxFaults = 1
CHECK_DEADLOCK FALSE
PROPERTIES
    Settles
