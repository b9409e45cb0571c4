SPECIFICATION FairIngestionSpec
CONSTANTS
    MaxVersion = 1
    MaxRetries = 1
    Chunks = {c1}
    Collections = {"jina"}
    CollectionOf <- OneCollection
    Workers = {w1, w2}
    Cleaners = {}
    Free = Free
    Orphan = Orphan
    Faults = {"crash", "redeliver"}
    MaxFaults = 2
CHECK_DEADLOCK FALSE
PROPERTIES
    Settles
