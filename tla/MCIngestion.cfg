SPECIFICATION IngestionSpec
CONSTANTS
    MaxVersion = 2
    MaxRetries = 1
    Chunks = {c1, c2}
    Collections = {"jina"}
    CollectionOf <- OneCollection
    Workers = {w1, w2}
    Cleaners = {}
    Free = Free
    Orphan = Orphan
    Faults = {"crash", "redeliver", "lapse", "apiCrash", "loss", "database"}
    MaxFaults = 1
SYMMETRY WorkerSymmetry
VIEW WorkerView
CHECK_DEADLOCK FALSE
INVARIANTS
    OneActive
    StatusAgrees
    Searchable
    SupersededScheduled
    PointsTraceable
    OneWriter
    ActiveOwned
PROPERTIES
    StaleFrozen
    KeepsPromise
