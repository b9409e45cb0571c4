SPECIFICATION PipelineSpec
CONSTANTS
    MaxVersion = 2
    MaxRetries = 0
    MaxCleanupRetries = 0
    Chunks = {c1}
    Collections = {"old", "new"}
    CollectionOf <- CollectionPerGen
    Workers = {w1}
    Cleaners = {d1}
    Free = Free
    Orphan = Orphan
    Faults = {"crash", "redeliver"}
    MaxFaults = 1
VIEW PipelineView
CHECK_DEADLOCK FALSE
INVARIANTS
    Exclusive
    NothingLeft
    NoneStranded
    RowsOwned
PROPERTIES
    KeepsPromise
