SPECIFICATION CleanupSpec
CONSTANTS
    MaxVersion = 2
    MaxCleanupRetries = 0
    Chunks = {c1}
    Collections = {"old", "new"}
    CollectionOf <- CollectionPerGen
    Workers = {}
    Cleaners = {d1, d2}
    Free = Free
    Orphan = Orphan
    Faults = {"crash", "lapse", "database"}
    MaxFaults = 1
SYMMETRY CleanerSymmetry
VIEW CleanerView
CHECK_DEADLOCK FALSE
INVARIANTS
    CleanedUp
    RowsOutlivePoints
    OneDeleter
PROPERTIES
    SuccessFinal
