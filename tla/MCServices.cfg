SPECIFICATION ServicesSpec
CONSTANTS
    Handles = {x1, x2}
    Links = {y1, y2}
    Redeemers = {r1, r2}
    Logins = {s1, s2}
    Nobody = Nobody
    MaxAttempts = 2
    MaxMails = 2
    Bases = {x1, x2}
    Documents = {y1, y2}
    Sessions = {c1}
    Editors = {e1, e2, e3}
    Originals <- MCOriginals
    Revisions <- MCRevisions
    MaxChars = 3
    Overlap = 1
    Materials <- MCMaterials
    Window = 2
    BatchSize = 2
    MaxRetries = 1
    MaxChunk = 3
    CandidateK = 2
    AnswerK = 2
    RankConstant = 2
    DenseWeight = 1
    LexicalWeight = 1
    Ids <- MCIds
    References <- MCReferences
    Fences <- MCFences
    ChunkReferences <- MCChunkReferences
    Generations <- MCGenerations
    Questions = {q1, q2, q3}
    Passages = {p1, p2}
    Size <- MCSize
    AnswerSizes = {1, 2}
    HistoryRows = 3
    HistoryBudget = 3
    ContextBudget = 2
    EvidenceK = 2
    MaxAsks = 2
    Chats = {y1, y2}
    Null = Null
    MaxViews = 2
    MaxStops = 1
SYMMETRY Symmetry
CHECK_DEADLOCK FALSE
INVARIANTS
    ServicesTypeOK
    SessionsCurrent
    Located
    PassagesWhole
    EvidenceOnce
    OwnVectors
    OnePointEach
    StreamAgrees
    CitationsTraceable
    Informed
    StoreTrue
PROPERTIES
    PasswordProven
    LastLinkDeletes
