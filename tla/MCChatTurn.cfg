SPECIFICATION FairChatSpec
CONSTANTS
    Requests = {r1, r2, r3}
    None = None
    Faults = {"lost", "database", "unsure", "restart"}
    MaxFaults = 1
CHECK_DEADLOCK FALSE
INVARIANTS
    ExecutingIsTurning
    Dialogue
    AnswersKept
PROPERTIES
    GoneIsEmpty
    TurnEnds
