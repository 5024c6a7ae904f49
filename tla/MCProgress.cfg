SPECIFICATION FairSpec
CONSTANTS
    e1 = e1
    e2 = e2
    e3 = e3
    NoEvent = NoEvent
    Events = {e1, e2}
    MaxTurns = 4
    MaxRows = 2
    Budgets <- Progress
PROPERTIES
    TurnEnds
    ClaimEnds
    InterruptedTurnResumes
CHECK_DEADLOCK FALSE
