SPECIFICATION FairSpec
CONSTANTS
    Menus = {"menu"}
    StableCount = 2
    MaxTurns = 2
    MaxFaults = 1
INVARIANTS
    AskedOncePerTurn
    WaitingIsKnown
PROPERTIES
    MenuIsTold
CHECK_DEADLOCK FALSE
