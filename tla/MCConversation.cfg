SPECIFICATION Spec
CONSTANTS
    e1 = e1
    e2 = e2
    e3 = e3
    NoEvent = NoEvent
    Events = {e1, e2, e3}
    MaxTurns = 5
    MaxRows = 3
    Budgets <- Running
INVARIANTS
    SentOncePerLife
    WorkerOnOneTurn
    OneLaunch
    RowHasOwner
    BusyHasEnder
    PaneHasOwner
    DoneWasAnswered
PROPERTIES
    EndsOwnTurn
    QueueIsEventQueue
SYMMETRY Symmetry
CHECK_DEADLOCK FALSE
