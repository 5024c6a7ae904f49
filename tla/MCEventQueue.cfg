SPECIFICATION Spec
CONSTANTS
    t1 = t1
    t2 = t2
    e1 = e1
    e2 = e2
    x1 = x1
    Events = {e1, e2}
    Texts = {x1}
    Threads = {t1, t2}
    ThreadOf <- MCThreadOf
    MaxRows = 3
INVARIANTS
    OneRowPerEvent
PROPERTIES
    ClaimedInOrder
    SettledForGood
    VerdictKeptByQueue
    ImplementsTickets
CHECK_DEADLOCK FALSE
