SPECIFICATION FairSpec
CONSTANTS
    e1 = e1
    e2 = e2
    e3 = e3
    NoEvent = NoEvent
    Events = {e1, e2}
    MaxTurns = 3
    MaxRows = 2
    Budgets <- Nothing
PROPERTIES
    FollowUpDelivered
CHECK_DEADLOCK FALSE
