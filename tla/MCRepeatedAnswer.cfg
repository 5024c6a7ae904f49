SPECIFICATION Spec
CONSTANTS
    e1 = e1
    e2 = e2
    e3 = e3
    NoEvent = NoEvent
    Events = {e1}
    MaxTurns = 3
    MaxRows = 1
    Budgets <- AskingAtEnd
PROPERTIES
    NoRepeatedAnswer
CHECK_DEADLOCK FALSE
