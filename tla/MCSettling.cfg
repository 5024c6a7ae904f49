SPECIFICATION FairSpec
CONSTANTS
    answer = answer
    other = other
    note = note
    tick = tick
    next = next
    NoRequest = NoRequest
    Requests = {answer, note}
    Turns = {1}
    NoTurn = 0
    TurnOf <- MCTurnOf
    Action <- MCAction
    MaxTries = 2
    MaxRetries = 2
    MaxLen = 3
    MaxText = 8
    MaxDeliveries = 2
    Budgets <- Settling
PROPERTIES
    TurnClaimEnds
    RequestSettles
CHECK_DEADLOCK FALSE
