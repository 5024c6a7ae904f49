SPECIFICATION Spec
CONSTANTS
    answer = answer
    other = other
    note = note
    tick = tick
    next = next
    NoRequest = NoRequest
    Requests = {answer, other, note, tick, next}
    Turns = {1, 2}
    NoTurn = 0
    TurnOf <- MCTurnOf
    Action <- MCAction
    MaxTries = 2
    MaxRetries = 2
    MaxLen = 3
    MaxText = 8
    MaxDeliveries = 4
    Budgets <- Everything
INVARIANTS
    PostedAgainOnlyByTakeover
    NoticeShownAgainOnlyBlindly
    AcceptedIsExplained
    OneAnswerPerTurn
    OpenTurnHasCommand
    PostLosesNothing
PROPERTIES
    NoPostAfterTheEnd
    TurnClaimIsLease
CHECK_DEADLOCK FALSE
SYMMETRY Symmetry
