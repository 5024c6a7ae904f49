SPECIFICATION Spec
SYMMETRY Symmetry
CONSTANTS
    c1 = c1
    c2 = c2
    c3 = c3
    Conversations = {c1, c2, c3}
    Setups <- Everything
    MaxMessages = 2
    DailyLimit = 2
INVARIANTS
    TypeOK
    WindowsWithinLimit
    NoSharedPane
    ReaperSparesOwned
    NoPaneOutOfReach
    NotificationsWithinLimit
PROPERTY
    IntakeStopsOnlyWithWindow
