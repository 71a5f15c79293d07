CONSTANTS
    friend = friend
    other = other
    Chats = {friend, other}
    Private = {friend, other}
    MaxReplies = 2
    MaxWatches = 1
    PerHour = 1
    Hour = 0
    Cooldown = 1
    Life = 2
    DefaultLife = 1
    MaxRuns = 1
    MaxRows = 2
    MaxMessages = 2
    MaxTime = 1
    MaxTrouble = 1
SPECIFICATION Spec
INVARIANTS
    WithinLimits
    QuietStopHolds
    SlotsAreHeld
SYMMETRY ChatSymmetry
CHECK_DEADLOCK FALSE
