SPECIFICATION Spec
CONSTANTS
    here = here
    there = there
    Chats = {here, there}
    GlobalScope = FALSE
    MaxConcurrent = 1
    PerMinute = 1
    MaxMessages = 3
    MaxAsks = 2
INVARIANTS
    SlotIsHeld
    Answerable
    ApprovedByOwner
    QuietResetHolds
PROPERTY StopRefuses
SYMMETRY ChatSymmetry
CHECK_DEADLOCK FALSE
