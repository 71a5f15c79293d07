SPECIFICATION TranscriptSpec
CONSTANTS
    r1 = r1
    r2 = r2
    Sessions = {r1, r2}
    Width = 2
    HistoryLimit = 4
    KeepRecent = 2
    MaxSteps = 2
    MaxTurns = 7
    MaxBatches = 3
    MaxLost = 1
INVARIANTS
    Accepted
    SeenIsStored
SYMMETRY RunSymmetry
CHECK_DEADLOCK FALSE
