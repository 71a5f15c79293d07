SPECIFICATION Spec
CONSTANTS
    MaxRecoveryAttempts = 2
    ProbeAfter = 2
    MaxTrouble = 3
INVARIANTS
    StoppedIsDown
PROPERTIES
    Restored
    FailureEnds
