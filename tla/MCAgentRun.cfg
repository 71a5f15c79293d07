SPECIFICATION Spec
CONSTANTS
    r1 = r1
    r2 = r2
    Runs = {r1, r2}
    Methods = {"send"}
    Writes = {"send"}
    Targets <- MCTargets
    AllowList = {}
    DenyList <- MCBarred
    Grantable = {"send"}
    ReadOnly = FALSE
    Fallback = "deny"
    MaxOutbound = 1
    MinGap = 1
    MaxSteps = 2
    MaxToolCalls = 2
    MaxErrors = 1
    MaxParallel = 2
    MaxBusy = 2
INVARIANTS
    Sanctioned
    QuietBudgetHolds
    GateIsHeld
    AuditIsHonest
PROPERTY WritesSpaced
SYMMETRY RunSymmetry
CHECK_DEADLOCK FALSE
