CONSTANTS
    r1 = r1
    r2 = r2
    model = model
    old = old
    new = new
    Runs = {r1, r2}
    Keys = {model}
    Values = {old, new}
    Env <- MCEnv
    MaxRetries = 1
    MaxCalls = 2
    Pieces = 2
    MaxClients = 2
SPECIFICATION Spec
INVARIANTS
    SettingsInStep
    NewestIsUsed
    StreamedIsSent
SYMMETRY RunSymmetry
