SPECIFICATION SandboxSpec
CONSTANTS
    x1 = x1
    x2 = x2
    Programs = {x1, x2}
    MaxRpcCalls = 1
    MaxConcurrentRpc = 1
    MaxCuts = 1
INVARIANTS
    PipesInStep
    NothingLeaks
    CountIsHonest
PROPERTY Ends
CHECK_DEADLOCK FALSE
