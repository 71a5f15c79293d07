CONSTANTS
    web = web
    alpha = alpha
    v1 = v1
    v2 = v2
    send = send
    search = search
    extra = extra
    Order <- MCOrder
    Builtins = {web}
    Versions = {v1, v2}
    Shipped = Shipped
    Tools = {send, search, extra}
    Reserved = {send}
    Offers <- MCOffers
    BuiltinsOn = TRUE
    MaxInstalled = 1
    MaxTools = 1
    MaxCommands = 4
SPECIFICATION Spec
INVARIANTS
    InStep
    OffIsKept
    NothingUnasked
    LimitIsKept
