SPECIFICATION AllSpec
CONSTANTS
    Machines = {"turn", "hooks", "identity"}
    Inbounds = {m1, m2, m3}
    External = {}
    Idempotent = {}
    Internal = {clock}
    MaxIterations = 2
    MaxCalls = 1
    RecallLimit = 2
    MemoryTurns = 3
    MaxAttempts = 2
    NoCall = NoCall
    Hooks <- MCHooks
    MaxHooks = 2
    CarrierRank = 1
    Drifted = {"after_flush"}
    Users = {u1, u2}
    Ids = {i1}
    Clis = {c1, c2}
    Tokens = {t1, t2}
    Ttl = 1
    MaxCommands = 3
    Nobody = Nobody
INVARIANTS
    MemoryFollowsRows
    PromptEndsOnMessage
    WriteIsCleared
    StaleOnlyWhileUntold
CHECK_DEADLOCK FALSE
