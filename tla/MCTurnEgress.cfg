SPECIFICATION AllSpec
CONSTANTS
    Machines = {"turn"}
    Inbounds = {m1}
    External = {post, get}
    Idempotent = {get}
    Internal = {clock}
    MaxIterations = 3
    MaxCalls = 2
    RecallLimit = 1
    MemoryTurns = 1
    MaxAttempts = 3
    NoCall = NoCall
    Hooks <- MCHooks
    MaxHooks = 0
    CarrierRank = 1
    Drifted = {}
    Users = {}
    Ids = {}
    Clis = {}
    Tokens = {}
    Ttl = 1
    MaxCommands = 0
    Nobody = Nobody
INVARIANTS
    FiresOnce
    LedgerFollowsJournal
CHECK_DEADLOCK FALSE
