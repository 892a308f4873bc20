SPECIFICATION AllSpec
CONSTANTS
    tui = tui
    discord = discord
    Legs = {tui, discord}
    MaxFrames = 1
    MaxBytes = 2
    TTL = 1
    MaxTotalBytes = 3
    Sizes = {1, 2}
    MaxSeq = 3
    MaxNow = 2
    MaxGeneration = 1
    Bodies = {h1, h2, h3}
    Discarding = {h1, h2, h3}
    Nothing = Nothing
    Retries = 1
    SocketCount = 2
    Fetches = {f1, f2}
    Cap = 1
    PerMinute = 2
    Daily = 2
    Concurrency = 1
    MaxAttempts = 2
    Peers = {p1, p2, p3}
    Strangers = {p1}
    Notes = {n1, n2, n3}
    Calls = {k1, k2}
    Nobody = Nobody
    Permits = 2
    Threshold = 2
    FailureSpan = 2
    Adapters = {a1, a2}
    MaxBoots = 2
    MaxRestarts = 1
    MaxPreAck = 1
    Planes = {"proxy"}
    Tunnels = {c1}
    Senders = {w1, w2}
    ChildBytes = 4
    PipeSize = 2
    MaxLine = 1
    ChildLines = 1
INVARIANTS
    BudgetExact
    SocketsArePending
    TimeoutIsHonest
    LoneTransport
    NothingLeftBehind
    WholeLinesAreLines
SYMMETRY Symmetry
CHECK_DEADLOCK FALSE
