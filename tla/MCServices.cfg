SPECIFICATION AllSpec
CONSTANTS
    FirstParty <- MCFirstParty
    AdapterKeys <- MCAdapterKeys
    OperatorKeys <- MCOperatorKeys
    MaxHeads = 4
    MaxFaults = 3
    MaxMissed = 3
    SinkAccepts = FALSE
    CommitAckLost = FALSE
    MaxBoots = 2
    MaxOutages = 1
    Conns = {c1, c2}
    MaxServe = 1
    Turns = {t1, t2}
    PerCall = 1
    Costs = {0, 1, 2}
    Caps = {2, 3}
    MaxRounds = 2
    MaxCalls = 2
    MaxSets = 1
    MaxUnseen = 1
    MaxSeen = 2
INVARIANTS
    RevokedStaysRevoked
    OutageDenies
    ExitReleases
    SpendBounded
CHECK_DEADLOCK FALSE
