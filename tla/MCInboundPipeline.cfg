SPECIFICATION AllSpec
CONSTANTS
    Edge = {f}
    Direct = {d}
    Ceiling = 2
    MaxInFlight = 2
    MaxDeliveries = 3
    MaxBoots = 2
    MaxOOOGap = 8
    Limited = {"k1", "k2"}
    Callers = {p1, p2}
    Capacity = 1
    Refill = 2
    DropAfter = 1
    MaxTracked = 1
    MaxTime = 4
    Handles = {h1}
    BodyTtl = 2
    Names = {n1, n2}
    PreferFile = {n1}
    Values = {v1, v2}
    Unset = Unset
    MaxPatterns = 4
    MaxReloads = 2
    Outgoing = {m1, m2}
    Consumers = {d1, d2}
    Permits = 1
    MaxRetry = 2
    MaxPauses = 3
    Never = Never
INVARIANTS
    AckedIsAccounted
    AttemptsBounded
    RateHolds
    T3StaysT3
    WaitedIsRescanned
PROPERTIES CurrentSecretsStay
CHECK_DEADLOCK FALSE
