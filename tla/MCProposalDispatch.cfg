SPECIFICATION AllSpec
CONSTANTS
    Resets = {2, 3}
    Malformed = {1}
    Unknown = {4}
    Bootstrap = {3}
    MaxHeads = 4
    MaxTrips = 2
    MaxFaults = 2
    Shells = {e1}
    Ids = {i1, i2}
    Nobody = Nobody
    PolicyFields = {f1, f2}
    Allowlist = {f1}
    Knobs = {k1}
    Editors = {e1}
    MaxWrites = 3
    Failures = 2
    Nothing = Nothing
    Callers = {p1, p2}
    Threshold = 2
    FailureWindow = 2
    ReArm = 2
    MaxNow = 3
INVARIANTS
    ApprovedStays
    CachedMeansApplied
    ResetNotUndone
PROPERTIES SettlesOnce MergedIsSettled
CHECK_DEADLOCK FALSE
