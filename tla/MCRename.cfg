SPECIFICATION Spec
CONSTANTS
    Resets = {2, 3}
    Malformed = {}
    Unknown = {}
    Bootstrap = {3}
    MaxHeads = 4
    MaxTrips = 1
    MaxFaults = 1
INVARIANT SentinelCovers
CHECK_DEADLOCK FALSE
