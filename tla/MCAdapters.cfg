SPECIFICATION Spec
CONSTANTS
    Notes = {n1, n2}
    Others = {o1}
    Nobody = Nobody
    MaxInFlight = 1
    PerCaller = 1
    WireLimit = 1
    Adapters = {a1, a2}
    MaxBoots = 1
    Threshold = 2
    CoreCeiling = 2
    MaxRestarts = 2
    MaxSeq = 2
    MaxIncidents = 2
    MaxFrames = 4
    Spawns = {e1, e2}
    Incarnations = {i1, i2}
    Known = {i1}
    MaxGranted = 1
INVARIANTS
    ClosedIsQuiet
    FramesTellOneStory
    StopLeavesNoChild
    OneIncidentPerIncarnation
    DeliveredIsAudited
PROPERTIES
    ShutdownCloses
    StopEnds
CHECK_DEADLOCK FALSE
