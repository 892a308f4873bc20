CONSTANTS
    tui = tui
    discord = discord
    Tui = tui
    Legs = {tui, discord}
    MaxFrames = 1
    MaxBytes = 9
    TTL = 1
    MaxOOOGap = 1024
    FramesPerLeg = 2
    QueueCap = 2
    MaxInFlight = 2
    MaxBoots = 2
SPECIFICATION Spec
CHECK_DEADLOCK FALSE
INVARIANTS NoStaleNumber SourceOrder
