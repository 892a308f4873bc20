CONSTANTS
    tui = tui
    discord = discord
    Tui = tui
    Legs = {tui}
    MaxFrames = 1
    MaxBytes = 9
    TTL = 1
    MaxOOOGap = 1024
    FramesPerLeg = 2
    QueueCap = 2
    MaxInFlight = 2
    MaxBoots = 3
SPECIFICATION FairSpec
CHECK_DEADLOCK FALSE
INVARIANTS NoSilentLoss TurnAtMostOnce
PROPERTIES GateReopens LinkRestored
