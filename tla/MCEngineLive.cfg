CONSTANTS
    p1 = p1
    p2 = p2
    j1 = j1
    j2 = j2
    NoProvider = NoProvider
    Jobs = {j1}
    Providers = {p1}
    Slots <- MCSlots
    MaxAttempts = 2
    CaptureTries = 2
    MaxFaults = 2
    MaxCrashes = 1
    MaxRetries = 0
    MaxLate = 1
SPECIFICATION FairSpec
CHECK_DEADLOCK FALSE
PROPERTIES CancelEnds PlacementsEnd
