SPECIFICATION FairSpec
CONSTANTS
    Jobs = {j1}
    None = None
    MaxAsks = 2
    MaxFaults = 1
CHECK_DEADLOCK FALSE
INVARIANTS NothingMissed DriveSettles NeverBlind
PROPERTIES CatchesUp
