CONSTANTS
    p1 = p1
    p2 = p2
    j1 = j1
    j2 = j2
    NoProvider = NoProvider
    Jobs = {j1, j2}
    Providers = {p1}
    Slots <- MCSlots
    MaxAttempts = 2
    CaptureTries = 1
    MaxFaults = 1
    MaxCrashes = 0
    MaxRetries = 0
    MaxLate = 0
SPECIFICATION Spec
SYMMETRY JobSymmetry
CHECK_DEADLOCK FALSE
INVARIANTS CapacityOK
