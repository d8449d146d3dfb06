CONSTANTS
    p1 = p1
    p2 = p2
    j1 = j1
    j2 = j2
    NoProvider = NoProvider
    Jobs = {j1}
    Providers = {p1, p2}
    Slots <- MCSlots
    MaxAttempts = 1
    CaptureTries = 2
    MaxFaults = 1
    MaxCrashes = 2
    MaxRetries = 1
    MaxLate = 1
SPECIFICATION Spec
SYMMETRY ProviderSymmetry
CHECK_DEADLOCK FALSE
INVARIANTS TypeOK TasksInOrder RunningTracked NoUntracked WorkerOwned
PROPERTIES ReleaseOrder StampsKept ImplementsKernel
